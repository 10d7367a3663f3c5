----------------------- MODULE QuantifierBoundsProofs -----------------------
(***************************************************************************)
(* Proofs about RewriteQuantifierData, for every number of bindings and    *)
(* every set of quantifiers and environments.  First, what holds of the    *)
(* data unconditionally: they are well formed, mention no binding that is  *)
(* gone, and keep the shape of triggers.  Then, that they keep the meaning *)
(* of the quantifier, provided that it is none of those for which the code *)
(* goes wrong.                                                             *)
(***************************************************************************)
EXTENDS QuantifierBounds, FiniteSetTheorems, SequenceTheorems, WellFoundedInduction, TLAPS

-----------------------------------------------------------------------------
(* Induction, and functions that are defined by it.                        *)

(* A set of naturals that is not empty has a least element.                *)
LEMMA LeastNumber ==
  ASSUME NEW T, T \subseteq Nat, T # {}
  PROVE  \E least \in T : \A y \in T : least <= y
<1>1. IsWellFoundedOn(OpToRel(<, Nat), Nat)
  BY NatLessThanWellFounded
<1>2. PICK least \in T : \A y \in T : ~(<<y, least>> \in OpToRel(<, Nat))
  BY <1>1, WFMin
<1>3. \A y \in T : ~(y < least)
  BY <1>2 DEF OpToRel
<1> QED
  BY <1>3

(* A set that holds 0 and, with a number, the next, holds all naturals.    *)
LEMMA UpwardInduction ==
  ASSUME NEW T, 0 \in T, \A n \in Nat : n \in T => n + 1 \in T
  PROVE  Nat \subseteq T
<1> DEFINE U == Nat \ T
<1>1. SUFFICES ASSUME U # {} PROVE FALSE
  OBVIOUS
<1>2. PICK least \in U : \A y \in U : least <= y
  BY <1>1, LeastNumber
<1>3. least # 0 /\ least - 1 \in Nat /\ least - 1 \notin U
  BY <1>2
<1> QED
  BY <1>2, <1>3

(* The same up to a number.                                                *)
LEMMA BoundedInduction ==
  ASSUME NEW n \in Nat, NEW T, 0 \in T, \A i \in 0 .. n - 1 : i \in T => i + 1 \in T
  PROVE  0 .. n \subseteq T
<1> DEFINE U == {j \in Nat : j <= n => j \in T}
<1>1. 0 \in U
  OBVIOUS
<1>2. ASSUME NEW j \in Nat, j \in U PROVE j + 1 \in U
  BY <1>2
<1> HIDE DEF U
<1>3. Nat \subseteq U
  BY <1>1, <1>2, UpwardInduction
<1> QED
  BY <1>3 DEF U

(* A function on 0 .. n can be built from its value at 0.                  *)
GoesForward(n, S, base, go, f) ==
  f \in [0 .. n -> S] /\ f = [i \in 0 .. n |-> IF i = 0 THEN base ELSE go[i][f[i - 1]]]
LEMMA ForwardExists ==
  ASSUME NEW n \in Nat, NEW S, NEW base \in S, NEW go \in [1 .. n -> [S -> S]]
  PROVE  \E f : GoesForward(n, S, base, go, f)
<1> DEFINE Upto(m, f) == f = [i \in 0 .. m |-> IF i = 0 THEN base ELSE go[i][f[i - 1]]]
           T == {m \in 0 .. n : \E f \in [0 .. m -> S] : Upto(m, f)}
<1>1. 0 \in T
  <2>1. Upto(0, [i \in 0 .. 0 |-> base])
    OBVIOUS
  <2>2. [i \in 0 .. 0 |-> base] \in [0 .. 0 -> S] /\ 0 \in 0 .. n
    OBVIOUS
  <2> HIDE DEF Upto
  <2> QED
    BY <2>1, <2>2
<1>2. ASSUME NEW m \in 0 .. n - 1, m \in T PROVE m + 1 \in T
  <2>1. PICK f \in [0 .. m -> S] : Upto(m, f)
    BY <1>2
  <2> DEFINE h == [i \in 0 .. m + 1 |-> IF i <= m THEN f[i] ELSE go[m + 1][f[m]]]
  <2>2. f[m] \in S /\ go[m + 1] \in [S -> S] /\ go[m + 1][f[m]] \in S
    BY <2>1
  <2>3. h \in [0 .. m + 1 -> S]
    BY <2>2
  <2>4. ASSUME NEW i \in 0 .. m + 1
        PROVE  h[i] = IF i = 0 THEN base ELSE go[i][h[i - 1]]
    <3>1. CASE i = m + 1
      <4>1. h[i] = go[i][f[m]] /\ h[i - 1] = f[m] /\ i # 0
        BY <3>1
      <4> QED
        BY <4>1
    <3>2. CASE i = 0
      BY <2>1, <3>2
    <3>3. CASE i \in 1 .. m
      <4>1. h[i] = f[i] /\ h[i - 1] = f[i - 1] /\ i # 0
        BY <3>3
      <4>2. f[i] = go[i][f[i - 1]]
        BY <2>1, <3>3
      <4> QED
        BY <4>1, <4>2
    <3> QED
      BY <3>1, <3>2, <3>3
  <2>5. Upto(m + 1, h)
    <3>1. h = [i \in 0 .. m + 1 |-> h[i]]
      OBVIOUS
    <3> HIDE DEF h
    <3> QED
      BY <2>4, <3>1
  <2> HIDE DEF Upto, h
  <2> QED
    BY <2>3, <2>5
<1> HIDE DEF Upto, T
<1>3. 0 .. n \subseteq T
  BY <1>1, <1>2, BoundedInduction
<1> QED
  BY <1>3 DEF T, Upto, GoesForward

-----------------------------------------------------------------------------
(* Sequences.                                                              *)

LEMMA InRange ==
  ASSUME NEW S, NEW s \in Seq(S), NEW x
  PROVE  /\ x \in Range(s) <=> \E i \in 1 .. Len(s) : x = s[i]
         /\ x \in Range(s) => x \in S
<1>1. DOMAIN s = 1 .. Len(s) /\ \A i \in 1 .. Len(s) : s[i] \in S
  OBVIOUS
<1> QED
  BY <1>1 DEF Range

LEMMA HeadAndTail ==
  ASSUME NEW S, NEW s \in Seq(S), s # <<>>
  PROVE  /\ Head(s) \in S /\ Tail(s) \in Seq(S) /\ Head(s) \in Range(s)
         /\ \A x : x \in Range(s) <=> x = Head(s) \/ x \in Range(Tail(s))
<1>1. /\ Len(s) \in Nat /\ Len(s) >= 1 /\ Head(s) = s[1] /\ Head(s) \in S
      /\ Tail(s) \in Seq(S) /\ Len(Tail(s)) = Len(s) - 1
      /\ \A i \in 1 .. Len(s) - 1 : Tail(s)[i] = s[i + 1]
  OBVIOUS
<1>2. ASSUME NEW x \in Range(s) PROVE x = Head(s) \/ x \in Range(Tail(s))
  <2>1. PICK i \in 1 .. Len(s) : x = s[i]
    BY InRange
  <2>2. CASE i = 1
    BY <1>1, <2>1, <2>2
  <2>3. CASE i # 1
    <3>1. i - 1 \in 1 .. Len(s) - 1 /\ s[i] = Tail(s)[i - 1]
      BY <1>1, <2>3
    <3> QED
      BY <1>1, <2>1, <3>1, InRange
  <2> QED
    BY <2>2, <2>3
<1>3. Head(s) \in Range(s)
  BY <1>1, InRange
<1>4. ASSUME NEW x, x \in Range(Tail(s)) PROVE x \in Range(s)
  <2>1. PICK i \in 1 .. Len(s) - 1 : x = Tail(s)[i]
    <3>1. \E i \in 1 .. Len(Tail(s)) : x = Tail(s)[i]
      BY <1>1, <1>4 DEF Range
    <3> QED
      BY <1>1, <3>1
  <2>2. x = s[i + 1] /\ i + 1 \in 1 .. Len(s)
    BY <1>1, <2>1
  <2> QED
    BY <2>2, InRange
<1> QED
  BY <1>1, <1>2, <1>3, <1>4

LEMMA RangeConcat ==
  ASSUME NEW S, NEW s \in Seq(S), NEW t \in Seq(S)
  PROVE  /\ s \o t \in Seq(S)
         /\ \A x : x \in Range(s \o t) <=> x \in Range(s) \/ x \in Range(t)
<1>1. s \o t \in Seq(S) /\ Len(s \o t) = Len(s) + Len(t)
      /\ Len(s) \in Nat /\ Len(t) \in Nat
  OBVIOUS
<1>2. \A i \in 1 .. Len(s) : (s \o t)[i] = s[i]
  OBVIOUS
<1>3. \A i \in 1 .. Len(t) : (s \o t)[Len(s) + i] = t[i]
  OBVIOUS
<1> DEFINE u == s \o t
<1>4. u \in Seq(S) /\ Len(u) = Len(s) + Len(t)
  BY <1>1
<1> HIDE DEF u
<1>5. ASSUME NEW x, x \in Range(u) PROVE x \in Range(s) \/ x \in Range(t)
  <2>1. PICK i \in 1 .. Len(u) : x = u[i]
    BY <1>4, <1>5, InRange
  <2>2. CASE i <= Len(s)
    <3>1. i \in 1 .. Len(s) /\ x = s[i]
      BY <1>1, <1>2, <1>4, <2>1, <2>2 DEF u
    <3> QED
      BY <3>1, InRange
  <2>3. CASE i > Len(s)
    <3>1. i - Len(s) \in 1 .. Len(t) /\ Len(s) + (i - Len(s)) = i
      BY <1>1, <1>4, <2>1, <2>3
    <3>2. x = t[i - Len(s)]
      BY <1>3, <2>1, <3>1 DEF u
    <3> QED
      BY <3>1, <3>2, InRange
  <2> QED
    BY <1>1, <2>1, <2>2, <2>3
<1>6. ASSUME NEW x, x \in Range(s) PROVE x \in Range(u)
  <2>1. PICK i \in 1 .. Len(s) : x = s[i]
    BY <1>6, InRange
  <2>2. i \in 1 .. Len(u) /\ x = u[i]
    BY <1>1, <1>2, <1>4, <2>1 DEF u
  <2> QED
    BY <1>4, <2>2, InRange
<1>7. ASSUME NEW x, x \in Range(t) PROVE x \in Range(u)
  <2>1. PICK i \in 1 .. Len(t) : x = t[i]
    BY <1>7, InRange
  <2>2. Len(s) + i \in 1 .. Len(u) /\ x = u[Len(s) + i]
    BY <1>1, <1>3, <1>4, <2>1 DEF u
  <2> QED
    BY <1>4, <2>2, InRange
<1> QED
  BY <1>1, <1>5, <1>6, <1>7 DEF u

LEMMA RangeAppend ==
  ASSUME NEW S, NEW s \in Seq(S), NEW y \in S
  PROVE  /\ Append(s, y) \in Seq(S)
         /\ \A x : x \in Range(Append(s, y)) <=> x \in Range(s) \/ x = y
<1>1. Append(s, y) = s \o <<y>> /\ <<y>> \in Seq(S)
  OBVIOUS
<1>2. Range(<<y>>) = {y}
  BY DEF Range
<1>3. \A x : x \in Range(s \o <<y>>) <=> x \in Range(s) \/ x \in Range(<<y>>)
  BY <1>1, RangeConcat
<1> QED
  BY <1>1, <1>2, <1>3

LEMMA ShortRange ==
  ASSUME NEW x, NEW y
  PROVE  Range(<<>>) = {} /\ Range(<<x>>) = {x} /\ Range(<<x, y>>) = {x, y}
BY DEF Range

(* The elements at the places selected.                                    *)
LEMMA SelectedIs ==
  ASSUME NEW S, NEW s \in Seq(S), NEW places
  PROVE  /\ Selected(s, places) \in Seq(S)
         /\ \A x : x \in Range(Selected(s, places)) <=>
                     \E i \in 1 .. Len(s) : i \in places /\ x = s[i]
<1> DEFINE n == Len(s)
           go == [i \in 1 .. n |-> [u \in Seq(S) |-> IF i \in places THEN Append(u, s[i]) ELSE u]]
           Is(f) == f = [i \in 0 .. n |->
                          IF i = 0 THEN <<>>
                          ELSE IF i \in places THEN Append(f[i - 1], s[i]) ELSE f[i - 1]]
<1>1. go \in [1 .. n -> [Seq(S) -> Seq(S)]] /\ <<>> \in Seq(S) /\ n \in Nat
      /\ DOMAIN s = 1 .. n /\ \A i \in 1 .. n : s[i] \in S
  OBVIOUS
<1>2. PICK f \in [0 .. n -> Seq(S)] : f = [i \in 0 .. n |-> IF i = 0 THEN <<>> ELSE go[i][f[i - 1]]]
  <2> DEFINE base == <<>>
             B == Seq(S)
  <2>1. base \in B /\ go \in [1 .. n -> [B -> B]]
    BY <1>1
  <2> HIDE DEF go, n, base, B
  <2>2. PICK f : GoesForward(n, B, base, go, f)
    BY <1>1, <2>1, ForwardExists
  <2> QED
    BY <2>2 DEF base, B, GoesForward
<1>3. Is(f)
  <2>1. ASSUME NEW i \in 0 .. n
        PROVE  f[i] = IF i = 0 THEN <<>>
                      ELSE IF i \in places THEN Append(f[i - 1], s[i]) ELSE f[i - 1]
    <3>1. f[i] = IF i = 0 THEN <<>> ELSE go[i][f[i - 1]]
      BY <1>2
    <3>2. CASE i = 0
      BY <3>1, <3>2
    <3>3. CASE i # 0
      <4>1. i \in 1 .. n /\ i - 1 \in 0 .. n /\ f[i - 1] \in Seq(S)
        BY <1>1, <3>3
      <4>2. \A u \in Seq(S) : go[i][u] = IF i \in places THEN Append(u, s[i]) ELSE u
        BY <4>1
      <4> QED
        BY <3>1, <3>3, <4>1, <4>2
    <3> QED
      BY <3>2, <3>3
  <2>2. f = [i \in 0 .. n |-> f[i]]
    OBVIOUS
  <2> QED
    BY <2>1, <2>2
<1>4. PICK g : Is(g) /\ Selected(s, places) = g[n]
  <2>1. Selected(s, places) = (CHOOSE u : Is(u))[n]
    BY DEF Selected
  <2> HIDE DEF Is, n
  <2> QED
    BY <1>3, <2>1
<1>5. /\ g[0] = <<>>
      /\ \A i \in 1 .. n : i - 1 \in 0 .. n /\
           g[i] = IF i \in places THEN Append(g[i - 1], s[i]) ELSE g[i - 1]
  <2>1. \A i \in 0 .. n : g[i] = IF i = 0 THEN <<>>
                      ELSE IF i \in places THEN Append(g[i - 1], s[i]) ELSE g[i - 1]
    BY <1>4
  <2> HIDE DEF Is, n
  <2>2. 0 \in 0 .. n /\ \A i \in 1 .. n : i \in 0 .. n /\ i # 0 /\ i - 1 \in 0 .. n
    BY <1>1
  <2> QED
    BY <2>1, <2>2
<1> HIDE DEF Is, go
<1> DEFINE T == {i \in 0 .. n : /\ g[i] \in Seq(S)
                                /\ \A x : x \in Range(g[i]) <=>
                                     \E j \in 1 .. i : j \in places /\ x = s[j]}
<1>6. 0 \in T
  <2>1. 0 \in 0 .. n /\ g[0] \in Seq(S) /\ ~\E j : j \in 1 .. 0
    BY <1>1, <1>5
  <2>2. Range(g[0]) = {}
    BY <1>5, ShortRange
  <2> HIDE DEF n
  <2> QED
    BY <2>1, <2>2
<1>7. ASSUME NEW i \in 0 .. n - 1, i \in T PROVE i + 1 \in T
  <2>1. i + 1 \in 1 .. n /\ (i + 1) - 1 = i /\ i + 1 \in 0 .. n
    BY <1>1
  <2>2. g[i + 1] = IF i + 1 \in places THEN Append(g[i], s[i + 1]) ELSE g[i]
    BY <1>5, <2>1
  <2>3. /\ g[i] \in Seq(S) /\ s[i + 1] \in S
        /\ \A x : x \in Range(g[i]) <=> \E j \in 1 .. i : j \in places /\ x = s[j]
    BY <1>1, <1>7, <2>1
  <2>4. CASE i + 1 \in places
    <3>1. g[i + 1] \in Seq(S) /\ \A x : x \in Range(g[i + 1]) <=> x \in Range(g[i]) \/ x = s[i + 1]
      BY <2>2, <2>3, <2>4, RangeAppend
    <3>2. \A j : j \in 1 .. i + 1 <=> j \in 1 .. i \/ j = i + 1
      BY <1>1
    <3> HIDE DEF n
    <3> QED
      BY <2>1, <2>3, <2>4, <3>1, <3>2
  <2>5. CASE i + 1 \notin places
    <3>2. \A j : j \in 1 .. i + 1 <=> j \in 1 .. i \/ j = i + 1
      BY <1>1
    <3> HIDE DEF n
    <3> QED
      BY <2>1, <2>2, <2>3, <2>5, <3>2
  <2> QED
    BY <2>4, <2>5
<1>8. n \in T
  <2> HIDE DEF T, n
  <2>1. 0 .. n \subseteq T
    BY <1>1, <1>6, <1>7, BoundedInduction
  <2> QED
    BY <1>1, <2>1
<1> QED
  BY <1>1, <1>4, <1>8

-----------------------------------------------------------------------------
(* Terms, sides and conditions.                                            *)
Valuations == [Vars -> Int]
Products(t, pt) == [v \in Vars |-> t.coef[v] * pt[v]]

LEMMA ProductsTyped ==
  ASSUME NEW t \in Term, NEW pt \in Valuations
  PROVE  Products(t, pt) \in [Vars -> Int]
<1>1. \A v \in Vars : t.coef[v] \in Int /\ pt[v] \in Int
  BY DEF Term, Valuations
<1>2. \A v \in Vars : t.coef[v] * pt[v] \in Int
  BY <1>1
<1> QED
  BY <1>2 DEF Products

(* The value of a term is a sum, one binding after the other.              *)
SumsTo(f, start, products) ==
  /\ f \in [0 .. Bindings -> Int] /\ f[0] = start
  /\ \A v \in Vars : f[v] = f[v - 1] + products[v]

LEMMA TermSum ==
  ASSUME NEW t \in Term, NEW env \in Env, NEW pt \in Valuations
  PROVE  \E f : SumsTo(f, t.e[env], Products(t, pt)) /\ TermValue(t, env, pt) = f[Bindings]
<1> DEFINE n == Bindings
           base == t.e[env]
           Is(f) == f = [v \in 0 .. n |-> IF v = 0 THEN base ELSE f[v - 1] + t.coef[v] * pt[v]]
           products == Products(t, pt)
           go == [v \in 1 .. n |-> [x \in Int |-> x + products[v]]]
<1>1. n \in Nat /\ Vars = 1 .. n /\ base \in Int /\ products \in [Vars -> Int]
  BY BindingsAssumption, ProductsTyped DEF Vars, Term, Expr
<1>2. \A v \in Vars : products[v] = t.coef[v] * pt[v]
  BY DEF Products
<1> HIDE DEF products
<1>3. go \in [1 .. n -> [Int -> Int]]
  BY <1>1
<1>4. PICK f : GoesForward(n, Int, base, go, f)
  <2> HIDE DEF go, n, base
  <2> QED
    BY <1>1, <1>3, ForwardExists
<1>5. Is(f)
  <2>1. ASSUME NEW v \in 0 .. n
        PROVE  f[v] = IF v = 0 THEN base ELSE f[v - 1] + t.coef[v] * pt[v]
    <3>1. f[v] = IF v = 0 THEN base ELSE go[v][f[v - 1]]
      BY <1>4 DEF GoesForward
    <3>2. CASE v = 0
      BY <3>1, <3>2
    <3>3. CASE v # 0
      <4>1. v \in Vars /\ f[v - 1] \in Int
        <5>1. v \in 1 .. n /\ v - 1 \in 0 .. n
          BY <1>1, <3>3
        <5>2. f \in [0 .. n -> Int]
          BY <1>4 DEF GoesForward
        <5> HIDE DEF n
        <5> QED
          BY <1>1, <5>1, <5>2
      <4>2. go[v][f[v - 1]] = f[v - 1] + products[v]
        BY <1>1, <4>1
      <4> QED
        BY <1>2, <3>1, <3>3, <4>1, <4>2
    <3> QED
      BY <3>2, <3>3
  <2>2. f = [v \in 0 .. n |-> f[v]]
    BY <1>4 DEF GoesForward
  <2> QED
    BY <2>1, <2>2
<1>6. PICK g : Is(g) /\ TermValue(t, env, pt) = g[n]
  <2>1. TermValue(t, env, pt) = (CHOOSE u : Is(u))[n]
    BY DEF TermValue
  <2> HIDE DEF Is, n
  <2> QED
    BY <1>5, <2>1
<1>7. /\ DOMAIN g = 0 .. n /\ g[0] = base
      /\ \A v \in Vars : v - 1 \in 0 .. n /\ v \in 0 .. n /\ g[v] = g[v - 1] + products[v]
  <2>1. \A v \in 0 .. n : g[v] = IF v = 0 THEN base ELSE g[v - 1] + t.coef[v] * pt[v]
    BY <1>6
  <2>2. DOMAIN g = 0 .. n
    BY <1>6
  <2>3. 0 \in 0 .. n /\ \A v \in Vars : v \in 0 .. n /\ v # 0 /\ v - 1 \in 0 .. n
    BY <1>1
  <2> HIDE DEF n, Is, base
  <2> QED
    BY <1>2, <2>1, <2>2, <2>3
<1> HIDE DEF Is, base
<1>8. g \in [0 .. n -> Int]
  <2> DEFINE T == {v \in 0 .. n : g[v] \in Int}
  <2>1. 0 \in T
    BY <1>1, <1>7
  <2>2. ASSUME NEW v \in 0 .. n - 1, v \in T PROVE v + 1 \in T
    <3>1. v + 1 \in Vars /\ (v + 1) - 1 = v /\ v + 1 \in 0 .. n
      BY <1>1
    <3> QED
      BY <1>1, <1>7, <2>2, <3>1
  <2>3. 0 .. n \subseteq T
    <3> HIDE DEF T, n
    <3> QED
      BY <1>1, <2>1, <2>2, BoundedInduction
  <2>4. g = [v \in 0 .. n |-> g[v]]
    BY <1>6 DEF Is
  <2> QED
    BY <2>3, <2>4
<1> QED
  BY <1>6, <1>7, <1>8 DEF SumsTo, base, products

LEMMA TermTyped ==
  ASSUME NEW t \in Term, NEW env \in Env, NEW pt \in Valuations
  PROVE  TermValue(t, env, pt) \in Int
<1>1. PICK f : SumsTo(f, t.e[env], Products(t, pt)) /\ TermValue(t, env, pt) = f[Bindings]
  BY TermSum
<1> QED
  BY <1>1, BindingsAssumption DEF SumsTo

(* A term whose products are all 0.                                        *)
LEMMA TermConstant ==
  ASSUME NEW t \in Term, NEW env \in Env, NEW pt \in Valuations,
         \A v \in Vars : Products(t, pt)[v] = 0
  PROVE  TermValue(t, env, pt) = t.e[env]
<1>1. PICK f : SumsTo(f, t.e[env], Products(t, pt)) /\ TermValue(t, env, pt) = f[Bindings]
  BY TermSum
<1> DEFINE n == Bindings
           T == {v \in 0 .. n : f[v] = t.e[env]}
<1>2. n \in Nat /\ Vars = 1 .. n /\ \A v \in 0 .. n : f[v] \in Int
  BY <1>1, BindingsAssumption DEF Vars, SumsTo
<1>3. 0 \in T
  BY <1>1, <1>2 DEF SumsTo
<1>4. ASSUME NEW v \in 0 .. n - 1, v \in T PROVE v + 1 \in T
  <2>1. v + 1 \in Vars /\ (v + 1) - 1 = v /\ v + 1 \in 0 .. n /\ v \in 0 .. n
    BY <1>2
  <2>2. f[v + 1] = f[v] + 0
    BY <1>1, <2>1 DEF SumsTo
  <2> QED
    BY <1>2, <1>4, <2>1, <2>2
<1>5. 0 .. n \subseteq T
  <2> HIDE DEF T, n
  <2> QED
    BY <1>2, <1>3, <1>4, BoundedInduction
<1> QED
  BY <1>1, <1>2, <1>5

(* Two terms that differ in one product and in their constants.            *)
LEMMA TermsDiffer ==
  ASSUME NEW t \in Term, NEW pt \in Valuations, NEW u \in Term, NEW qt \in Valuations,
         NEW env \in Env, NEW v \in Vars,
         \A w \in Vars \ {v} : Products(t, pt)[w] = Products(u, qt)[w]
  PROVE  TermValue(t, env, pt) - TermValue(u, env, qt)
           = (t.e[env] - u.e[env]) + (Products(t, pt)[v] - Products(u, qt)[v])
<1>1. PICK f : SumsTo(f, t.e[env], Products(t, pt)) /\ TermValue(t, env, pt) = f[Bindings]
  BY TermSum
<1>2. PICK g : SumsTo(g, u.e[env], Products(u, qt)) /\ TermValue(u, env, qt) = g[Bindings]
  BY TermSum
<1> DEFINE n == Bindings
           p == Products(t, pt)
           q == Products(u, qt)
           d == t.e[env] - u.e[env]
           T == {w \in 0 .. n : f[w] - g[w] = IF w < v THEN d ELSE d + (p[v] - q[v])}
<1>3. /\ n \in Nat /\ Vars = 1 .. n /\ v \in 1 .. n
      /\ \A w \in 0 .. n : f[w] \in Int /\ g[w] \in Int
      /\ t.e[env] \in Int /\ u.e[env] \in Int
  BY <1>1, <1>2, BindingsAssumption DEF Vars, SumsTo, Term, Expr
<1>4. p \in [Vars -> Int] /\ q \in [Vars -> Int]
  BY ProductsTyped
<1>5. /\ f[0] = t.e[env] /\ g[0] = u.e[env]
      /\ \A w \in Vars : f[w] = f[w - 1] + p[w] /\ g[w] = g[w - 1] + q[w]
  BY <1>1, <1>2 DEF SumsTo
<1>6. \A w \in Vars \ {v} : p[w] = q[w]
  OBVIOUS
<1> HIDE DEF p, q
<1>7. 0 \in T
  BY <1>3, <1>5
<1>8. ASSUME NEW w \in 0 .. n - 1, w \in T PROVE w + 1 \in T
  <2>1. w + 1 \in Vars /\ (w + 1) - 1 = w /\ w + 1 \in 0 .. n /\ w \in 0 .. n
    BY <1>3
  <2>2. f[w + 1] = f[w] + p[w + 1] /\ g[w + 1] = g[w] + q[w + 1]
    BY <1>5, <2>1
  <2>3. p[w + 1] \in Int /\ q[w + 1] \in Int /\ p[v] \in Int /\ q[v] \in Int
    BY <1>3, <1>4, <2>1
  <2>4. w + 1 # v => p[w + 1] = q[w + 1]
    BY <1>6, <2>1
  <2>5. f[w] - g[w] = IF w < v THEN d ELSE d + (p[v] - q[v])
    BY <1>8
  <2> HIDE DEF T, n
  <2>7. d \in Int /\ f[w] \in Int /\ g[w] \in Int /\ v \in Int /\ w \in Int
    BY <1>3, <2>1
  <2> HIDE DEF d
  <2>6. f[w + 1] - g[w + 1] = IF w + 1 < v THEN d ELSE d + (p[v] - q[v])
    <3>1. CASE w + 1 < v
      BY <2>2, <2>3, <2>4, <2>5, <2>7, <3>1
    <3>2. CASE w + 1 = v
      BY <2>2, <2>3, <2>4, <2>5, <2>7, <3>2
    <3>3. CASE w + 1 > v
      BY <2>2, <2>3, <2>4, <2>5, <2>7, <3>3
    <3> QED
      BY <2>7, <3>1, <3>2, <3>3
  <2> QED
    BY <2>1, <2>6 DEF T
<1>9. 0 .. n \subseteq T
  <2> HIDE DEF T, n
  <2> QED
    BY <1>3, <1>7, <1>8, BoundedInduction
<1>10. f[n] - g[n] = d + (p[v] - q[v])
  BY <1>3, <1>9
<1> QED
  BY <1>1, <1>2, <1>10 DEF p, q

(* A term does not depend on bindings that it does not mention.            *)
LEMMA TermAgree ==
  ASSUME NEW t \in Term, NEW pt \in Valuations, NEW qt \in Valuations, NEW env \in Env,
         \A v \in Vars : t.coef[v] # 0 => pt[v] = qt[v]
  PROVE  TermValue(t, env, pt) = TermValue(t, env, qt)
<1>1. 1 \in Vars
  BY BindingsAssumption DEF Vars
<1>2. \A v \in Vars : Products(t, pt)[v] = Products(t, qt)[v]
  <2> SUFFICES ASSUME NEW v \in Vars PROVE t.coef[v] * pt[v] = t.coef[v] * qt[v]
    BY DEF Products
  <2>1. t.coef[v] \in Int /\ pt[v] \in Int /\ qt[v] \in Int
    BY DEF Term, Valuations
  <2>2. CASE t.coef[v] = 0
    BY <2>1, <2>2
  <2>3. CASE t.coef[v] # 0
    BY <2>3
  <2> QED
    BY <2>2, <2>3
<1>3. TermValue(t, env, pt) - TermValue(t, env, qt)
        = (t.e[env] - t.e[env]) + (Products(t, pt)[1] - Products(t, qt)[1])
  BY <1>1, <1>2, TermsDiffer
<1>4. /\ TermValue(t, env, pt) \in Int /\ TermValue(t, env, qt) \in Int
      /\ t.e[env] \in Int /\ Products(t, pt)[1] \in Int /\ Products(t, qt)[1] \in Int
  BY <1>1, TermTyped, ProductsTyped DEF Term, Expr
<1>5. Products(t, pt)[1] = Products(t, qt)[1]
  BY <1>1, <1>2
<1> DEFINE x == TermValue(t, env, pt)
           y == TermValue(t, env, qt)
           c == t.e[env]
           k == Products(t, pt)[1]
<1>6. x - y = (c - c) + (k - k) /\ x \in Int /\ y \in Int /\ c \in Int /\ k \in Int
  BY <1>3, <1>4, <1>5
<1> HIDE DEF x, y, c, k
<1>7. x = y
  BY <1>6
<1> QED
  BY <1>7 DEF x, y

LEMMA TermIndependent ==
  ASSUME NEW t \in Term, NEW pt \in Valuations, NEW env \in Env, \A v \in Vars : t.coef[v] = 0
  PROVE  TermValue(t, env, pt) = t.e[env]
<1>1. \A v \in Vars : Products(t, pt)[v] = 0
  <2> SUFFICES ASSUME NEW v \in Vars PROVE 0 * pt[v] = 0
    BY DEF Products
  <2>1. pt[v] \in Int
    BY DEF Valuations
  <2> QED
    BY <2>1
<1> QED
  BY <1>1, TermConstant

(* A binding and an independent expression.                                *)
LEMMA TermOfBinding ==
  ASSUME NEW t \in Term, IsBindingPlus(t)
  PROVE  /\ BindingOf(t) \in Vars
         /\ \A v \in Vars : t.coef[v] # 0 <=> v = BindingOf(t)
         /\ \A env \in Env, pt \in Valuations :
              TermValue(t, env, pt) = pt[BindingOf(t)] + t.e[env]
<1>1. PICK v \in Vars : t.coef = [w \in Vars |-> IF w = v THEN 1 ELSE 0]
  BY DEF IsBindingPlus
<1>2. \A w \in Vars : t.coef[w] # 0 <=> w = v
  BY <1>1
<1>3. BindingOf(t) = v
  BY <1>2 DEF BindingOf
<1>4. ASSUME NEW env \in Env, NEW pt \in Valuations
      PROVE  TermValue(t, env, pt) = pt[v] + t.e[env]
  <2> DEFINE u == [coef |-> [w \in Vars |-> 0], e |-> t.e]
  <2>1. u \in Term /\ u.e = t.e /\ \A w \in Vars : u.coef[w] = 0
    BY DEF Term
  <2> HIDE DEF u
  <2>2. TermValue(u, env, pt) = t.e[env]
    BY <2>1, TermIndependent
  <2>3. \A w \in Vars : pt[w] \in Int
    BY DEF Valuations
  <2>4. \A w \in Vars : Products(u, pt)[w] = 0
    <3> SUFFICES ASSUME NEW w \in Vars PROVE 0 * pt[w] = 0
      BY <2>1 DEF Products
    <3> QED
      BY <2>3
  <2>5. \A w \in Vars : Products(t, pt)[w] = IF w = v THEN pt[w] ELSE 0
    <3> SUFFICES ASSUME NEW w \in Vars
                 PROVE  t.coef[w] * pt[w] = IF w = v THEN pt[w] ELSE 0
      BY DEF Products
    <3>1. CASE w = v
      <4>1. t.coef[w] = 1
        BY <1>1, <3>1
      <4>2. 1 * pt[w] = pt[w]
        BY <2>3
      <4> QED
        BY <3>1, <4>1, <4>2
    <3>2. CASE w # v
      <4>1. t.coef[w] = 0
        BY <1>1, <3>2
      <4>2. 0 * pt[w] = 0
        BY <2>3
      <4> QED
        BY <3>2, <4>1, <4>2
    <3> QED
      BY <3>1, <3>2
  <2>6. TermValue(t, env, pt) - TermValue(u, env, pt)
          = (t.e[env] - u.e[env]) + (Products(t, pt)[v] - Products(u, pt)[v])
    BY <2>1, <2>4, <2>5, TermsDiffer
  <2>7. Products(t, pt)[v] = pt[v] /\ Products(u, pt)[v] = 0
    BY <2>4, <2>5
  <2>8. TermValue(t, env, pt) \in Int /\ TermValue(u, env, pt) \in Int /\ t.e[env] \in Int
    BY <2>1, TermTyped DEF Term, Expr
  <2>9. pt[v] \in Int
    BY <2>3
  <2> QED
    BY <2>1, <2>2, <2>6, <2>7, <2>8, <2>9
<1> QED
  BY <1>2, <1>3, <1>4

(* Substitution is evaluation elsewhere.                                   *)
Moved(pt, v, x) == [pt EXCEPT ![v] = x]

LEMMA MovedIs ==
  ASSUME NEW pt \in Valuations, NEW v \in Vars, NEW x \in Int
  PROVE  /\ Moved(pt, v, x) \in Valuations
         /\ Moved(pt, v, x)[v] = x
         /\ \A w \in Vars \ {v} : Moved(pt, v, x)[w] = pt[w]
BY DEF Moved, Valuations

LEMMA TermSubst ==
  ASSUME NEW t \in Term, NEW v \in Vars, NEW e \in Expr
  PROVE  /\ SubstTerm(t, v, e) \in Term
         /\ \A w \in Vars : SubstTerm(t, v, e).coef[w] # 0 <=> w # v /\ t.coef[w] # 0
         /\ \A env \in Env, pt \in Valuations :
              TermValue(SubstTerm(t, v, e), env, pt) = TermValue(t, env, Moved(pt, v, e[env]))
<1> DEFINE u == SubstTerm(t, v, e)
<1>1. t.coef \in [Vars -> Int] /\ t.e \in Expr /\ \A env \in Env : t.e[env] \in Int /\ e[env] \in Int
  BY DEF Term, Expr
<1>2. /\ u.coef \in [Vars -> Int]
      /\ u.coef[v] = 0 /\ \A w \in Vars \ {v} : u.coef[w] = t.coef[w]
  BY <1>1 DEF SubstTerm
<1>3. \A env \in Env : u.e[env] = t.e[env] + t.coef[v] * e[env]
  BY DEF SubstTerm
<1>4. u.e \in Expr
  <2>1. \A env \in Env : t.e[env] + t.coef[v] * e[env] \in Int
    BY <1>1
  <2> QED
    BY <2>1 DEF SubstTerm, Expr
<1>5. u \in Term
  <2>1. u = [coef |-> u.coef, e |-> u.e]
    BY DEF SubstTerm
  <2> HIDE DEF u
  <2> QED
    BY <1>2, <1>4, <2>1 DEF Term
<1>6. ASSUME NEW env \in Env, NEW pt \in Valuations
      PROVE  TermValue(u, env, pt) = TermValue(t, env, Moved(pt, v, e[env]))
  <2> HIDE DEF u
  <2> DEFINE qt == Moved(pt, v, e[env])
  <2>1. qt \in Valuations /\ qt[v] = e[env] /\ \A w \in Vars \ {v} : qt[w] = pt[w]
    BY <1>1, MovedIs
  <2> HIDE DEF qt
  <2>2. \A w \in Vars \ {v} : Products(u, pt)[w] = Products(t, qt)[w]
    BY <1>2, <2>1 DEF Products
  <2>3. Products(t, qt)[v] = t.coef[v] * e[env] /\ Products(u, pt)[v] = 0 * pt[v]
    BY <1>2, <2>1 DEF Products
  <2>4. pt[v] \in Int /\ t.coef[v] * e[env] \in Int
    BY <1>1 DEF Valuations
  <2>5. Products(u, pt)[v] = 0
    BY <2>3, <2>4
  <2>6. TermValue(u, env, pt) - TermValue(t, env, qt)
          = (u.e[env] - t.e[env]) + (Products(u, pt)[v] - Products(t, qt)[v])
    BY <1>5, <2>1, <2>2, TermsDiffer
  <2>7. TermValue(u, env, pt) \in Int /\ TermValue(t, env, qt) \in Int
    BY <1>5, <2>1, TermTyped
  <2> DEFINE product == t.coef[v] * e[env]
  <2>8. product \in Int /\ u.e[env] = t.e[env] + product /\ Products(t, qt)[v] = product
        /\ t.e[env] \in Int
    BY <1>1, <1>3, <2>3, <2>4
  <2> HIDE DEF product
  <2> DEFINE x == TermValue(u, env, pt)
             y == TermValue(t, env, qt)
             c == t.e[env]
  <2>9. x - y = ((c + product) - c) + (0 - product) /\ x \in Int /\ y \in Int /\ c \in Int
    BY <2>5, <2>6, <2>7, <2>8
  <2> HIDE DEF x, y, c
  <2>10. x = y
    BY <2>8, <2>9
  <2> QED
    BY <2>10 DEF x, y, qt
<1> QED
  BY <1>2, <1>5, <1>6

(* A side is a term, or selects one of two.                                *)
SelectSide == [less : Expr \X Expr, then : Term, else : Term]

LEMMA SideIs ==
  ASSUME NEW side \in Side
  PROVE  \/ /\ ~IsSelect(side) /\ side \in Term
            /\ Mentions(side) = {v \in Vars : side.coef[v] # 0}
            /\ \A env, pt : Value(side, env, pt) = TermValue(side, env, pt)
         \/ /\ IsSelect(side) /\ side \in SelectSide
            /\ side.then \in Term /\ side.else \in Term
            /\ side.less[1] \in Expr /\ side.less[2] \in Expr
            /\ Mentions(side)
                 = {v \in Vars : side.then.coef[v] # 0 \/ side.else.coef[v] # 0}
            /\ \A env, pt : Value(side, env, pt) = IF side.less[1][env] < side.less[2][env]
                                                   THEN TermValue(side.then, env, pt)
                                                   ELSE TermValue(side.else, env, pt)
<1>1. CASE side \in Term
  <2>1. ~IsSelect(side)
    BY <1>1 DEF IsSelect, Term
  <2> QED
    BY <1>1, <2>1 DEF Mentions, Branches, Value
<1>2. CASE side \in SelectSide
  <2>1. IsSelect(side)
    BY <1>2 DEF IsSelect, SelectSide
  <2>2. /\ side.then \in Term /\ side.else \in Term
        /\ side.less[1] \in Expr /\ side.less[2] \in Expr
    BY <1>2 DEF SelectSide
  <2> QED
    BY <1>2, <2>1, <2>2 DEF Mentions, Branches, Value
<1> QED
  BY <1>1, <1>2 DEF Side, SelectSide

LEMMA SideTyped ==
  ASSUME NEW side \in Side, NEW env \in Env, NEW pt \in Valuations
  PROVE  Value(side, env, pt) \in Int /\ Mentions(side) \subseteq Vars
BY SideIs, TermTyped

LEMMA SideAgree ==
  ASSUME NEW side \in Side, NEW env \in Env, NEW pt \in Valuations, NEW qt \in Valuations,
         \A v \in Mentions(side) : pt[v] = qt[v]
  PROVE  Value(side, env, pt) = Value(side, env, qt)
<1>1. CASE ~IsSelect(side)
  BY <1>1, SideIs, TermAgree
<1>2. CASE IsSelect(side)
  <2>1. /\ TermValue(side.then, env, pt) = TermValue(side.then, env, qt)
        /\ TermValue(side.else, env, pt) = TermValue(side.else, env, qt)
    BY <1>2, SideIs, TermAgree
  <2> QED
    BY <1>2, <2>1, SideIs
<1> QED
  BY <1>1, <1>2

LEMMA SideSubst ==
  ASSUME NEW side \in Side, NEW v \in Vars, NEW e \in Expr
  PROVE  /\ SubstSide(side, v, e) \in Side
         /\ IsSelect(SubstSide(side, v, e)) <=> IsSelect(side)
         /\ Mentions(SubstSide(side, v, e)) = Mentions(side) \ {v}
         /\ \A env \in Env, pt \in Valuations :
              Value(SubstSide(side, v, e), env, pt) = Value(side, env, Moved(pt, v, e[env]))
<1> DEFINE u == SubstSide(side, v, e)
<1>1. CASE ~IsSelect(side)
  <2>1. side \in Term /\ u = SubstTerm(side, v, e)
    BY <1>1, SideIs DEF SubstSide
  <2>2. u \in Term
    BY <2>1, TermSubst
  <2>3. u \in Side /\ ~IsSelect(u)
    BY <2>2 DEF Side, IsSelect, Term
  <2> QED
    BY <1>1, <2>1, <2>3, SideIs, TermSubst
<1>2. CASE IsSelect(side)
  <2> DEFINE then == SubstTerm(side.then, v, e)
             else == SubstTerm(side.else, v, e)
  <2>1. /\ side \in SelectSide /\ side.then \in Term /\ side.else \in Term
    BY <1>2, SideIs
  <2>2. then \in Term /\ else \in Term
    BY <2>1, TermSubst
  <2>3. u = [less |-> side.less, then |-> then, else |-> else]
    <3> HIDE DEF then, else
    <3> QED
      BY <1>2, <2>1 DEF SubstSide, SelectSide, then, else
  <2>4. u \in Side /\ IsSelect(u) /\ u.then = then /\ u.else = else /\ u.less = side.less
    <3> HIDE DEF then, else
    <3> QED
      BY <2>1, <2>2, <2>3 DEF SelectSide, Side, IsSelect
  <2>5. Mentions(u) = Mentions(side) \ {v}
    <3>1. \A w \in Vars : /\ then.coef[w] # 0 <=> w # v /\ side.then.coef[w] # 0
                          /\ else.coef[w] # 0 <=> w # v /\ side.else.coef[w] # 0
      BY <2>1, TermSubst
    <3>2. Mentions(side) = {w \in Vars : side.then.coef[w] # 0 \/ side.else.coef[w] # 0}
      BY <1>2, SideIs
    <3> HIDE DEF u, then, else
    <3>3. Mentions(u) = {w \in Vars : then.coef[w] # 0 \/ else.coef[w] # 0}
      BY <2>4, SideIs
    <3> QED
      BY <3>1, <3>2, <3>3
  <2>6. ASSUME NEW env \in Env, NEW pt \in Valuations
        PROVE  Value(u, env, pt) = Value(side, env, Moved(pt, v, e[env]))
    <3>1. /\ TermValue(then, env, pt) = TermValue(side.then, env, Moved(pt, v, e[env]))
          /\ TermValue(else, env, pt) = TermValue(side.else, env, Moved(pt, v, e[env]))
      BY <2>1, TermSubst
    <3> HIDE DEF u, then, else
    <3> QED
      BY <1>2, <2>4, <3>1, SideIs
  <2> QED
    BY <1>2, <2>4, <2>5, <2>6
<1> QED
  BY <1>1, <1>2

(* Comparisons.                                                            *)
Comparisons == {LESS, LESS_EQ, EQ, GREATER_EQ, GREATER, NEQ}

LEMMA ComparisonsDiffer ==
  /\ LESS # LESS_EQ /\ LESS # EQ /\ LESS # GREATER_EQ /\ LESS # GREATER /\ LESS # NEQ
  /\ LESS_EQ # EQ /\ LESS_EQ # GREATER_EQ /\ LESS_EQ # GREATER /\ LESS_EQ # NEQ
  /\ EQ # GREATER_EQ /\ EQ # GREATER /\ EQ # NEQ
  /\ GREATER_EQ # GREATER /\ GREATER_EQ # NEQ /\ GREATER # NEQ
<1>1. /\ "less" \in LESS /\ "eq" \notin LESS /\ "greater" \notin LESS
      /\ "less" \in LESS_EQ /\ "eq" \in LESS_EQ /\ "greater" \notin LESS_EQ
      /\ "less" \notin EQ /\ "eq" \in EQ /\ "greater" \notin EQ
      /\ "less" \notin GREATER_EQ /\ "eq" \in GREATER_EQ /\ "greater" \in GREATER_EQ
      /\ "less" \notin GREATER /\ "eq" \notin GREATER /\ "greater" \in GREATER
      /\ "less" \in NEQ /\ "eq" \notin NEQ /\ "greater" \in NEQ
  BY DEF LESS, LESS_EQ, EQ, GREATER_EQ, GREATER, NEQ
<1> QED
  BY <1>1

LEMMA HoldsIs ==
  ASSUME NEW l \in Int, NEW r \in Int
  PROVE  /\ Holds(l, LESS, r) <=> l < r
         /\ Holds(l, LESS_EQ, r) <=> l <= r
         /\ Holds(l, EQ, r) <=> l = r
         /\ Holds(l, GREATER_EQ, r) <=> l >= r
         /\ Holds(l, GREATER, r) <=> l > r
         /\ Holds(l, NEQ, r) <=> l # r
BY DEF Holds, LESS, LESS_EQ, EQ, GREATER_EQ, GREATER, NEQ

LEMMA FlipIs ==
  /\ flip(LESS) = GREATER /\ flip(LESS_EQ) = GREATER_EQ /\ flip(EQ) = EQ
  /\ flip(GREATER_EQ) = LESS_EQ /\ flip(GREATER) = LESS /\ flip(NEQ) = NEQ
BY DEF flip, LESS, LESS_EQ, EQ, GREATER_EQ, GREATER, NEQ

(* A condition compares two sides, or says that one is in a range.         *)
LEMMA ConditionIs ==
  ASSUME NEW c \in Condition
  PROVE  \/ /\ c.form = "compare" /\ c.left \in Side /\ c.right \in Side /\ c.comp \in Comparisons
            /\ CondMentions(c) = Mentions(c.left) \cup Mentions(c.right)
            /\ c = Compare(c.left, c.comp, c.right)
            /\ \A env, pt : CondHolds(c, env, pt)
                 <=> Holds(Value(c.left, env, pt), c.comp, Value(c.right, env, pt))
         \/ /\ c.form = "member" /\ c.left \in Side /\ c.from \in Side /\ c.to \in Side
            /\ CondMentions(c) = Mentions(c.left) \cup Mentions(c.from) \cup Mentions(c.to)
            /\ \A env, pt : CondHolds(c, env, pt)
                 <=> /\ Value(c.from, env, pt) <= Value(c.left, env, pt)
                     /\ Value(c.left, env, pt) < Value(c.to, env, pt)
<1>1. CASE c \in [form : {"compare"}, left : Side, comp : Comparisons, right : Side]
  <2>1. c.form = "compare" /\ c.left \in Side /\ c.right \in Side /\ c.comp \in Comparisons
        /\ c = Compare(c.left, c.comp, c.right)
    BY <1>1 DEF Compare
  <2>2. Sides(c) = {c.left, c.right}
    BY <2>1 DEF Sides
  <2>3. CondMentions(c) = Mentions(c.left) \cup Mentions(c.right)
    BY <2>2 DEF CondMentions
  <2> QED
    BY <2>1, <2>3 DEF CondHolds
<1>2. CASE c \in [form : {"member"}, left : Side, from : Side, to : Side]
  <2>1. c.form = "member" /\ c.left \in Side /\ c.from \in Side /\ c.to \in Side
    BY <1>2
  <2>2. Sides(c) = {c.left, c.from, c.to}
    BY <2>1 DEF Sides
  <2>3. CondMentions(c) = Mentions(c.left) \cup Mentions(c.from) \cup Mentions(c.to)
    BY <2>2 DEF CondMentions
  <2> QED
    BY <2>1, <2>3 DEF CondHolds
<1> QED
  BY <1>1, <1>2 DEF Condition, Comparisons

LEMMA CompareIs ==
  ASSUME NEW left \in Side, NEW comp \in Comparisons, NEW right \in Side
  PROVE  /\ Compare(left, comp, right) \in Condition
         /\ Compare(left, comp, right).form = "compare"
         /\ Compare(left, comp, right).left = left
         /\ Compare(left, comp, right).comp = comp
         /\ Compare(left, comp, right).right = right
         /\ CondMentions(Compare(left, comp, right)) = Mentions(left) \cup Mentions(right)
         /\ \A env, pt : CondHolds(Compare(left, comp, right), env, pt)
              <=> Holds(Value(left, env, pt), comp, Value(right, env, pt))
<1>1. /\ Compare(left, comp, right) \in Condition
      /\ Compare(left, comp, right).form = "compare"
      /\ Compare(left, comp, right).left = left
      /\ Compare(left, comp, right).comp = comp
      /\ Compare(left, comp, right).right = right
  BY DEF Compare, Condition, Comparisons
<1>2. Compare(left, comp, right).form # "member"
  BY <1>1
<1> HIDE DEF Compare
<1> QED
  BY <1>1, <1>2, ConditionIs

LEMMA CondAgree ==
  ASSUME NEW c \in Condition, NEW env \in Env, NEW pt \in Valuations, NEW qt \in Valuations,
         \A v \in CondMentions(c) : pt[v] = qt[v]
  PROVE  CondHolds(c, env, pt) <=> CondHolds(c, env, qt)
<1>1. CASE c.form = "compare"
  <2>1. /\ Value(c.left, env, pt) = Value(c.left, env, qt)
        /\ Value(c.right, env, pt) = Value(c.right, env, qt)
    BY <1>1, ConditionIs, SideAgree
  <2> QED
    BY <1>1, <2>1, ConditionIs
<1>2. CASE c.form = "member"
  <2>1. /\ Value(c.left, env, pt) = Value(c.left, env, qt)
        /\ Value(c.from, env, pt) = Value(c.from, env, qt)
        /\ Value(c.to, env, pt) = Value(c.to, env, qt)
    BY <1>2, ConditionIs, SideAgree
  <2> QED
    BY <1>2, <2>1, ConditionIs
<1> QED
  BY <1>1, <1>2, ConditionIs

LEMMA CondTyped ==
  ASSUME NEW c \in Condition, NEW env, NEW pt
  PROVE  CondHolds(c, env, pt) \in BOOLEAN
BY DEF CondHolds, Holds

LEMMA CondSubst ==
  ASSUME NEW c \in Condition, NEW v \in Vars, NEW e \in Expr
  PROVE  /\ SubstCond(c, v, e) \in Condition
         /\ CondMentions(SubstCond(c, v, e)) = CondMentions(c) \ {v}
         /\ SubstCond(c, v, e).form = c.form
         /\ c.form = "compare" =>
              /\ SubstCond(c, v, e).comp = c.comp
              /\ IsSelect(SubstCond(c, v, e).left) <=> IsSelect(c.left)
              /\ IsSelect(SubstCond(c, v, e).right) <=> IsSelect(c.right)
         /\ \A env \in Env, pt \in Valuations :
              CondHolds(SubstCond(c, v, e), env, pt) <=> CondHolds(c, env, Moved(pt, v, e[env]))
<1> DEFINE s(side) == SubstSide(side, v, e)
           u == SubstCond(c, v, e)
<1>1. \A side \in Side :
        /\ s(side) \in Side /\ Mentions(s(side)) = Mentions(side) \ {v}
        /\ IsSelect(s(side)) <=> IsSelect(side)
        /\ \A env \in Env, pt \in Valuations :
             Value(s(side), env, pt) = Value(side, env, Moved(pt, v, e[env]))
  BY SideSubst
<1>2. CASE c.form = "compare"
  <2>1. u = Compare(s(c.left), c.comp, s(c.right))
    BY <1>2 DEF SubstCond
  <2>2. c.left \in Side /\ c.right \in Side /\ c.comp \in Comparisons
    BY <1>2, ConditionIs
  <2> HIDE DEF s, u
  <2>3. s(c.left) \in Side /\ s(c.right) \in Side
    BY <1>1, <2>2
  <2>4. /\ u \in Condition /\ u.form = "compare" /\ u.comp = c.comp
        /\ u.left = s(c.left) /\ u.right = s(c.right)
        /\ CondMentions(u) = Mentions(s(c.left)) \cup Mentions(s(c.right))
        /\ \A env, pt : CondHolds(u, env, pt)
             <=> Holds(Value(s(c.left), env, pt), c.comp, Value(s(c.right), env, pt))
    BY <2>1, <2>2, <2>3, CompareIs
  <2>5. CondMentions(u) = CondMentions(c) \ {v}
    BY <1>1, <1>2, <2>2, <2>4, ConditionIs
  <2>6. ASSUME NEW env \in Env, NEW pt \in Valuations
        PROVE  CondHolds(u, env, pt) <=> CondHolds(c, env, Moved(pt, v, e[env]))
    BY <1>1, <1>2, <2>2, <2>4, ConditionIs
  <2> QED
    BY <1>1, <1>2, <2>2, <2>4, <2>5, <2>6 DEF u
<1>3. CASE c.form = "member"
  <2>1. u = Member(s(c.left), s(c.from), s(c.to))
    BY <1>3 DEF SubstCond
  <2>2. c.left \in Side /\ c.from \in Side /\ c.to \in Side
    BY <1>3, ConditionIs
  <2> HIDE DEF s, u
  <2>3. s(c.left) \in Side /\ s(c.from) \in Side /\ s(c.to) \in Side
    BY <1>1, <2>2
  <2>4. /\ u \in Condition /\ u.form = "member"
        /\ u.left = s(c.left) /\ u.from = s(c.from) /\ u.to = s(c.to)
    BY <2>1, <2>3 DEF Member, Condition
  <2>5. CondMentions(u) = CondMentions(c) \ {v}
    BY <1>1, <1>3, <2>2, <2>4, ConditionIs
  <2>6. ASSUME NEW env \in Env, NEW pt \in Valuations
        PROVE  CondHolds(u, env, pt) <=> CondHolds(c, env, Moved(pt, v, e[env]))
    BY <1>1, <1>3, <2>2, <2>4, ConditionIs
  <2> QED
    BY <1>3, <2>4, <2>5, <2>6 DEF u
<1> QED
  BY <1>2, <1>3, ConditionIs

(* The conditions without bindings, evaluated, and the others.             *)
LEMMA SeparatedIs ==
  ASSUME NEW conds \in Seq(Condition)
  PROVE  /\ DependentOf(conds) \in Seq(Condition)
         /\ \A c \in Range(DependentOf(conds)) : c \in Range(conds)
         /\ IndependentOf(conds) \in Seq([Env -> BOOLEAN])
         /\ \A env \in Env, pt \in Valuations :
              (\A c \in Range(conds) : CondHolds(c, env, pt)) <=>
                /\ \A c \in Range(DependentOf(conds)) : CondHolds(c, env, pt)
                /\ \A i \in DOMAIN IndependentOf(conds) : IndependentOf(conds)[i][env]
<1> DEFINE free == {i \in DOMAIN conds : CondMentions(conds[i]) = {}}
           bound == {i \in DOMAIN conds : CondMentions(conds[i]) # {}}
           indep == Selected(conds, free)
           dep == Selected(conds, bound)
           origin == [v \in Vars |-> 0]
           values == [i \in DOMAIN indep |-> [env \in Env |-> CondHolds(indep[i], env, origin)]]
<1>1. DependentOf(conds) = dep /\ IndependentOf(conds) = values
  BY DEF DependentOf, IndependentOf
<1>2. DOMAIN conds = 1 .. Len(conds)
  OBVIOUS
<1>3. /\ indep \in Seq(Condition) /\ dep \in Seq(Condition)
      /\ \A c : c \in Range(indep) <=> c \in Range(conds) /\ CondMentions(c) = {}
      /\ \A c : c \in Range(dep) <=> c \in Range(conds) /\ CondMentions(c) # {}
  <2>1. /\ indep \in Seq(Condition)
        /\ \A c : c \in Range(indep) <=> \E i \in 1 .. Len(conds) : i \in free /\ c = conds[i]
    <3> HIDE DEF free
    <3> QED
      BY SelectedIs
  <2>2. /\ dep \in Seq(Condition)
        /\ \A c : c \in Range(dep) <=> \E i \in 1 .. Len(conds) : i \in bound /\ c = conds[i]
    <3> HIDE DEF bound
    <3> QED
      BY SelectedIs
  <2>3. \A c : c \in Range(conds) <=> \E i \in 1 .. Len(conds) : c = conds[i]
    BY InRange
  <2> HIDE DEF indep, dep
  <2> QED
    BY <1>2, <2>1, <2>2, <2>3
<1>4. origin \in Valuations
  BY DEF Valuations
<1> HIDE DEF free, bound, indep, dep, origin
<1>5. DOMAIN indep = 1 .. Len(indep) /\ Len(indep) \in Nat /\ \A i \in DOMAIN indep : indep[i] \in Condition
  BY <1>3
<1>6. values \in Seq([Env -> BOOLEAN])
  <2>1. \A i \in DOMAIN indep : [env \in Env |-> CondHolds(indep[i], env, origin)] \in [Env -> BOOLEAN]
    BY <1>5, CondTyped
  <2>2. values \in [1 .. Len(indep) -> [Env -> BOOLEAN]]
    BY <1>5, <2>1
  <2> QED
    BY <1>5, <2>2
<1>7. ASSUME NEW env \in Env, NEW pt \in Valuations
      PROVE  (\A c \in Range(conds) : CondHolds(c, env, pt)) <=>
               /\ \A c \in Range(dep) : CondHolds(c, env, pt)
               /\ \A i \in DOMAIN values : values[i][env]
  <2>1. \A i \in DOMAIN indep : values[i][env] <=> CondHolds(indep[i], env, pt)
    <3> SUFFICES ASSUME NEW i \in DOMAIN indep
                 PROVE  CondHolds(indep[i], env, origin) <=> CondHolds(indep[i], env, pt)
      BY <1>5, CondTyped
    <3>1. indep[i] \in Condition /\ CondMentions(indep[i]) = {}
      BY <1>3, <1>5 DEF Range
    <3> QED
      BY <1>4, <3>1, CondAgree
  <2>2. DOMAIN values = DOMAIN indep
    OBVIOUS
  <2> HIDE DEF values
  <2>3. (\A i \in DOMAIN values : values[i][env]) <=> \A c \in Range(indep) : CondHolds(c, env, pt)
    BY <2>1, <2>2 DEF Range
  <2> QED
    BY <1>3, <2>3
<1> HIDE DEF values
<1> QED
  BY <1>1, <1>3, <1>6, <1>7

-----------------------------------------------------------------------------
(* Bounds.                                                                 *)
BoundsAgree(upper, exclusive) ==
  /\ DOMAIN exclusive = DOMAIN upper
  /\ \A i \in DOMAIN upper : exclusive[i] = Plus(upper[i], 1)

LEMMA PlusIs ==
  ASSUME NEW e \in Expr, NEW k \in Int
  PROVE  Plus(e, k) \in Expr /\ \A env \in Env : Plus(e, k)[env] = e[env] + k
BY DEF Plus, Expr

LEMMA EachIs ==
  ASSUME NEW rights \in Seq(Expr), NEW k \in Int
  PROVE  /\ Each(rights, k) \in Seq(Expr)
         /\ DOMAIN Each(rights, k) = DOMAIN rights
         /\ \A i \in DOMAIN rights : Each(rights, k)[i] = Plus(rights[i], k)
<1>1. DOMAIN rights = 1 .. Len(rights) /\ Len(rights) \in Nat
      /\ \A i \in DOMAIN rights : rights[i] \in Expr
  OBVIOUS
<1>2. \A i \in DOMAIN rights : Plus(rights[i], k) \in Expr
  BY <1>1, PlusIs
<1>3. Each(rights, k) \in [1 .. Len(rights) -> Expr]
  BY <1>1, <1>2 DEF Each
<1> QED
  BY <1>1, <1>3 DEF Each

(* The tables say of a binding what the comparisons do.                    *)
LEMMA BoundsOf ==
  ASSUME NEW rights \in Seq(Expr), NEW comp \in Comparisons, comp # NEQ
  PROVE  /\ LowerOf(comp, rights) \in Seq(Expr)
         /\ UpperOf(comp, rights) \in Seq(Expr)
         /\ UpperExclusiveOf(comp, rights) \in Seq(Expr)
         /\ BoundsAgree(UpperOf(comp, rights), UpperExclusiveOf(comp, rights))
         /\ \A env \in Env, x \in Int :
              (\A i \in DOMAIN rights : Holds(x, comp, rights[i][env])) <=>
                /\ \A i \in DOMAIN LowerOf(comp, rights) : LowerOf(comp, rights)[i][env] <= x
                /\ \A i \in DOMAIN UpperExclusiveOf(comp, rights) :
                     x < UpperExclusiveOf(comp, rights)[i][env]
<1>1. \A i \in DOMAIN rights : rights[i] \in Expr
  OBVIOUS
<1>2. \A i \in DOMAIN rights, env \in Env : rights[i][env] \in Int
  BY <1>1 DEF Expr
<1>3. <<>> \in Seq(Expr) /\ DOMAIN <<>> = {}
  OBVIOUS
<1>4. ASSUME NEW k \in Int
      PROVE  /\ Each(rights, k) \in Seq(Expr) /\ DOMAIN Each(rights, k) = DOMAIN rights
             /\ \A i \in DOMAIN rights :
                  /\ Each(rights, k)[i] = Plus(rights[i], k)
                  /\ \A env \in Env : Each(rights, k)[i][env] = rights[i][env] + k
  <2>1. Each(rights, k) \in Seq(Expr) /\ DOMAIN Each(rights, k) = DOMAIN rights
    BY EachIs
  <2> SUFFICES ASSUME NEW i \in DOMAIN rights
               PROVE  /\ Each(rights, k)[i] = Plus(rights[i], k)
                      /\ \A env \in Env : Each(rights, k)[i][env] = rights[i][env] + k
    BY <2>1
  <2>2. Each(rights, k)[i] = Plus(rights[i], k)
    BY EachIs
  <2>3. \A env \in Env : Plus(rights[i], k)[env] = rights[i][env] + k
    BY <1>1, PlusIs
  <2> QED
    BY <2>2, <2>3
<1>13. 1 \in Int /\ -1 \in Int
  OBVIOUS
<1>14. /\ Each(rights, 1) \in Seq(Expr) /\ DOMAIN Each(rights, 1) = DOMAIN rights
       /\ \A i \in DOMAIN rights :
            /\ Each(rights, 1)[i] = Plus(rights[i], 1)
            /\ \A env \in Env : Each(rights, 1)[i][env] = rights[i][env] + 1
  BY <1>4, <1>13
<1>15. /\ Each(rights, -1) \in Seq(Expr) /\ DOMAIN Each(rights, -1) = DOMAIN rights
       /\ \A i \in DOMAIN rights : Each(rights, -1)[i] = Plus(rights[i], -1)
  BY <1>4, <1>13
<1>5. \A i \in DOMAIN rights : Plus(Plus(rights[i], -1), 1) = rights[i]
  <2> SUFFICES ASSUME NEW i \in DOMAIN rights PROVE Plus(Plus(rights[i], -1), 1) = rights[i]
    OBVIOUS
  <2>3. Plus(rights[i], -1) \in Expr /\ \A env \in Env : Plus(rights[i], -1)[env] = rights[i][env] + -1
    BY <1>1, <1>13, PlusIs
  <2>4. /\ Plus(Plus(rights[i], -1), 1) \in Expr
        /\ \A env \in Env : Plus(Plus(rights[i], -1), 1)[env] = Plus(rights[i], -1)[env] + 1
    BY <1>13, <2>3, PlusIs
  <2>1. /\ Plus(rights[i], -1) \in Expr /\ Plus(Plus(rights[i], -1), 1) \in Expr
        /\ \A env \in Env : Plus(Plus(rights[i], -1), 1)[env] = (rights[i][env] + -1) + 1
    BY <2>3, <2>4
  <2>2. \A env \in Env : Plus(Plus(rights[i], -1), 1)[env] = rights[i][env]
    BY <1>2, <2>1
  <2> QED
    BY <1>1, <2>1, <2>2 DEF Expr
<1>6. BoundsAgree(<<>>, <<>>)
  BY <1>3 DEF BoundsAgree
<1>7. BoundsAgree(rights, Each(rights, 1)) /\ BoundsAgree(Each(rights, -1), rights)
  BY <1>5, <1>14, <1>15 DEF BoundsAgree
<1>8. CASE comp = LESS
  <2>1. LowerOf(comp, rights) = <<>> /\ UpperOf(comp, rights) = Each(rights, -1)
        /\ UpperExclusiveOf(comp, rights) = rights
    BY <1>8, ComparisonsDiffer DEF LowerOf, UpperOf, UpperExclusiveOf
  <2>2. \A env \in Env, x \in Int, i \in DOMAIN rights :
          Holds(x, comp, rights[i][env]) <=> x < rights[i][env]
    BY <1>2, <1>8, HoldsIs
  <2> QED
    BY <1>3, <1>14, <1>15, <1>7, <2>1, <2>2
<1>9. CASE comp = LESS_EQ
  <2>1. LowerOf(comp, rights) = <<>> /\ UpperOf(comp, rights) = rights
        /\ UpperExclusiveOf(comp, rights) = Each(rights, 1)
    BY <1>9, ComparisonsDiffer DEF LowerOf, UpperOf, UpperExclusiveOf
  <2>2. \A env \in Env, x \in Int, i \in DOMAIN rights :
          Holds(x, comp, rights[i][env]) <=> x < Each(rights, 1)[i][env]
    <3> SUFFICES ASSUME NEW env \in Env, NEW x \in Int, NEW i \in DOMAIN rights
                 PROVE  Holds(x, comp, rights[i][env]) <=> x < Each(rights, 1)[i][env]
      OBVIOUS
    <3>1. rights[i][env] \in Int /\ Each(rights, 1)[i][env] = rights[i][env] + 1
      BY <1>2, <1>14
    <3>2. Holds(x, comp, rights[i][env]) <=> x <= rights[i][env]
      BY <3>1, <1>9, HoldsIs
    <3> QED
      BY <3>1, <3>2
  <2> QED
    BY <1>3, <1>14, <1>15, <1>7, <2>1, <2>2
<1>10. CASE comp = EQ
  <2>1. LowerOf(comp, rights) = rights /\ UpperOf(comp, rights) = rights
        /\ UpperExclusiveOf(comp, rights) = Each(rights, 1)
    BY <1>10, ComparisonsDiffer DEF LowerOf, UpperOf, UpperExclusiveOf
  <2>2. \A env \in Env, x \in Int, i \in DOMAIN rights :
          Holds(x, comp, rights[i][env]) <=> rights[i][env] <= x /\ x < Each(rights, 1)[i][env]
    <3> SUFFICES ASSUME NEW env \in Env, NEW x \in Int, NEW i \in DOMAIN rights
                 PROVE  Holds(x, comp, rights[i][env]) <=> rights[i][env] <= x /\ x < Each(rights, 1)[i][env]
      OBVIOUS
    <3>1. rights[i][env] \in Int /\ Each(rights, 1)[i][env] = rights[i][env] + 1
      BY <1>2, <1>14
    <3>2. Holds(x, comp, rights[i][env]) <=> x = rights[i][env]
      BY <3>1, <1>10, HoldsIs
    <3> QED
      BY <3>1, <3>2
  <2> QED
    BY <1>3, <1>14, <1>15, <1>7, <2>1, <2>2
<1>11. CASE comp = GREATER_EQ
  <2>1. LowerOf(comp, rights) = rights /\ UpperOf(comp, rights) = <<>>
        /\ UpperExclusiveOf(comp, rights) = <<>>
    BY <1>11, ComparisonsDiffer DEF LowerOf, UpperOf, UpperExclusiveOf
  <2>2. \A env \in Env, x \in Int, i \in DOMAIN rights :
          Holds(x, comp, rights[i][env]) <=> rights[i][env] <= x
    <3>1. \A env \in Env, x \in Int, i \in DOMAIN rights :
            Holds(x, comp, rights[i][env]) <=> x >= rights[i][env]
      BY <1>2, <1>11, HoldsIs
    <3> QED
      BY <1>2, <3>1
  <2> QED
    BY <1>3, <1>14, <1>6, <2>1, <2>2
<1>12. CASE comp = GREATER
  <2>1. LowerOf(comp, rights) = Each(rights, 1) /\ UpperOf(comp, rights) = <<>>
        /\ UpperExclusiveOf(comp, rights) = <<>>
    BY <1>12, ComparisonsDiffer DEF LowerOf, UpperOf, UpperExclusiveOf
  <2>2. \A env \in Env, x \in Int, i \in DOMAIN rights :
          Holds(x, comp, rights[i][env]) <=> Each(rights, 1)[i][env] <= x
    <3> SUFFICES ASSUME NEW env \in Env, NEW x \in Int, NEW i \in DOMAIN rights
                 PROVE  Holds(x, comp, rights[i][env]) <=> Each(rights, 1)[i][env] <= x
      OBVIOUS
    <3>1. rights[i][env] \in Int /\ Each(rights, 1)[i][env] = rights[i][env] + 1
      BY <1>2, <1>14
    <3>2. Holds(x, comp, rights[i][env]) <=> x > rights[i][env]
      BY <3>1, <1>12, HoldsIs
    <3> QED
      BY <3>1, <3>2
  <2> QED
    BY <1>3, <1>14, <1>6, <2>1, <2>2
<1> QED
  BY <1>8, <1>9, <1>10, <1>11, <1>12 DEF Comparisons

-----------------------------------------------------------------------------
(* extremes is a function that its equation determines.                    *)
Lists == Seq(Expr) \ {<<>>}
Extreme == [bound : Expr, exact : BOOLEAN]

(* One step of extremes, from what f says of shorter lists.                *)
StepOf(f, maximizing, xs) ==
  IF Len(xs) = 1 THEN [bound |-> xs[1], exact |-> TRUE]
  ELSE
    LET left == xs[1]
        right == xs[2]
        rest == SubSeq(xs, 3, Len(xs))
        lt == lessThenEq(left, right)
        whenTrue == f[<<left>> \o rest].bound
        whenFalse == f[<<right>> \o rest].bound
    IN IF lt = "none"
         THEN [bound |-> [env \in Env |->
                 IF (IF maximizing THEN left[env] > right[env] ELSE left[env] < right[env])
                   THEN whenTrue[env] ELSE whenFalse[env]],
               exact |-> FALSE]
         ELSE [bound |-> IF (lt = "true") = maximizing THEN left ELSE right,
               exact |-> TRUE]
Stepped(f, maximizing) == [xs \in Lists |-> StepOf(f, maximizing, xs)]

LEMMA ExtremesChosen ==
  ASSUME NEW bounds, NEW maximizing
  PROVE  extremes(bounds, maximizing) = (CHOOSE f : f = Stepped(f, maximizing))[bounds]
BY DEF extremes, Stepped, StepOf, Lists

(* A step is an extreme, and looks at lists that are one shorter.          *)
LEMMA StepTyped ==
  ASSUME NEW f \in [Lists -> Extreme], NEW xs \in Lists, NEW maximizing \in BOOLEAN
  PROVE  StepOf(f, maximizing, xs) \in Extreme
<1>0. Len(xs) \in Nat /\ Len(xs) # 0
  BY DEF Lists
<1>1. \A i \in 1 .. Len(xs) : xs[i] \in Expr
  BY DEF Lists
<1>2. CASE Len(xs) = 1
  BY <1>1, <1>2 DEF StepOf, Extreme
<1>3. CASE Len(xs) # 1
  <2> DEFINE left == xs[1]
             right == xs[2]
             rest == SubSeq(xs, 3, Len(xs))
  <2>1. left \in Expr /\ right \in Expr
    <3>2. ASSUME NEW n \in Nat, n # 0, n # 1 PROVE 1 \in 1 .. n /\ 2 \in 1 .. n
      BY <3>2
    <3>1. 1 \in 1 .. Len(xs) /\ 2 \in 1 .. Len(xs)
      BY <1>0, <1>3, <3>2
    <3> QED
      BY <1>1, <3>1
  <2>2. rest \in Seq(Expr)
    BY <1>0, <1>3 DEF Lists
  <2> HIDE DEF rest, left, right
  <2>3. <<left>> \o rest \in Lists /\ <<right>> \o rest \in Lists
    BY <2>1, <2>2 DEF Lists
  <2>4. <<left>> \o rest \in Lists
        /\ <<right>> \o rest \in Lists
    BY <2>3
  <2> DEFINE whenTrue == f[<<left>> \o rest].bound
             whenFalse == f[<<right>> \o rest].bound
  <2>5. f[<<left>> \o rest] \in Extreme /\ f[<<right>> \o rest] \in Extreme
    BY <2>4
  <2>6. whenTrue \in Expr /\ whenFalse \in Expr
    BY <2>5 DEF Extreme
  <2>7. \/ StepOf(f, maximizing, xs) =
             [bound |-> [env \in Env |->
                 IF (IF maximizing THEN left[env] > right[env] ELSE left[env] < right[env])
                   THEN whenTrue[env] ELSE whenFalse[env]],
              exact |-> FALSE]
        \/ StepOf(f, maximizing, xs) = [bound |-> left, exact |-> TRUE]
        \/ StepOf(f, maximizing, xs) = [bound |-> right, exact |-> TRUE]
    BY <1>3 DEF StepOf, left, right, rest
  <2> HIDE DEF whenTrue, whenFalse
  <2> DEFINE least == [env \in Env |->
                 IF (IF maximizing THEN left[env] > right[env] ELSE left[env] < right[env])
                   THEN whenTrue[env] ELSE whenFalse[env]]
  <2>8. least \in Expr
    BY <2>6 DEF Expr
  <2> HIDE DEF least
  <2>9. \A e \in Expr, b \in BOOLEAN : [bound |-> e, exact |-> b] \in Extreme
    BY DEF Extreme
  <2>10. \/ StepOf(f, maximizing, xs) = [bound |-> least, exact |-> FALSE]
         \/ StepOf(f, maximizing, xs) = [bound |-> left, exact |-> TRUE]
         \/ StepOf(f, maximizing, xs) = [bound |-> right, exact |-> TRUE]
    BY <2>7 DEF least
  <2> QED
    BY <2>1, <2>8, <2>9, <2>10
<1> QED
  BY <1>2, <1>3

(* A step uses only what f says of lists that are one shorter.             *)
LEMMA StepShorter ==
  ASSUME NEW f, NEW g, NEW xs \in Lists, NEW maximizing \in BOOLEAN,
         \A ys \in Lists : Len(ys) = Len(xs) - 1 => f[ys] = g[ys]
  PROVE  StepOf(f, maximizing, xs) = StepOf(g, maximizing, xs)
<1>0. Len(xs) \in Nat /\ Len(xs) # 0
  BY DEF Lists
<1>1. \A i \in 1 .. Len(xs) : xs[i] \in Expr
  BY DEF Lists
<1>2. CASE Len(xs) = 1
  BY <1>2 DEF StepOf
<1>3. CASE Len(xs) # 1
  <2> DEFINE left == xs[1]
             right == xs[2]
             rest == SubSeq(xs, 3, Len(xs))
  <2>1. left \in Expr /\ right \in Expr
    <3>2. ASSUME NEW n \in Nat, n # 0, n # 1 PROVE 1 \in 1 .. n /\ 2 \in 1 .. n
      BY <3>2
    <3>1. 1 \in 1 .. Len(xs) /\ 2 \in 1 .. Len(xs)
      BY <1>0, <1>3, <3>2
    <3> QED
      BY <1>1, <3>1
  <2>2. rest \in Seq(Expr) /\ Len(rest) = Len(xs) - 2
    <3>1. rest = [i \in 1 .. Len(xs) - 2 |-> xs[i + 2]]
      BY <1>0, <1>3 DEF Lists
    <3>2. \A i \in 1 .. Len(xs) - 2 : i + 2 \in 1 .. Len(xs)
      BY <1>0
    <3>3. rest \in [1 .. Len(xs) - 2 -> Expr]
      BY <1>1, <3>1, <3>2
    <3>4. Len(xs) - 2 \in Nat
      BY <1>0, <1>3 DEF Lists
    <3> HIDE DEF rest
    <3> QED
      BY <3>3, <3>4
  <2> HIDE DEF rest, left, right
  <2>3. ASSUME NEW e \in Expr PROVE <<e>> \o rest \in Lists /\ Len(<<e>> \o rest) = Len(xs) - 1
    BY <1>0, <2>2 DEF Lists
  <2>4. f[<<left>> \o rest] = g[<<left>> \o rest] /\ f[<<right>> \o rest] = g[<<right>> \o rest]
    BY <2>1, <2>3
  <2> QED
    BY <1>3, <2>4 DEF StepOf, left, right, rest
<1> QED
  BY <1>2, <1>3

(* Two chains of approximations agree as far as both go.                   *)
LEMMA ChainsAgree ==
  ASSUME NEW n \in Nat, NEW m \in Nat, n <= m, NEW S, NEW base, NEW go1, NEW go2, NEW f, NEW h,
         \A i \in 1 .. n : go1[i] = go2[i],
         GoesForward(n, S, base, go1, f), GoesForward(m, S, base, go2, h)
  PROVE  f[n] = h[n]
<1> DEFINE T == {i \in 0 .. n : f[i] = h[i]}
<1>1. 0 \in T
  BY DEF GoesForward
<1>2. ASSUME NEW i \in 0 .. n - 1, i \in T PROVE i + 1 \in T
  <2>1. i + 1 \in 0 .. n /\ i + 1 \in 0 .. m /\ i + 1 # 0 /\ (i + 1) - 1 = i /\ i + 1 \in 1 .. n
    OBVIOUS
  <2>2. f[i + 1] = go1[i + 1][f[i]] /\ h[i + 1] = go2[i + 1][h[i]]
    BY <2>1 DEF GoesForward
  <2> QED
    BY <1>2, <2>1, <2>2
<1> HIDE DEF T
<1>3. 0 .. n \subseteq T
  BY <1>1, <1>2, BoundedInduction
<1>4. n \in T
  BY <1>3
<1> QED
  BY <1>4 DEF T

(* The functions that are tried on lists of at most n elements.            *)
Tries == [Lists -> Extreme]
Tried(maximizing) == [f \in Tries |-> Stepped(f, maximizing)]
Zero == [env \in Env |-> 0]
FirstTry == [xs \in Lists |-> [bound |-> Zero, exact |-> TRUE]]
Steps(maximizing, n) == [i \in 1 .. n |-> Tried(maximizing)]
IsChain(maximizing, n, f) == GoesForward(n, Tries, FirstTry, Steps(maximizing, n), f)
Chain(maximizing, n) == CHOOSE f : IsChain(maximizing, n, f)

LEMMA ChainIs ==
  ASSUME NEW maximizing \in BOOLEAN, NEW n \in Nat
  PROVE  /\ IsChain(maximizing, n, Chain(maximizing, n))
         /\ \A i \in 0 .. n : Chain(maximizing, n)[i] \in Tries
         /\ n # 0 => Chain(maximizing, n)[n] = Stepped(Chain(maximizing, n)[n - 1], maximizing)
<1>1. FirstTry \in Tries
  <2>1. Zero \in Expr
    BY DEF Zero, Expr
  <2> QED
    BY <2>1 DEF FirstTry, Tries, Extreme
<1>2. \A f \in Tries : Stepped(f, maximizing) \in Tries
  <2> SUFFICES ASSUME NEW f \in Tries PROVE Stepped(f, maximizing) \in Tries
    OBVIOUS
  <2>1. \A xs \in Lists : StepOf(f, maximizing, xs) \in Extreme
    BY StepTyped DEF Tries
  <2> QED
    BY <2>1 DEF Stepped, Tries
<1>3. Steps(maximizing, n) \in [1 .. n -> [Tries -> Tries]]
  BY <1>2 DEF Steps, Tried
<1>4. \E f : IsChain(maximizing, n, f)
  BY <1>1, <1>3, ForwardExists DEF IsChain
<1>5. IsChain(maximizing, n, Chain(maximizing, n))
  BY <1>4 DEF Chain
<1> DEFINE f == Chain(maximizing, n)
<1>6. \A i \in 0 .. n : f[i] \in Tries
  BY <1>5 DEF IsChain, GoesForward
<1>7. ASSUME n # 0 PROVE f[n] = Stepped(f[n - 1], maximizing)
  <2>1. n \in 0 .. n /\ n \in 1 .. n /\ n - 1 \in 0 .. n
    BY <1>7
  <2>2. f[n] = Steps(maximizing, n)[n][f[n - 1]]
    BY <1>5, <1>7, <2>1 DEF IsChain, GoesForward
  <2> QED
    BY <1>6, <2>1, <2>2 DEF Steps, Tried
<1> QED
  BY <1>5, <1>6, <1>7

(* What extremes is: a function that satisfies its equation.               *)
SatisfiesSteps(f, maximizing) == \A xs \in Lists : f[xs] = StepOf(f, maximizing, xs)
LEMMA ExtremesIs ==
  ASSUME NEW maximizing \in BOOLEAN
  PROVE  \E f \in Tries :
           /\ SatisfiesSteps(f, maximizing)
           /\ \A xs \in Lists : extremes(xs, maximizing) = f[xs]
<1> DEFINE h == [xs \in Lists |-> Chain(maximizing, Len(xs))[Len(xs)][xs]]
<1>1. \A xs \in Lists : Len(xs) \in Nat /\ Len(xs) # 0
  BY DEF Lists
<1>2. h \in Tries
  <2> SUFFICES ASSUME NEW xs \in Lists
               PROVE  Chain(maximizing, Len(xs))[Len(xs)][xs] \in Extreme
    BY DEF Tries
  <2>1. Len(xs) \in Nat /\ Len(xs) \in 0 .. Len(xs)
    BY <1>1
  <2>2. Chain(maximizing, Len(xs))[Len(xs)] \in Tries
    BY <2>1, ChainIs
  <2> QED
    BY <2>2 DEF Tries
<1>3. \A xs \in Lists : h[xs] = Chain(maximizing, Len(xs))[Len(xs)][xs]
  OBVIOUS
<1>4. DOMAIN h = Lists
  OBVIOUS
<1> HIDE DEF h
<1>5. ASSUME NEW xs \in Lists PROVE h[xs] = StepOf(h, maximizing, xs)
  <2> DEFINE n == Len(xs)
             g == Chain(maximizing, n)[n - 1]
  <2>1. n \in Nat /\ n # 0 /\ n - 1 \in Nat /\ n - 1 <= n
    BY <1>1
  <2>2. Chain(maximizing, n)[n] = Stepped(g, maximizing)
    BY <2>1, ChainIs
  <2>3. h[xs] = StepOf(g, maximizing, xs)
    BY <1>3, <2>2 DEF Stepped
  <2>4. Chain(maximizing, n - 1)[n - 1] = g
    <3>1. IsChain(maximizing, n, Chain(maximizing, n))
          /\ IsChain(maximizing, n - 1, Chain(maximizing, n - 1))
      BY <2>1, ChainIs
    <3>2. \A i \in 1 .. n - 1 : Steps(maximizing, n - 1)[i] = Steps(maximizing, n)[i]
      BY <2>1 DEF Steps
    <3> HIDE DEF n
    <3> QED
      BY <2>1, <3>1, <3>2, ChainsAgree DEF IsChain
  <2>5. \A ys \in Lists : Len(ys) = n - 1 => g[ys] = h[ys]
    BY <1>3, <2>4
  <2> HIDE DEF g
  <2>6. StepOf(g, maximizing, xs) = StepOf(h, maximizing, xs)
    BY <2>5, StepShorter
  <2> QED
    BY <2>3, <2>6
<1>6. h = Stepped(h, maximizing)
  BY <1>2, <1>5 DEF Stepped, Tries
<1> DEFINE f == CHOOSE g : g = Stepped(g, maximizing)
<1>7. f = Stepped(f, maximizing)
  BY <1>6
<1> HIDE DEF f
<1>8. \A xs \in Lists : f[xs] = StepOf(f, maximizing, xs)
  <2> DEFINE F(xs) == StepOf(f, maximizing, xs)
  <2>1. f = [xs \in Lists |-> F(xs)]
    BY <1>7 DEF Stepped
  <2> HIDE DEF F
  <2>2. \A xs \in Lists : f[xs] = F(xs)
    BY <2>1
  <2> QED
    BY <2>2 DEF F
<1> DEFINE T == {n \in Nat : \A xs \in Lists : Len(xs) = n => f[xs] = h[xs]}
<1>9. 0 \in T
  BY <1>1
<1>10. ASSUME NEW n \in Nat, n \in T PROVE n + 1 \in T
  <2> SUFFICES ASSUME NEW xs \in Lists, Len(xs) = n + 1 PROVE f[xs] = h[xs]
    OBVIOUS
  <2>1. \A ys \in Lists : Len(ys) = Len(xs) - 1 => f[ys] = h[ys]
    BY <1>10
  <2>2. StepOf(f, maximizing, xs) = StepOf(h, maximizing, xs)
    BY <2>1, StepShorter
  <2> QED
    BY <1>5, <1>8, <2>2
<1> HIDE DEF T
<1>11. Nat \subseteq T
  BY <1>9, <1>10, UpwardInduction
<1>12. \A xs \in Lists : f[xs] = h[xs]
  BY <1>1, <1>11 DEF T
<1>13. \A xs \in Lists : extremes(xs, maximizing) = f[xs]
  BY ExtremesChosen DEF f
<1> QED
  BY <1>2, <1>5, <1>12, <1>13 DEF SatisfiesSteps

LEMMA ExtremesTyped ==
  ASSUME NEW xs \in Lists, NEW maximizing \in BOOLEAN
  PROVE  /\ extremes(xs, maximizing) \in Extreme
         /\ extremes(xs, maximizing).bound \in Expr
<1>1. extremes(xs, maximizing) \in Extreme
  BY ExtremesIs DEF Tries
<1> QED
  BY <1>1 DEF Extreme

(* What the comparison of two bounds says is so.                           *)
LEMMA ComparedRight ==
  ASSUME NEW left \in Expr, NEW right \in Expr
  PROVE  /\ lessThenEq(left, right) \in {"true", "false", "none"}
         /\ lessThenEq(left, right) = "true" => \A env \in Env : left[env] <= right[env]
         /\ lessThenEq(left, right) = "false" => \A env \in Env : left[env] > right[env]
<1>1. \A env \in Env : left[env] \in Int /\ right[env] \in Int
  BY DEF Expr
<1>2. CASE IsConstantInt(left) /\ IsConstantInt(right)
  <2>1. CASE \A env \in Env : left[env] <= right[env]
    BY <1>2, <2>1 DEF lessThenEq
  <2>2. CASE ~\A env \in Env : left[env] <= right[env]
    <3>1. PICK one \in Env : ~(left[one] <= right[one])
      BY <2>2
    <3>2. \A env \in Env : left[env] = left[one] /\ right[env] = right[one]
      BY <1>2 DEF IsConstantInt
    <3>3. \A env \in Env : left[env] > right[env]
      BY <1>1, <3>1, <3>2
    <3> QED
      BY <1>2, <2>2, <3>3 DEF lessThenEq
  <2> QED
    BY <2>1, <2>2
<1>3. CASE ~(IsConstantInt(left) /\ IsConstantInt(right))
  BY <1>3 DEF lessThenEq
<1> QED
  BY <1>2, <1>3

(* Of one or two bounds, the extreme is one of them, and is the one that   *)
(* matters if it is called exact.                                          *)
IsExtreme(e, xs, maximizing) ==
  /\ \A env \in Env : \E i \in DOMAIN xs : e.bound[env] = xs[i][env]
  /\ e.exact => \A env \in Env, i \in DOMAIN xs :
                  IF maximizing THEN e.bound[env] <= xs[i][env] ELSE e.bound[env] >= xs[i][env]

LEMMA FewExtremes ==
  ASSUME NEW xs \in Lists, Len(xs) <= 2, NEW maximizing \in BOOLEAN
  PROVE  IsExtreme(extremes(xs, maximizing), xs, maximizing)
<1>1. PICK f \in Tries :
        SatisfiesSteps(f, maximizing) /\ \A ys \in Lists : extremes(ys, maximizing) = f[ys]
  BY ExtremesIs
<1>2. \A ys \in Lists : f[ys] = StepOf(f, maximizing, ys)
  BY <1>1 DEF SatisfiesSteps
<1>3. Len(xs) = 1 \/ Len(xs) = 2
  <2>1. Len(xs) \in Nat /\ Len(xs) # 0
    BY DEF Lists
  <2>2. \A n \in Nat : n # 0 /\ n <= 2 => n = 1 \/ n = 2
    OBVIOUS
  <2> QED
    BY <2>1, <2>2
<1>4. DOMAIN xs = 1 .. Len(xs) /\ \A i \in 1 .. Len(xs) : xs[i] \in Expr
  BY DEF Lists
<1>5. ASSUME NEW ys \in Lists, Len(ys) = 1
      PROVE  f[ys] = [bound |-> ys[1], exact |-> TRUE]
  BY <1>2, <1>5 DEF StepOf
<1>6. CASE Len(xs) = 1
  <2>1. extremes(xs, maximizing) = [bound |-> xs[1], exact |-> TRUE]
    BY <1>1, <1>5, <1>6
  <2>2. \A i \in DOMAIN xs : i = 1
    BY <1>4, <1>6
  <2>3. \A env \in Env : xs[1][env] \in Int
    BY <1>4, <1>6 DEF Expr
  <2>4. 1 \in DOMAIN xs
    BY <1>4, <1>6
  <2> QED
    BY <2>1, <2>2, <2>3, <2>4 DEF IsExtreme
<1>7. CASE Len(xs) = 2
  <2> DEFINE left == xs[1]
             right == xs[2]
             lt == lessThenEq(left, right)
  <2>1. left \in Expr /\ right \in Expr /\ 1 \in DOMAIN xs /\ 2 \in DOMAIN xs
        /\ \A i \in DOMAIN xs : i = 1 \/ i = 2
    BY <1>4, <1>7
  <2>2. SubSeq(xs, 3, Len(xs)) = <<>>
    BY <1>7
  <2>3. <<left>> \o <<>> = <<left>> /\ <<right>> \o <<>> = <<right>>
    OBVIOUS
  <2>4. <<left>> \in Lists /\ <<right>> \in Lists /\ Len(<<left>>) = 1 /\ Len(<<right>>) = 1
    BY <2>1 DEF Lists
  <2>5. f[<<left>>].bound = left /\ f[<<right>>].bound = right
    <3>1. f[<<left>>] = [bound |-> left, exact |-> TRUE]
          /\ f[<<right>>] = [bound |-> right, exact |-> TRUE]
      BY <1>5, <2>4
    <3> QED
      BY <3>1
  <2> DEFINE whenTrue == f[<<left>> \o SubSeq(xs, 3, Len(xs))].bound
             whenFalse == f[<<right>> \o SubSeq(xs, 3, Len(xs))].bound
  <2>6. f[xs] = IF lt = "none"
         THEN [bound |-> [env \in Env |->
                 IF (IF maximizing THEN left[env] > right[env] ELSE left[env] < right[env])
                   THEN whenTrue[env] ELSE whenFalse[env]],
               exact |-> FALSE]
         ELSE [bound |-> IF (lt = "true") = maximizing THEN left ELSE right,
               exact |-> TRUE]
    <3>1. f[xs] = StepOf(f, maximizing, xs)
      BY <1>2
    <3>2. Len(xs) # 1
      BY <1>7
    <3>3. StepOf(f, maximizing, xs) = IF lt = "none"
         THEN [bound |-> [env \in Env |->
                 IF (IF maximizing THEN left[env] > right[env] ELSE left[env] < right[env])
                   THEN whenTrue[env] ELSE whenFalse[env]],
               exact |-> FALSE]
         ELSE [bound |-> IF (lt = "true") = maximizing THEN left ELSE right,
               exact |-> TRUE]
      BY <3>2, Zenon DEF StepOf
    <3> QED
      BY <3>1, <3>3, Zenon
  <2>10. whenTrue = left /\ whenFalse = right
    BY <2>2, <2>3, <2>5
  <2> DEFINE e == extremes(xs, maximizing)
  <2>7. e = f[xs]
    BY <1>1
  <2> HIDE DEF left, right, e, whenTrue, whenFalse
  <2>8. CASE lt = "none"
    <3>1. e.exact = FALSE
      BY <2>6, <2>7, <2>8
    <3>2. \A env \in Env : e.bound[env] = whenTrue[env] \/ e.bound[env] = whenFalse[env]
      BY <2>6, <2>7, <2>8
    <3> QED
      BY <2>1, <2>10, <3>1, <3>2 DEF IsExtreme, left, right, e
  <2>9. CASE lt # "none"
    <3>1. e.bound = IF (lt = "true") = maximizing THEN left ELSE right
      BY <2>6, <2>7, <2>9
    <3>2. lt = "true" \/ lt = "false"
      BY <2>1, <2>9, ComparedRight
    <3>3. lt = "true" => \A env \in Env : left[env] <= right[env]
      BY <2>1, ComparedRight
    <3>4. lt = "false" => \A env \in Env : left[env] > right[env]
      BY <2>1, ComparedRight
    <3>5. \A env \in Env : left[env] \in Int /\ right[env] \in Int
      BY <2>1 DEF Expr
    <3> HIDE DEF lt
    <3>6. e.bound = left \/ e.bound = right
      BY <3>1
    <3>7. \A env \in Env : IF maximizing THEN e.bound[env] <= left[env] /\ e.bound[env] <= right[env]
                           ELSE e.bound[env] >= left[env] /\ e.bound[env] >= right[env]
      <4>4. /\ maximizing = TRUE /\ lt = "true" => e.bound = left
            /\ maximizing = FALSE /\ lt # "true" => e.bound = left
            /\ maximizing = TRUE /\ lt # "true" => e.bound = right
            /\ maximizing = FALSE /\ lt = "true" => e.bound = right
        BY <3>1, Zenon
      <4>1. CASE maximizing = TRUE
        BY <4>4, <3>2, <3>3, <3>4, <3>5, <4>1
      <4>2. CASE maximizing = FALSE
        BY <4>4, <3>2, <3>3, <3>4, <3>5, <4>2
      <4>3. maximizing = TRUE \/ maximizing = FALSE
        OBVIOUS
      <4> QED
        BY <4>1, <4>2, <4>3
    <3> QED
      BY <2>1, <3>6, <3>7 DEF IsExtreme, left, right, e
  <2> QED
    BY <2>8, <2>9
<1> QED
  BY <1>3, <1>6, <1>7

-----------------------------------------------------------------------------
(* Accesses, and what they mean.                                           *)

(* Conjunct i makes its access at the point pt.                            *)
Makes(conjuncts, env, pt, i) ==
  \A k \in DOMAIN conjuncts[i].guard : CondHolds(conjuncts[i].guard[k], env, pt)
(* The accesses with a key.                                                *)
Keyed(conjuncts, accesses, env, key) ==
  {access \in accesses : Key(conjuncts, access, env) = key}

LEMMA AccessIs ==
  ASSUME NEW conjuncts, NEW points, NEW env, NEW access
  PROVE  access \in Accesses(conjuncts, points, env) <=>
           /\ access \in points \X DOMAIN conjuncts
           /\ Makes(conjuncts, env, access[1], access[2])
BY DEF Accesses, Makes

(* Two sets of accesses mean the same if they have the same keys, and each *)
(* key as often.                                                           *)
LEMMA MeaningsEqual ==
  ASSUME NEW kind, NEW env,
         NEW conjuncts1, NEW factor1, NEW points1, NEW conjuncts2, NEW factor2, NEW points2,
         \A a \in Accesses(conjuncts1, points1, env) :
           \E b \in Accesses(conjuncts2, points2, env) :
             Key(conjuncts2, b, env) = Key(conjuncts1, a, env),
         \A b \in Accesses(conjuncts2, points2, env) :
           \E a \in Accesses(conjuncts1, points1, env) :
             Key(conjuncts1, a, env) = Key(conjuncts2, b, env),
         kind # "forall" =>
           \A a \in Accesses(conjuncts1, points1, env) :
             factor1 * Cardinality(Keyed(conjuncts1, Accesses(conjuncts1, points1, env), env,
                                         Key(conjuncts1, a, env)))
             = factor2 * Cardinality(Keyed(conjuncts2, Accesses(conjuncts2, points2, env), env,
                                           Key(conjuncts1, a, env)))
  PROVE  MeaningOf(kind, conjuncts1, factor1, points1, env)
           = MeaningOf(kind, conjuncts2, factor2, points2, env)
<1> DEFINE A == Accesses(conjuncts1, points1, env)
           B == Accesses(conjuncts2, points2, env)
           key1(a) == Key(conjuncts1, a, env)
           key2(b) == Key(conjuncts2, b, env)
           keys1 == {key1(a) : a \in A}
           keys2 == {key2(b) : b \in B}
           count1(key) == factor1 * Cardinality(Keyed(conjuncts1, A, env, key))
           count2(key) == factor2 * Cardinality(Keyed(conjuncts2, B, env, key))
<1>1. \A a \in A : \E b \in B : key2(b) = key1(a)
  OBVIOUS
<1>2. \A b \in B : \E a \in A : key1(a) = key2(b)
  OBVIOUS
<1>3. kind # "forall" => \A a \in A : count1(key1(a)) = count2(key1(a))
  OBVIOUS
<1>4. MeaningOf(kind, conjuncts1, factor1, points1, env)
        = IF kind = "forall" THEN keys1 ELSE {<<key, count1(key)>> : key \in keys1}
  BY DEF MeaningOf, Keyed
<1>5. MeaningOf(kind, conjuncts2, factor2, points2, env)
        = IF kind = "forall" THEN keys2 ELSE {<<key, count2(key)>> : key \in keys2}
  BY DEF MeaningOf, Keyed
<1> HIDE DEF A, B, key1, key2, count1, count2
<1>6. keys1 = keys2
  BY <1>1, <1>2
<1>7. kind # "forall" => \A key \in keys1 : count1(key) = count2(key)
  BY <1>3
<1> HIDE DEF keys1, keys2
<1>8. kind # "forall" => {<<key, count1(key)>> : key \in keys1} = {<<key, count2(key)>> : key \in keys2}
  BY <1>6, <1>7
<1> QED
  BY <1>4, <1>5, <1>6, <1>8

(* The points that the data describe.                                      *)
CurrentPoints(env) ==
  IF \A i \in DOMAIN independentConditions : independentConditions[i][env]
    THEN {pt \in Points(bindings, Range(pending) \cup Range(dependentConditions), env) :
            InBounds(env, pt)}
    ELSE {}
IsPoint(env, pt) ==
  /\ pt \in Valuations
  /\ \A v \in Vars \ bindings : pt[v] = 0
  /\ \A i \in DOMAIN independentConditions : independentConditions[i][env]
  /\ \A c \in Range(pending) : CondHolds(c, env, pt)
  /\ \A c \in Range(dependentConditions) : CondHolds(c, env, pt)
  /\ InBounds(env, pt)
Meant(env) == MeaningOf(quantifier.kind, body, scale[env], CurrentPoints(env), env)

(* Bindings range over the integers, of which there is no end.             *)
Unbounded == Values = Int

LEMMA PointIs ==
  ASSUME Unbounded, NEW env, NEW pt
  PROVE  pt \in CurrentPoints(env) <=> IsPoint(env, pt)
BY DEF CurrentPoints, IsPoint, Points, Assignments, Valuations, Unbounded

LEMMA PointIsNext ==
  ASSUME Unbounded, NEW env, NEW pt
  PROVE  (pt \in CurrentPoints(env))' <=> IsPoint(env, pt)'
BY DEF CurrentPoints, IsPoint, Points, Assignments, Valuations, Unbounded

LEMMA MeaningIs ==
  ASSUME NEW env
  PROVE  CurrentMeaning(env) = Meant(env) /\ CurrentMeaning(env)' = Meant(env)'
BY DEF CurrentMeaning, Meant, CurrentPoints

(* A step that leaves the body and the points alone keeps the meaning.     *)
LEMMA PointsKept ==
  ASSUME Unbounded, quantifier' = quantifier, body' = body, scale' = scale, NEW env,
         \A pt \in Valuations : IsPoint(env, pt)' <=> IsPoint(env, pt)
  PROVE  /\ CurrentPoints(env)' = CurrentPoints(env)
         /\ CurrentMeaning(env)' = CurrentMeaning(env)
<1>1. \A pt : (pt \in CurrentPoints(env)') <=> pt \in CurrentPoints(env)
  <2> SUFFICES ASSUME NEW pt PROVE (pt \in CurrentPoints(env)') <=> pt \in CurrentPoints(env)
    OBVIOUS
  <2>1. CASE pt \in Valuations
    BY <2>1, PointIs, PointIsNext
  <2>2. CASE pt \notin Valuations
    <3>1. ~IsPoint(env, pt) /\ ~(IsPoint(env, pt)')
      BY <2>2 DEF IsPoint
    <3> QED
      BY <3>1, PointIs, PointIsNext
  <2> QED
    BY <2>1, <2>2
<1>2. CurrentPoints(env)' = CurrentPoints(env)
  <2>1. \A pt : pt \in (CurrentPoints(env)') <=> pt \in CurrentPoints(env)
    BY <1>1
  <2> QED
    BY <2>1 DEF CurrentPoints
<1> QED
  BY <1>2, MeaningIs DEF Meant

-----------------------------------------------------------------------------
(* What the steps make of a condition.                                     *)
HasSelect(c) == IsSelect(c.left) \/ IsSelect(c.right)
(* The two comparisons of a comparison with a Select.                      *)
HalvesOf(c) ==
  IF IsSelect(c.right)
    THEN <<Compare(c.left, c.comp, c.right.then), Compare(c.left, c.comp, c.right.else)>>
    ELSE <<Compare(c.left.then, c.comp, c.right), Compare(c.left.else, c.comp, c.right)>>
(* The two comparisons that membership of a range is.                      *)
EndsOf(c) == <<Compare(c.left, GREATER_EQ, c.from), Compare(c.left, LESS, c.to)>>

LEMMA TermIsSide ==
  ASSUME NEW t \in Term
  PROVE  t \in Side /\ ~IsSelect(t) /\ Mentions(t) = {v \in Vars : t.coef[v] # 0}
         /\ \A env, pt : Value(t, env, pt) = TermValue(t, env, pt)
BY DEF Term, Side, IsSelect, Mentions, Branches, Value

LEMMA HalvesAre ==
  ASSUME NEW c \in Condition, c.form = "compare", HasSelect(c)
  PROVE  /\ HalvesOf(c) \in Seq(Condition)
         /\ \A h \in Range(HalvesOf(c)) :
              /\ h \in Condition /\ h.form = "compare" /\ h.comp = c.comp
              /\ CondMentions(h) \subseteq CondMentions(c)
              /\ HasSelect(h) => IsSelect(c.left) /\ IsSelect(c.right)
              /\ ~(IsSelect(h.left) /\ IsSelect(h.right))
<1>1. c.left \in Side /\ c.right \in Side /\ c.comp \in Comparisons
      /\ CondMentions(c) = Mentions(c.left) \cup Mentions(c.right)
  BY ConditionIs
<1>2. CASE IsSelect(c.right)
  <2> DEFINE t == c.right.then
             u == c.right.else
  <2>1. /\ t \in Term /\ u \in Term
        /\ Mentions(c.right) = {v \in Vars : t.coef[v] # 0 \/ u.coef[v] # 0}
    BY <1>1, <1>2, SideIs
  <2> HIDE DEF t, u
  <2>2. /\ t \in Side /\ u \in Side /\ ~IsSelect(t) /\ ~IsSelect(u)
        /\ Mentions(t) \subseteq Mentions(c.right) /\ Mentions(u) \subseteq Mentions(c.right)
    BY <2>1, TermIsSide
  <2>3. Range(HalvesOf(c)) = {Compare(c.left, c.comp, t), Compare(c.left, c.comp, u)}
    BY <1>2, ShortRange DEF HalvesOf, t, u
  <2>4. ASSUME NEW s \in {t, u}
        PROVE  LET h == Compare(c.left, c.comp, s) IN
               /\ h \in Condition /\ h.form = "compare" /\ h.comp = c.comp
               /\ CondMentions(h) \subseteq CondMentions(c)
               /\ h.left = c.left /\ h.right = s /\ ~IsSelect(s)
    BY <1>1, <2>2, CompareIs
  <2>5. HalvesOf(c) \in Seq(Condition)
    BY <1>2, <2>4 DEF HalvesOf, t, u
  <2> QED
    BY <1>2, <2>3, <2>4, <2>5 DEF HasSelect
<1>3. CASE ~IsSelect(c.right)
  <2>1. IsSelect(c.left)
    BY <1>3 DEF HasSelect
  <2> DEFINE t == c.left.then
             u == c.left.else
  <2>2. /\ t \in Term /\ u \in Term
        /\ Mentions(c.left) = {v \in Vars : t.coef[v] # 0 \/ u.coef[v] # 0}
    BY <1>1, <2>1, SideIs
  <2> HIDE DEF t, u
  <2>3. /\ t \in Side /\ u \in Side /\ ~IsSelect(t) /\ ~IsSelect(u)
        /\ Mentions(t) \subseteq Mentions(c.left) /\ Mentions(u) \subseteq Mentions(c.left)
    BY <2>2, TermIsSide
  <2>4. Range(HalvesOf(c)) = {Compare(t, c.comp, c.right), Compare(u, c.comp, c.right)}
    BY <1>3, ShortRange DEF HalvesOf, t, u
  <2>5. ASSUME NEW s \in {t, u}
        PROVE  LET h == Compare(s, c.comp, c.right) IN
               /\ h \in Condition /\ h.form = "compare" /\ h.comp = c.comp
               /\ CondMentions(h) \subseteq CondMentions(c)
               /\ h.left = s /\ h.right = c.right /\ ~IsSelect(s)
    BY <1>1, <2>3, CompareIs
  <2>6. HalvesOf(c) \in Seq(Condition)
    BY <1>3, <2>5 DEF HalvesOf, t, u
  <2> QED
    BY <1>3, <2>1, <2>4, <2>5, <2>6 DEF HasSelect
<1> QED
  BY <1>2, <1>3

LEMMA EndsAre ==
  ASSUME NEW c \in Condition, c.form = "member"
  PROVE  /\ EndsOf(c) \in Seq(Condition)
         /\ \A h \in Range(EndsOf(c)) :
              /\ h \in Condition /\ h.form = "compare" /\ h.comp # NEQ
              /\ CondMentions(h) \subseteq CondMentions(c)
         /\ \A env \in Env, pt \in Valuations :
              CondHolds(c, env, pt) <=> \A h \in Range(EndsOf(c)) : CondHolds(h, env, pt)
<1>1. /\ c.left \in Side /\ c.from \in Side /\ c.to \in Side
      /\ CondMentions(c) = Mentions(c.left) \cup Mentions(c.from) \cup Mentions(c.to)
      /\ \A env, pt : CondHolds(c, env, pt)
           <=> /\ Value(c.from, env, pt) <= Value(c.left, env, pt)
               /\ Value(c.left, env, pt) < Value(c.to, env, pt)
  BY ConditionIs
<1> DEFINE low == Compare(c.left, GREATER_EQ, c.from)
           high == Compare(c.left, LESS, c.to)
<1>2. GREATER_EQ \in Comparisons /\ LESS \in Comparisons /\ GREATER_EQ # NEQ /\ LESS # NEQ
  BY ComparisonsDiffer DEF Comparisons
<1>3. /\ low \in Condition /\ low.form = "compare" /\ low.comp = GREATER_EQ
      /\ CondMentions(low) = Mentions(c.left) \cup Mentions(c.from)
      /\ \A env, pt : CondHolds(low, env, pt)
           <=> Holds(Value(c.left, env, pt), GREATER_EQ, Value(c.from, env, pt))
  BY <1>1, <1>2, CompareIs
<1>4. /\ high \in Condition /\ high.form = "compare" /\ high.comp = LESS
      /\ CondMentions(high) = Mentions(c.left) \cup Mentions(c.to)
      /\ \A env, pt : CondHolds(high, env, pt)
           <=> Holds(Value(c.left, env, pt), LESS, Value(c.to, env, pt))
  BY <1>1, <1>2, CompareIs
<1> HIDE DEF low, high
<1>5. EndsOf(c) = <<low, high>>
  BY DEF EndsOf, low, high
<1>6. Range(EndsOf(c)) = {low, high}
  BY <1>5, ShortRange
<1>7. EndsOf(c) \in Seq(Condition)
  BY <1>3, <1>4, <1>5
<1>8. ASSUME NEW env \in Env, NEW pt \in Valuations
      PROVE  CondHolds(c, env, pt) <=> CondHolds(low, env, pt) /\ CondHolds(high, env, pt)
  <2>1. Value(c.left, env, pt) \in Int /\ Value(c.from, env, pt) \in Int /\ Value(c.to, env, pt) \in Int
    BY <1>1, SideTyped
  <2>2. Holds(Value(c.left, env, pt), GREATER_EQ, Value(c.from, env, pt))
          <=> Value(c.left, env, pt) >= Value(c.from, env, pt)
    BY <2>1, HoldsIs
  <2>3. Holds(Value(c.left, env, pt), LESS, Value(c.to, env, pt))
          <=> Value(c.left, env, pt) < Value(c.to, env, pt)
    BY <2>1, HoldsIs
  <2>4. Value(c.left, env, pt) >= Value(c.from, env, pt) <=> Value(c.from, env, pt) <= Value(c.left, env, pt)
    BY <2>1
  <2> QED
    BY <1>1, <1>3, <1>4, <2>2, <2>3, <2>4
<1> QED
  BY <1>1, <1>2, <1>3, <1>4, <1>6, <1>7, <1>8

(* A condition that is a bound compares a binding with a value.            *)
LEMMA SubIs ==
  ASSUME NEW e1 \in Expr, NEW e2 \in Expr
  PROVE  Sub(e1, e2) \in Expr /\ \A env \in Env : Sub(e1, e2)[env] = e1[env] - e2[env]
BY DEF Sub, Expr

LEMMA FlipHolds ==
  ASSUME NEW l \in Int, NEW comp \in Comparisons, NEW r \in Int
  PROVE  /\ Holds(l, comp, r) <=> Holds(r, flip(comp), l)
         /\ flip(comp) \in Comparisons /\ (flip(comp) = NEQ <=> comp = NEQ)
<1>1. CASE comp = LESS
  BY <1>1, FlipIs, HoldsIs, ComparisonsDiffer DEF Comparisons
<1>2. CASE comp = LESS_EQ
  BY <1>2, FlipIs, HoldsIs, ComparisonsDiffer DEF Comparisons
<1>3. CASE comp = EQ
  BY <1>3, FlipIs, HoldsIs, ComparisonsDiffer DEF Comparisons
<1>4. CASE comp = GREATER_EQ
  BY <1>4, FlipIs, HoldsIs, ComparisonsDiffer DEF Comparisons
<1>5. CASE comp = GREATER
  BY <1>5, FlipIs, HoldsIs, ComparisonsDiffer DEF Comparisons
<1>6. CASE comp = NEQ
  BY <1>6, FlipIs, HoldsIs, ComparisonsDiffer DEF Comparisons
<1> QED
  BY <1>1, <1>2, <1>3, <1>4, <1>5, <1>6 DEF Comparisons

LEMMA OrientedIs ==
  ASSUME NEW c \in Condition, IsBound(c)
  PROVE  /\ Oriented(c).left \in Term /\ Oriented(c).right \in Term
         /\ Oriented(c).comp \in Comparisons /\ Oriented(c).comp # NEQ
         /\ IsBindingPlus(Oriented(c).left)
         /\ \A v \in Vars : Oriented(c).right.coef[v] = 0
         /\ CondMentions(c) = {v \in Vars : Oriented(c).left.coef[v] # 0}
         /\ \A env \in Env, pt \in Valuations :
              CondHolds(c, env, pt) <=>
                Holds(TermValue(Oriented(c).left, env, pt), Oriented(c).comp,
                      TermValue(Oriented(c).right, env, pt))
<1>1. /\ c.form = "compare" /\ c.left \in Side /\ c.right \in Side /\ c.comp \in Comparisons
      /\ CondMentions(c) = Mentions(c.left) \cup Mentions(c.right)
      /\ \A env, pt : CondHolds(c, env, pt)
           <=> Holds(Value(c.left, env, pt), c.comp, Value(c.right, env, pt))
  BY ConditionIs DEF IsBound
<1>2. c.comp # NEQ /\ ~IsSelect(c.left) /\ ~IsSelect(c.right)
      /\ (indepOf(c.left) \/ indepOf(c.right)) /\ IsBindingPlus(Oriented(c).left)
  BY DEF IsBound
<1>3. /\ c.left \in Term /\ Mentions(c.left) = {v \in Vars : c.left.coef[v] # 0}
      /\ \A env, pt : Value(c.left, env, pt) = TermValue(c.left, env, pt)
  BY <1>1, <1>2, SideIs
<1>4. /\ c.right \in Term /\ Mentions(c.right) = {v \in Vars : c.right.coef[v] # 0}
      /\ \A env, pt : Value(c.right, env, pt) = TermValue(c.right, env, pt)
  BY <1>1, <1>2, SideIs
<1>5. CASE indepOf(c.right)
  <2>1. Oriented(c) = c
    BY <1>5 DEF Oriented
  <2>2. Mentions(c.right) = {} /\ \A v \in Vars : c.right.coef[v] = 0
    BY <1>4, <1>5 DEF indepOf
  <2> QED
    BY <1>1, <1>2, <1>3, <1>4, <2>1, <2>2
<1>6. CASE ~indepOf(c.right)
  <2>1. Oriented(c) = Compare(c.right, flip(c.comp), c.left)
    BY <1>6 DEF Oriented
  <2>2. Mentions(c.left) = {} /\ \A v \in Vars : c.left.coef[v] = 0
    BY <1>2, <1>3, <1>6 DEF indepOf
  <2>3. 0 \in Int
    OBVIOUS
  <2>4. flip(c.comp) \in Comparisons /\ flip(c.comp) # NEQ
    BY <1>1, <1>2, <2>3, FlipHolds
  <2>5. Oriented(c).left = c.right /\ Oriented(c).right = c.left /\ Oriented(c).comp = flip(c.comp)
    BY <1>1, <2>1, <2>4, CompareIs
  <2>6. ASSUME NEW env \in Env, NEW pt \in Valuations
        PROVE  CondHolds(c, env, pt) <=>
                 Holds(TermValue(c.right, env, pt), flip(c.comp), TermValue(c.left, env, pt))
    <3>1. TermValue(c.right, env, pt) \in Int /\ TermValue(c.left, env, pt) \in Int
      BY <1>3, <1>4, TermTyped
    <3>2. Holds(TermValue(c.left, env, pt), c.comp, TermValue(c.right, env, pt))
            <=> Holds(TermValue(c.right, env, pt), flip(c.comp), TermValue(c.left, env, pt))
      BY <1>1, <3>1, FlipHolds
    <3>3. Value(c.left, env, pt) = TermValue(c.left, env, pt)
          /\ Value(c.right, env, pt) = TermValue(c.right, env, pt)
      BY <1>3, <1>4
    <3> QED
      BY <1>1, <3>2, <3>3
  <2> QED
    BY <1>1, <1>2, <1>3, <1>4, <2>2, <2>4, <2>5, <2>6
<1> QED
  BY <1>5, <1>6

LEMMA BoundIs ==
  ASSUME NEW c \in Condition, IsBound(c)
  PROVE  LET o == Oriented(c)
             v == BindingOf(o.left)
             e == Sub(o.right.e, o.left.e)
         IN /\ v \in Vars /\ CondMentions(c) = {v} /\ e \in Expr
            /\ o.comp \in Comparisons /\ o.comp # NEQ
            /\ \A env \in Env, pt \in Valuations :
                 CondHolds(c, env, pt) <=> Holds(pt[v], o.comp, e[env])
<1> DEFINE o == Oriented(c)
           v == BindingOf(o.left)
           e == Sub(o.right.e, o.left.e)
<1>1. /\ o.left \in Term /\ o.right \in Term
      /\ o.comp \in Comparisons /\ o.comp # NEQ
      /\ IsBindingPlus(o.left)
      /\ \A w \in Vars : o.right.coef[w] = 0
      /\ CondMentions(c) = {w \in Vars : o.left.coef[w] # 0}
      /\ \A env \in Env, pt \in Valuations :
           CondHolds(c, env, pt) <=>
             Holds(TermValue(o.left, env, pt), o.comp, TermValue(o.right, env, pt))
  BY OrientedIs
<1> HIDE DEF o
<1>2. /\ v \in Vars
      /\ \A w \in Vars : o.left.coef[w] # 0 <=> w = v
      /\ \A env \in Env, pt \in Valuations : TermValue(o.left, env, pt) = pt[v] + o.left.e[env]
  BY <1>1, TermOfBinding
<1> HIDE DEF v
<1>3. o.left.e \in Expr /\ o.right.e \in Expr
  BY <1>1 DEF Term
<1>4. e \in Expr /\ \A env \in Env : e[env] = o.right.e[env] - o.left.e[env]
  BY <1>3, SubIs
<1>5. CondMentions(c) = {v}
  BY <1>1, <1>2
<1> HIDE DEF e
<1>6. ASSUME NEW env \in Env, NEW pt \in Valuations
      PROVE  CondHolds(c, env, pt) <=> Holds(pt[v], o.comp, e[env])
  <2> DEFINE x == pt[v]
             l == o.left.e[env]
             r == o.right.e[env]
  <2>1. x \in Int /\ l \in Int /\ r \in Int
    BY <1>2, <1>3 DEF Expr, Valuations
  <2>2. TermValue(o.left, env, pt) = x + l /\ TermValue(o.right, env, pt) = r /\ e[env] = r - l
    BY <1>1, <1>2, <1>4, TermIndependent
  <2> HIDE DEF x, l, r
  <2>3. Holds(x + l, o.comp, r) <=> Holds(x, o.comp, r - l)
    <3>1. x + l \in Int /\ r - l \in Int /\ (x + l < r <=> x < r - l) /\ (x + l > r <=> x > r - l)
          /\ (x + l = r <=> x = r - l)
      BY <2>1
    <3> QED
      BY <3>1 DEF Holds
  <2>4. CondHolds(c, env, pt) <=> Holds(x + l, o.comp, r)
    BY <1>1, <2>2
  <2> QED
    BY <2>2, <2>3, <2>4 DEF x
<1> QED
  BY <1>1, <1>2, <1>4, <1>5, <1>6 DEF o, v, e

(* The sides of a range are values, and what addSingleBound makes of them  *)
(* are expressions.                                                        *)
Origin == [v \in Vars |-> 0]
LEMMA SideValueIs ==
  ASSUME NEW side \in Side
  PROVE  /\ SideValue(side) \in Expr /\ Origin \in Valuations
         /\ \A env \in Env : SideValue(side)[env] = Value(side, env, Origin)
         /\ indepOf(side) =>
              \A env \in Env, pt \in Valuations : Value(side, env, pt) = SideValue(side)[env]
         /\ Rights(side) \in Seq(Expr)
<1>1. Origin \in Valuations
  BY DEF Origin, Valuations
<1>2. \A env \in Env : Value(side, env, Origin) \in Int
  BY <1>1, SideTyped
<1>3. SideValue(side) \in Expr /\ \A env \in Env : SideValue(side)[env] = Value(side, env, Origin)
  BY <1>2 DEF SideValue, Expr, Origin
<1>4. ASSUME indepOf(side), NEW env \in Env, NEW pt \in Valuations
      PROVE  Value(side, env, pt) = Value(side, env, Origin)
  BY <1>1, <1>4, SideAgree DEF indepOf
<1>5. Rights(side) \in Seq(Expr)
  <2>1. CASE Rights(side) = <<SideValue(side)>>
    BY <1>3, <2>1
  <2>2. CASE IsSelect(side) /\ Rights(side) = side.less
    <3>1. side \in SelectSide
      BY <2>2, SideIs
    <3>2. side.less \in Expr \X Expr
      BY <3>1 DEF SelectSide
    <3>3. PICK e1 \in Expr, e2 \in Expr : side.less = <<e1, e2>>
      BY <3>2
    <3>4. <<e1, e2>> \in Seq(Expr)
      OBVIOUS
    <3> QED
      BY <2>2, <3>3, <3>4
  <2> QED
    BY <2>1, <2>2 DEF Rights
<1> QED
  BY <1>1, <1>3, <1>4, <1>5

LEMMA RangeIs ==
  ASSUME NEW c \in Condition, c.form = "member", IsRangeOfBinding(c)
  PROVE  LET v == BindingOf(c.left) IN
         /\ v \in Vars /\ CondMentions(c) = {v} /\ c.from \in Side /\ c.to \in Side
         /\ \A env \in Env, pt \in Valuations :
              CondHolds(c, env, pt) <=>
                SideValue(c.from)[env] <= pt[v] /\ pt[v] < SideValue(c.to)[env]
<1> DEFINE v == BindingOf(c.left)
<1>1. /\ c.left \in Side /\ c.from \in Side /\ c.to \in Side
      /\ CondMentions(c) = Mentions(c.left) \cup Mentions(c.from) \cup Mentions(c.to)
      /\ \A env, pt : CondHolds(c, env, pt)
           <=> /\ Value(c.from, env, pt) <= Value(c.left, env, pt)
               /\ Value(c.left, env, pt) < Value(c.to, env, pt)
  BY ConditionIs
<1>2. IsBindingPlus(c.left) /\ c.left.e = [env \in Env |-> 0] /\ indepOf(c.from) /\ indepOf(c.to)
  BY DEF IsRangeOfBinding
<1>3. ~IsSelect(c.left) /\ c.left \in Term /\ Mentions(c.left) = {w \in Vars : c.left.coef[w] # 0}
      /\ \A env, pt : Value(c.left, env, pt) = TermValue(c.left, env, pt)
  BY <1>1, <1>2, SideIs DEF IsBindingPlus
<1>4. /\ v \in Vars
      /\ \A w \in Vars : c.left.coef[w] # 0 <=> w = v
      /\ \A env \in Env, pt \in Valuations : TermValue(c.left, env, pt) = pt[v] + c.left.e[env]
  BY <1>2, <1>3, TermOfBinding
<1> HIDE DEF v
<1>5. \A env \in Env, pt \in Valuations : Value(c.left, env, pt) = pt[v]
  <2> SUFFICES ASSUME NEW env \in Env, NEW pt \in Valuations PROVE Value(c.left, env, pt) = pt[v]
    OBVIOUS
  <2>1. pt[v] \in Int /\ c.left.e[env] = 0
    BY <1>2, <1>4 DEF Valuations
  <2>2. Value(c.left, env, pt) = pt[v] + c.left.e[env]
    BY <1>3, <1>4
  <2> QED
    BY <2>1, <2>2
<1>6. CondMentions(c) = {v}
  BY <1>1, <1>2, <1>3, <1>4 DEF indepOf
<1>7. \A env \in Env, pt \in Valuations :
        Value(c.from, env, pt) = SideValue(c.from)[env] /\ Value(c.to, env, pt) = SideValue(c.to)[env]
  BY <1>1, <1>2, SideValueIs
<1> QED
  BY <1>1, <1>4, <1>5, <1>6, <1>7 DEF v

(* The value of a binding is a lower and an upper bound of it.             *)
LEMMA NewValueIs ==
  ASSUME NEW name \in Vars, lowerBounds[name] \in Seq(Expr), EqualBounds(name) # {}
  PROVE  /\ newValue(name) \in Expr
         /\ newValue(name) \in Range(lowerBounds[name])
         /\ newValue(name) \in Range(upperBounds[name])
<1> DEFINE low == lowerBounds[name]
           T == {i \in DOMAIN low : low[i] \in EqualBounds(name)}
           First(i) == /\ low[i] \in EqualBounds(name)
                       /\ \A j \in 1 .. i - 1 : low[j] \notin EqualBounds(name)
<1>1. low \in Seq(Expr)
  OBVIOUS
<1>2. \A e : e \in EqualBounds(name) <=> e \in Range(low) /\ e \in Range(upperBounds[name])
  BY DEF EqualBounds
<1> HIDE DEF low
<1>3. DOMAIN low = 1 .. Len(low) /\ Len(low) \in Nat
  BY <1>1
<1>4. T \subseteq Nat /\ T # {}
  <2>1. PICK e : e \in EqualBounds(name)
    OBVIOUS
  <2>2. PICK i \in DOMAIN low : low[i] = e
    BY <1>2, <2>1 DEF Range
  <2> QED
    BY <1>3, <2>1, <2>2
<1>5. PICK least \in T : \A y \in T : least <= y
  BY <1>4, LeastNumber
<1>6. First(least)
  <2> SUFFICES ASSUME NEW j \in 1 .. least - 1, low[j] \in EqualBounds(name) PROVE FALSE
    OBVIOUS
  <2>1. j \in DOMAIN low /\ j < least /\ least \in Nat
    BY <1>3
  <2>2. j \in T
    BY <2>1
  <2> QED
    BY <1>3, <1>5, <2>1, <2>2
<1> DEFINE place == CHOOSE i \in DOMAIN low : First(i)
<1>7. place \in DOMAIN low /\ First(place)
  BY <1>6
<1>8. newValue(name) = low[place]
  BY DEF newValue, low
<1> HIDE DEF place
<1>9. newValue(name) \in EqualBounds(name)
  BY <1>7, <1>8
<1>10. newValue(name) \in Expr
  BY <1>1, <1>7, <1>8
<1> QED
  BY <1>2, <1>9, <1>10 DEF low

(* Substitution in conditions and in a body.                               *)
LEMMA SubstCondsIs ==
  ASSUME NEW conds \in Seq(Condition), NEW v \in Vars, NEW e \in Expr
  PROVE  /\ SubstConds(conds, v, e) \in Seq(Condition)
         /\ DOMAIN SubstConds(conds, v, e) = DOMAIN conds
         /\ \A i \in DOMAIN conds :
              conds[i] \in Condition /\ SubstConds(conds, v, e)[i] = SubstCond(conds[i], v, e)
<1>1. DOMAIN conds = 1 .. Len(conds) /\ Len(conds) \in Nat
      /\ \A i \in DOMAIN conds : conds[i] \in Condition
  OBVIOUS
<1>2. \A i \in DOMAIN conds : SubstCond(conds[i], v, e) \in Condition
  BY <1>1, CondSubst
<1>3. SubstConds(conds, v, e) \in [1 .. Len(conds) -> Condition]
  BY <1>1, <1>2 DEF SubstConds
<1> QED
  BY <1>1, <1>3 DEF SubstConds

ConjunctSet == [id : Nat, guard : Seq(Condition), index : Term]
SubstBody(b, v, e) ==
  [i \in DOMAIN b |-> [b[i] EXCEPT !.index = SubstTerm(@, v, e), !.guard = SubstConds(@, v, e)]]

LEMMA ConjunctIs ==
  ASSUME NEW b \in Conjuncts, NEW i \in DOMAIN b
  PROVE  /\ b[i] \in ConjunctSet
         /\ b[i].id \in Nat /\ b[i].guard \in Seq(Condition) /\ b[i].index \in Term
         /\ \A k \in DOMAIN b[i].guard : b[i].guard[k] \in Condition
<1>1. b[i] \in ConjunctSet
  <2>1. b \in Seq(ConjunctSet)
    BY DEF Conjuncts, ConjunctSet
  <2> QED
    BY <2>1
<1>2. b[i].id \in Nat /\ b[i].guard \in Seq(Condition) /\ b[i].index \in Term
  BY <1>1 DEF ConjunctSet
<1> QED
  BY <1>1, <1>2

LEMMA SubstBodyIs ==
  ASSUME NEW b \in Conjuncts, NEW v \in Vars, NEW e \in Expr
  PROVE  /\ SubstBody(b, v, e) \in Conjuncts
         /\ DOMAIN SubstBody(b, v, e) = DOMAIN b
         /\ \A i \in DOMAIN b : LET c == SubstBody(b, v, e)[i] IN
              /\ c.id = b[i].id
              /\ c.index = SubstTerm(b[i].index, v, e)
              /\ c.guard = SubstConds(b[i].guard, v, e)
<1> DEFINE s == SubstBody(b, v, e)
<1>1. DOMAIN b = 1 .. Len(b) /\ Len(b) \in Nat
  BY DEF Conjuncts
<1>2. DOMAIN s = DOMAIN b
  BY DEF SubstBody
<1>3. ASSUME NEW i \in DOMAIN b
      PROVE  /\ s[i] \in ConjunctSet /\ s[i].id = b[i].id
             /\ s[i].index = SubstTerm(b[i].index, v, e)
             /\ s[i].guard = SubstConds(b[i].guard, v, e)
  <2> DEFINE c == b[i]
  <2>1. c \in ConjunctSet /\ c.id \in Nat /\ c.guard \in Seq(Condition) /\ c.index \in Term
    BY ConjunctIs
  <2>2. s[i] = [c EXCEPT !.index = SubstTerm(@, v, e), !.guard = SubstConds(@, v, e)]
    BY DEF SubstBody
  <2> HIDE DEF c, s
  <2>3. SubstTerm(c.index, v, e) \in Term /\ SubstConds(c.guard, v, e) \in Seq(Condition)
    BY <2>1, TermSubst, SubstCondsIs
  <2>4. /\ s[i] \in ConjunctSet /\ s[i].id = c.id
        /\ s[i].index = SubstTerm(c.index, v, e)
        /\ s[i].guard = SubstConds(c.guard, v, e)
    BY <2>1, <2>2, <2>3 DEF ConjunctSet
  <2> QED
    BY <2>4 DEF c
<1>4. s \in Seq(ConjunctSet)
  <2>1. s = [i \in 1 .. Len(b) |-> s[i]]
    BY <1>1, <1>2 DEF SubstBody
  <2> HIDE DEF s
  <2>2. s \in [1 .. Len(b) -> ConjunctSet]
    BY <1>1, <1>3, <2>1
  <2> QED
    BY <1>1, <2>2
<1> QED
  BY <1>2, <1>3, <1>4 DEF Conjuncts, ConjunctSet

(* The bindings that a body, and that conditions mention.                  *)
UsedAt(b, i, v) ==
  v \in Mentions(b[i].index) \/ \E k \in DOMAIN b[i].guard : v \in CondMentions(b[i].guard[k])
LEMMA BodyMentionsIs ==
  ASSUME NEW v
  PROVE  /\ v \in BodyMentions <=> \E i \in DOMAIN body : UsedAt(body, i, v)
         /\ (v \in BodyMentions)' <=> \E i \in DOMAIN body' : UsedAt(body', i, v)
BY DEF BodyMentions, UsedAt

UsedBy(conds, v) == \E c \in Range(conds) : v \in CondMentions(c)
LEMMA OtherMentionsIs ==
  ASSUME NEW v
  PROVE  /\ v \in DependentMentions <=> UsedBy(dependentConditions, v)
         /\ (v \in DependentMentions)' <=> UsedBy(dependentConditions', v)
         /\ v \in UNION {CondMentions(c) : c \in Range(pending)} <=> UsedBy(pending, v)
         /\ (v \in UNION {CondMentions(c) : c \in Range(pending)})' <=> UsedBy(pending', v)
BY DEF DependentMentions, UsedBy, Range

(* A body that is substituted in mentions what it did, without the binding.*)
LEMMA SubstUses ==
  ASSUME NEW b \in Conjuncts, NEW v \in Vars, NEW e \in Expr, NEW i \in DOMAIN b, NEW w,
         UsedAt(SubstBody(b, v, e), i, w)
  PROVE  w # v /\ UsedAt(b, i, w)
<1>1. b[i].guard \in Seq(Condition) /\ b[i].index \in Term
  BY ConjunctIs
<1> DEFINE c == SubstBody(b, v, e)[i]
<1>2. c.index = SubstTerm(b[i].index, v, e) /\ c.guard = SubstConds(b[i].guard, v, e)
  BY SubstBodyIs
<1>3. CASE w \in Mentions(c.index)
  <2>1. SubstTerm(b[i].index, v, e) \in Term
        /\ \A u \in Vars : SubstTerm(b[i].index, v, e).coef[u] # 0 <=> u # v /\ b[i].index.coef[u] # 0
    BY <1>1, TermSubst
  <2>2. w \in Vars /\ w # v /\ b[i].index.coef[w] # 0
    BY <1>2, <1>3, <2>1, TermIsSide
  <2> QED
    BY <1>1, <2>2, TermIsSide DEF UsedAt
<1>4. CASE \E k \in DOMAIN c.guard : w \in CondMentions(c.guard[k])
  <2>1. PICK k \in DOMAIN c.guard : w \in CondMentions(c.guard[k])
    BY <1>4
  <2>2. k \in DOMAIN b[i].guard /\ b[i].guard[k] \in Condition
        /\ c.guard[k] = SubstCond(b[i].guard[k], v, e)
    BY <1>1, <1>2, <2>1, SubstCondsIs
  <2>3. CondMentions(c.guard[k]) = CondMentions(b[i].guard[k]) \ {v}
    BY <2>2, CondSubst
  <2> QED
    BY <2>1, <2>2, <2>3 DEF UsedAt
<1> QED
  BY <1>3, <1>4 DEF UsedAt

(* toOneImplies keeps conjuncts of the body, of which there is one.        *)
LEMMA MergedTyped ==
  ASSUME NEW conjuncts \in Conjuncts, conjuncts # <<>>
  PROVE  toOneImplies(conjuncts) \in Conjuncts /\ toOneImplies(conjuncts) # <<>>
<1> DEFINE n == Len(conjuncts)
           Next1(s, i) ==
             IF conjuncts[i].guard = <<>> THEN SubSeq(conjuncts, 1, i)
             ELSE IF OneImplies(s) /\ s[1].guard = conjuncts[i].guard
               THEN Append(s, conjuncts[i])
               ELSE s
           Bodies == Seq(ConjunctSet) \ {<<>>}
           IsMerge(f) == f = [i \in DOMAIN conjuncts |->
                                IF i = 1 THEN <<conjuncts[1]>> ELSE Next1(f[i - 1], i)]
           upTo == CHOOSE f : IsMerge(f)
<1>1. toOneImplies(conjuncts) = upTo[n]
  BY DEF toOneImplies
<1> HIDE DEF upTo
<1>2. DOMAIN conjuncts = 1 .. n /\ n \in Nat /\ n # 0
      /\ conjuncts \in Seq(ConjunctSet) /\ \A i \in 1 .. n : conjuncts[i] \in ConjunctSet
  <2>1. conjuncts \in Seq(ConjunctSet)
    BY DEF Conjuncts, ConjunctSet
  <2> QED
    BY <2>1
<1> HIDE DEF n
<1>3. \A s \in Bodies, i \in 1 .. n : Next1(s, i) \in Bodies
  <2> SUFFICES ASSUME NEW s \in Bodies, NEW i \in 1 .. n
               PROVE  Next1(s, i) \in Bodies
    OBVIOUS
  <2>1. SubSeq(conjuncts, 1, i) \in Seq(ConjunctSet) /\ Len(SubSeq(conjuncts, 1, i)) = i
    BY <1>2, SubSeqProperties DEF n
  <2>3. SubSeq(conjuncts, 1, i) # <<>>
    BY <1>2, <2>1
  <2>2. Append(s, conjuncts[i]) \in Seq(ConjunctSet) /\ Append(s, conjuncts[i]) # <<>>
    BY <1>2
  <2> QED
    BY <2>1, <2>2, <2>3
<1> HIDE DEF Next1, Bodies
<1> DEFINE go == [i \in 1 .. n - 1 |-> [s \in Bodies |-> Next1(s, i + 1)]]
<1>4. go \in [1 .. n - 1 -> [Bodies -> Bodies]]
  BY <1>2, <1>3
<1>5. n - 1 \in Nat /\ <<conjuncts[1]>> \in Bodies
  BY <1>2 DEF Bodies
<1>6. \A i \in 1 .. n - 1, s \in Bodies : go[i][s] = Next1(s, i + 1)
  OBVIOUS
<1> HIDE DEF go
<1>7. PICK g : GoesForward(n - 1, Bodies, <<conjuncts[1]>>, go, g)
  BY <1>4, <1>5, ForwardExists
<1>8. \A i \in 0 .. n - 1 : g[i] \in Bodies
  BY <1>7 DEF GoesForward
<1>9. g[0] = <<conjuncts[1]>>
  BY <1>2, <1>7 DEF GoesForward
<1>10. ASSUME NEW i \in 1 .. n - 1 PROVE g[i] = Next1(g[i - 1], i + 1)
  <2>1. i \in 0 .. n - 1 /\ i # 0 /\ i - 1 \in 0 .. n - 1
    BY <1>2
  <2>2. g[i] = go[i][g[i - 1]]
    BY <1>7, <2>1 DEF GoesForward
  <2> QED
    BY <1>6, <1>8, <2>1, <2>2
<1> DEFINE f == [i \in 1 .. n |-> g[i - 1]]
<1>11. IsMerge(f)
  <2>1. ASSUME NEW i \in 1 .. n
        PROVE  f[i] = IF i = 1 THEN <<conjuncts[1]>> ELSE Next1(f[i - 1], i)
    <3>1. CASE i = 1
      BY <1>9, <3>1
    <3>2. CASE i # 1
      <4>1. i - 1 \in 1 .. n - 1 /\ (i - 1) + 1 = i
        BY <1>2, <3>2
      <4>2. g[i - 1] = Next1(g[(i - 1) - 1], (i - 1) + 1)
        BY <1>10, <4>1
      <4>3. f[i] = g[i - 1] /\ f[i - 1] = g[(i - 1) - 1]
        BY <1>2, <3>2
      <4> QED
        BY <3>2, <4>1, <4>2, <4>3
    <3> QED
      BY <3>1, <3>2
  <2>2. f = [i \in 1 .. n |-> f[i]]
    OBVIOUS
  <2> HIDE DEF f
  <2> QED
    BY <1>2, <2>1, <2>2
<1> HIDE DEF IsMerge, f
<1>12. IsMerge(upTo)
  BY <1>11 DEF upTo
<1> USE DEF IsMerge
<1> DEFINE T == {i \in 0 .. n - 1 : upTo[i + 1] \in Bodies}
<1>13. 0 \in T
  <2>1. 1 \in 1 .. n
    BY <1>2
  <2>2. upTo[1] = <<conjuncts[1]>>
    BY <1>2, <1>12, <2>1
  <2> QED
    BY <1>5, <2>2
<1>14. ASSUME NEW i \in 0 .. (n - 1) - 1, i \in T PROVE i + 1 \in T
  <2>1. (i + 1) + 1 \in 1 .. n /\ (i + 1) + 1 # 1 /\ ((i + 1) + 1) - 1 = i + 1 /\ i + 1 \in 0 .. n - 1
    BY <1>2
  <2>2. upTo[(i + 1) + 1] = Next1(upTo[i + 1], (i + 1) + 1)
    BY <1>2, <1>12, <2>1
  <2>3. upTo[i + 1] \in Bodies
    BY <1>14
  <2>4. Next1(upTo[i + 1], (i + 1) + 1) \in Bodies
    BY <1>3, <2>1, <2>3
  <2> QED
    BY <2>1, <2>2, <2>4
<1> HIDE DEF T, IsMerge
<1>15. 0 .. n - 1 \subseteq T
  BY <1>5, <1>13, <1>14, BoundedInduction
<1>16. n - 1 \in 0 .. n - 1 /\ (n - 1) + 1 = n
  BY <1>2
<1>17. upTo[n] \in Bodies
  BY <1>15, <1>16 DEF T
<1> QED
  BY <1>1, <1>17 DEF Bodies, Conjuncts, ConjunctSet

-----------------------------------------------------------------------------
(* What holds of the data at every step, whatever the quantifiers are.     *)

(* A condition that KeepDependent sets aside.                              *)
Kept(c) == c.form = "compare" /\ (c.comp = NEQ \/ ~HasSelect(c))

(* The data at the start.                                                  *)
Untouched ==
  /\ pending = <<>> /\ dependentConditions = <<>> /\ independentConditions = <<>>
  /\ bindings = Vars
  /\ lowerBounds = None /\ upperBounds = None /\ upperExclusiveBounds = None
  /\ body = quantifier.conjuncts /\ scale = One
Staged ==
  /\ stage = "start" => Untouched
  /\ stage \in {"independent", "single", "done"} => pending = <<>>
  /\ stage = "independent" => visit \subseteq bindings

Stages == {"start", "bounds", "independent", "single", "rebounds", "done"}
Fields ==
  /\ quantifier \in Quantifiers
  /\ stage \in Stages
  /\ bindings \subseteq Vars /\ visit \subseteq Vars /\ triggerVars \subseteq bindings
  /\ independentConditions \in Seq([Env -> BOOLEAN])
  /\ scale \in Expr
  /\ newQuantifier \in BOOLEAN
  /\ pending \in Seq(Condition) /\ dependentConditions \in Seq(Condition)
  /\ body \in Conjuncts
BoundsTyped ==
  lowerBounds \in Tables /\ upperBounds \in Tables /\ upperExclusiveBounds \in Tables
(* An upper bound and its exclusive form are kept side by side.            *)
TablesAgree == \A v \in Vars : BoundsAgree(upperBounds[v], upperExclusiveBounds[v])
OnlyKept == \A c \in Range(dependentConditions) : Kept(c)

NothingLoose(b, dependent, waiting, names) ==
  \A v : (\E i \in DOMAIN b : UsedAt(b, i, v)) \/ UsedBy(dependent, v) \/ UsedBy(waiting, v)
           => v \in names

DataInv ==
  /\ Fields /\ BoundsTyped /\ Staged /\ TablesAgree /\ OnlyKept
  /\ NothingLoose(body, dependentConditions, pending, bindings)

LEMMA FormsAre ==
  ASSUME NEW conds \in Seq(Condition), NEW c \in Range(conds)
  PROVE  c \in Condition /\ c.form \in {"compare", "member"}
<1>1. c \in Condition
  BY InRange
<1> QED
  BY <1>1, ConditionIs

(* What is mentioned is a binding.                                         *)
LEMMA UsesAreVars ==
  ASSUME NEW b \in Conjuncts, NEW conds \in Seq(Condition), NEW v
  PROVE  /\ (\E i \in DOMAIN b : UsedAt(b, i, v)) => v \in Vars
         /\ UsedBy(conds, v) => v \in Vars
<1>1. ASSUME NEW c \in Condition PROVE CondMentions(c) \subseteq Vars
  <2>1. \A side \in Side : Mentions(side) \subseteq Vars
    BY DEF Mentions
  <2> QED
    BY <2>1, ConditionIs
<1>2. ASSUME NEW i \in DOMAIN b, UsedAt(b, i, v) PROVE v \in Vars
  <2>1. b[i].index \in Term /\ \A k \in DOMAIN b[i].guard : b[i].guard[k] \in Condition
    BY ConjunctIs
  <2>2. Mentions(b[i].index) \subseteq Vars
    BY <2>1 DEF Mentions
  <2> QED
    BY <1>1, <1>2, <2>1, <2>2 DEF UsedAt
<1>3. ASSUME UsedBy(conds, v) PROVE v \in Vars
  BY <1>1, <1>3, FormsAre DEF UsedBy
<1> QED
  BY <1>2, <1>3

LEMMA DataInvShows ==
  DataInv => TypeOK /\ Closed
<1> SUFFICES ASSUME DataInv PROVE TypeOK /\ Closed
  OBVIOUS
<1>1. \A c \in Range(pending) \cup Range(dependentConditions) : c.form \in {"compare", "member"}
  BY FormsAre DEF DataInv, Fields
<1>2. TypeOK
  BY <1>1 DEF DataInv, Fields, BoundsTyped, TypeOK, Stages
<1>3. ASSUME NEW v, v \in BodyMentions \/ v \in DependentMentions
                     \/ v \in UNION {CondMentions(c) : c \in Range(pending)}
      PROVE  v \in bindings
  BY <1>3, BodyMentionsIs, OtherMentionsIs DEF DataInv, NothingLoose
<1>4. Closed
  BY <1>3 DEF Closed
<1> QED
  BY <1>2, <1>4

LEMMA DataStarts ==
  Init => DataInv
<1> SUFFICES ASSUME Init PROVE DataInv
  OBVIOUS
<1>1. quantifier \in Quantifiers /\ quantifier.conjuncts \in Conjuncts
      /\ quantifier.triggerVars \subseteq Vars
  BY QuantifiersAssumption DEF Init
<1>2. One \in Expr
  BY DEF One, Expr
<1>3. None \in Tables
  BY DEF None, Tables
<1>4. Range(<<>>) = {}
  BY ShortRange
<1>5. Fields
  <2>1. <<>> \in Seq(Condition) /\ <<>> \in Seq([Env -> BOOLEAN])
    OBVIOUS
  <2>2. newQuantifier \in BOOLEAN
    BY DEF Init
  <2>3. bindings \subseteq Vars /\ visit \subseteq Vars /\ triggerVars \subseteq bindings
    BY <1>1 DEF Init
  <2>4. quantifier \in Quantifiers /\ body \in Conjuncts /\ scale \in Expr /\ stage \in Stages
    BY <1>1, <1>2 DEF Init, Stages
  <2>5. pending \in Seq(Condition) /\ dependentConditions \in Seq(Condition)
        /\ independentConditions \in Seq([Env -> BOOLEAN])
    BY <2>1 DEF Init
  <2> QED
    BY <2>2, <2>3, <2>4, <2>5 DEF Fields
<1>6. BoundsTyped
  BY <1>3 DEF Init, BoundsTyped
<1>7. Staged
  BY DEF Init, Staged, Untouched
<1>8. TablesAgree
  BY DEF Init, TablesAgree, BoundsAgree, None
<1>9. OnlyKept
  BY <1>4 DEF Init, OnlyKept
<1>10. NothingLoose(body, dependentConditions, pending, bindings)
  <2>1. body \in Conjuncts /\ bindings = Vars /\ dependentConditions \in Seq(Condition)
        /\ pending \in Seq(Condition)
    BY <1>1 DEF Init
  <2> QED
    BY <2>1, UsesAreVars DEF NothingLoose
<1> QED
  BY <1>5, <1>6, <1>7, <1>8, <1>9, <1>10 DEF DataInv

LEMMA DataSet ==
  ASSUME DataInv, setData PROVE DataInv'
<1> DEFINE conjuncts == toOneImplies(quantifier.conjuncts)
           conds == IF OneImplies(conjuncts) THEN conjuncts[1].guard ELSE <<>>
<1>1. quantifier \in Quantifiers /\ quantifier.conjuncts \in Conjuncts
      /\ quantifier.conjuncts # <<>>
  BY QuantifiersAssumption DEF DataInv, Fields
<1>2. conjuncts \in Conjuncts
  BY <1>1, MergedTyped
<1>3. /\ body' = IF OneImplies(conjuncts)
                   THEN [i \in DOMAIN conjuncts |-> [conjuncts[i] EXCEPT !.guard = <<>>]]
                   ELSE conjuncts
      /\ independentConditions' = IndependentOf(conds)
      /\ pending' = DependentOf(conds)
      /\ stage = "start" /\ stage' = "bounds"
      /\ UNCHANGED <<quantifier, bindings, lowerBounds, upperBounds, upperExclusiveBounds,
                     dependentConditions, scale, triggerVars, newQuantifier, visit>>
  BY DEF setData
<1> HIDE DEF conjuncts
<1>4. conds \in Seq(Condition)
  <2>1. CASE OneImplies(conjuncts)
    <3>1. conjuncts[1].guard # <<>>
      BY <2>1 DEF OneImplies
    <3>2. conjuncts # <<>>
      BY <1>1, MergedTyped DEF conjuncts
    <3>3. 1 \in DOMAIN conjuncts
      BY <1>2, <3>2 DEF Conjuncts
    <3> QED
      BY <1>2, <2>1, <3>3, ConjunctIs
  <2>2. CASE ~OneImplies(conjuncts)
    BY <2>2
  <2> QED
    BY <2>1, <2>2
<1> HIDE DEF conds
<1>5. body' \in Conjuncts
  <2>1. ASSUME NEW i \in DOMAIN conjuncts
        PROVE  [conjuncts[i] EXCEPT !.guard = <<>>] \in ConjunctSet
    <3>1. conjuncts[i] \in ConjunctSet /\ <<>> \in Seq(Condition)
      BY <1>2, ConjunctIs
    <3> QED
      BY <3>1 DEF ConjunctSet
  <2>2. DOMAIN conjuncts = 1 .. Len(conjuncts) /\ Len(conjuncts) \in Nat
    BY <1>2 DEF Conjuncts
  <2>3. [i \in DOMAIN conjuncts |-> [conjuncts[i] EXCEPT !.guard = <<>>]] \in Seq(ConjunctSet)
    <3>1. [i \in DOMAIN conjuncts |-> [conjuncts[i] EXCEPT !.guard = <<>>]]
            \in [1 .. Len(conjuncts) -> ConjunctSet]
      BY <2>1, <2>2
    <3> QED
      BY <2>2, <3>1
  <2> QED
    BY <1>2, <1>3, <2>3 DEF Conjuncts, ConjunctSet
<1>6. pending' \in Seq(Condition) /\ independentConditions' \in Seq([Env -> BOOLEAN])
  BY <1>3, <1>4, SeparatedIs
<1>7. Fields'
  BY <1>3, <1>5, <1>6 DEF DataInv, Fields, Stages
<1>8. bindings' = Vars /\ dependentConditions' = <<>>
  BY <1>3 DEF DataInv, Staged, Untouched
<1>9. BoundsTyped' /\ TablesAgree' /\ OnlyKept'
  BY <1>3 DEF DataInv, BoundsTyped, TablesAgree, OnlyKept
<1>10. Staged'
  BY <1>3 DEF Staged
<1>11. NothingLoose(body', dependentConditions', pending', bindings')
  <2>1. dependentConditions' \in Seq(Condition)
    BY <1>8
  <2> QED
    BY <1>5, <1>6, <1>8, <2>1, UsesAreVars DEF NothingLoose
<1> QED
  BY <1>7, <1>9, <1>10, <1>11 DEF DataInv

(* Bounds that are added to a table.                                       *)
LEMMA AgreeConcat ==
  ASSUME NEW u1 \in Seq(Expr), NEW e1 \in Seq(Expr), NEW u2 \in Seq(Expr), NEW e2 \in Seq(Expr),
         BoundsAgree(u1, e1), BoundsAgree(u2, e2)
  PROVE  BoundsAgree(u1 \o u2, e1 \o e2)
<1>1. /\ Len(u1) \in Nat /\ Len(u2) \in Nat /\ Len(e1) \in Nat /\ Len(e2) \in Nat
      /\ DOMAIN u1 = 1 .. Len(u1) /\ DOMAIN e1 = 1 .. Len(e1)
      /\ DOMAIN u2 = 1 .. Len(u2) /\ DOMAIN e2 = 1 .. Len(e2)
  OBVIOUS
<1>2. Len(e1) = Len(u1) /\ Len(e2) = Len(u2)
  BY <1>1 DEF BoundsAgree
<1>3. DOMAIN (u1 \o u2) = 1 .. Len(u1) + Len(u2) /\ DOMAIN (e1 \o e2) = 1 .. Len(u1) + Len(u2)
  BY <1>2
<1>4. ASSUME NEW i \in 1 .. Len(u1) + Len(u2)
      PROVE  (e1 \o e2)[i] = Plus((u1 \o u2)[i], 1)
  <2>1. CASE i <= Len(u1)
    <3>1. (u1 \o u2)[i] = u1[i] /\ (e1 \o e2)[i] = e1[i] /\ i \in DOMAIN u1
      BY <1>1, <1>2, <2>1
    <3> QED
      BY <3>1 DEF BoundsAgree
  <2>2. CASE ~(i <= Len(u1))
    <3>1. PICK j \in 1 .. Len(u2) : i = Len(u1) + j
      <4>1. \A m, n \in Nat : \A k \in 1 .. m + n : ~(k <= m) => k - m \in 1 .. n /\ k = m + (k - m)
        OBVIOUS
      <4> QED
        BY <1>1, <2>2, <4>1
    <3>2. (u1 \o u2)[i] = u2[j] /\ (e1 \o e2)[i] = e2[j]
      BY <1>1, <1>2, <3>1
    <3> QED
      BY <1>1, <3>1, <3>2 DEF BoundsAgree
  <2> QED
    BY <1>1, <2>1, <2>2
<1> QED
  BY <1>3, <1>4 DEF BoundsAgree

Extended(table, v, s) == [table EXCEPT ![v] = @ \o s]
LEMMA TableExtended ==
  ASSUME NEW table \in Tables, NEW v \in Vars, NEW s \in Seq(Expr)
  PROVE  /\ Extended(table, v, s) \in Tables
         /\ Extended(table, v, s)[v] = table[v] \o s
         /\ \A w \in Vars \ {v} : Extended(table, v, s)[w] = table[w]
<1>1. table[v] \o s \in Seq(Expr)
  BY DEF Tables
<1> QED
  BY <1>1 DEF Tables, Extended

(* A condition that is replaced by parts of it.                            *)
LEMMA DataSplits ==
  ASSUME DataInv, Processing, NEW parts \in Seq(Condition),
         \A h \in Range(parts) : CondMentions(h) \subseteq CondMentions(Head(pending)),
         pending' = parts \o Tail(pending),
         UNCHANGED <<unchangedRest, boundTables, dependentConditions>>
  PROVE  DataInv'
<1>1. pending \in Seq(Condition) /\ pending # <<>> /\ stage \in {"bounds", "rebounds"}
  BY DEF DataInv, Fields, Processing
<1>2. Head(pending) \in Range(pending) /\ Tail(pending) \in Seq(Condition)
      /\ \A x : x \in Range(pending) <=> x = Head(pending) \/ x \in Range(Tail(pending))
  BY <1>1, HeadAndTail
<1>3. pending' \in Seq(Condition)
      /\ \A x : x \in Range(pending') <=> x \in Range(parts) \/ x \in Range(Tail(pending))
  BY <1>2, RangeConcat
<1>4. Fields'
  BY <1>3 DEF DataInv, Fields, unchangedRest
<1>5. BoundsTyped' /\ TablesAgree' /\ OnlyKept'
  BY DEF DataInv, BoundsTyped, TablesAgree, OnlyKept, boundTables
<1>6. Staged'
  BY <1>1 DEF Staged, unchangedRest
<1>7. \A v : UsedBy(pending', v) => UsedBy(pending, v)
  BY <1>2, <1>3 DEF UsedBy
<1>8. NothingLoose(body', dependentConditions', pending', bindings')
  BY <1>7 DEF DataInv, NothingLoose, unchangedRest
<1> QED
  BY <1>4, <1>5, <1>6, <1>8 DEF DataInv

(* A condition that becomes bounds.                                        *)
LEMMA DataBounds ==
  ASSUME DataInv, Processing, NEW v \in Vars,
         NEW lower \in Seq(Expr), NEW upper \in Seq(Expr), NEW exclusive \in Seq(Expr),
         BoundsAgree(upper, exclusive),
         addSingleBound(v, lower, upper, exclusive),
         pending' = Tail(pending),
         UNCHANGED <<unchangedRest, dependentConditions>>
  PROVE  DataInv'
<1>1. pending \in Seq(Condition) /\ pending # <<>> /\ stage \in {"bounds", "rebounds"}
  BY DEF DataInv, Fields, Processing
<1>2. Head(pending) \in Range(pending) /\ Tail(pending) \in Seq(Condition)
      /\ \A x : x \in Range(pending) <=> x = Head(pending) \/ x \in Range(Tail(pending))
  BY <1>1, HeadAndTail
<1>3. Fields'
  BY <1>2 DEF DataInv, Fields, unchangedRest
<1>4. lowerBounds \in Tables /\ upperBounds \in Tables /\ upperExclusiveBounds \in Tables
  BY DEF DataInv, BoundsTyped
<1>5. /\ lowerBounds' = Extended(lowerBounds, v, lower)
      /\ upperBounds' = Extended(upperBounds, v, upper)
      /\ upperExclusiveBounds' = Extended(upperExclusiveBounds, v, exclusive)
  BY DEF addSingleBound, Extended
<1>6. /\ lowerBounds' \in Tables /\ upperBounds' \in Tables /\ upperExclusiveBounds' \in Tables
      /\ upperBounds'[v] = upperBounds[v] \o upper
      /\ upperExclusiveBounds'[v] = upperExclusiveBounds[v] \o exclusive
      /\ \A w \in Vars \ {v} : upperBounds'[w] = upperBounds[w]
                               /\ upperExclusiveBounds'[w] = upperExclusiveBounds[w]
  <2>1. lowerBounds' \in Tables
    BY <1>4, <1>5, TableExtended
  <2>2. upperBounds' \in Tables /\ upperBounds'[v] = upperBounds[v] \o upper
        /\ \A w \in Vars \ {v} : upperBounds'[w] = upperBounds[w]
    BY <1>4, <1>5, TableExtended
  <2>3. upperExclusiveBounds' \in Tables
        /\ upperExclusiveBounds'[v] = upperExclusiveBounds[v] \o exclusive
        /\ \A w \in Vars \ {v} : upperExclusiveBounds'[w] = upperExclusiveBounds[w]
    BY <1>4, <1>5, TableExtended
  <2> QED
    BY <2>1, <2>2, <2>3
<1>7. TablesAgree'
  <2> SUFFICES ASSUME NEW w \in Vars PROVE BoundsAgree(upperBounds'[w], upperExclusiveBounds'[w])
    BY DEF TablesAgree
  <2>1. BoundsAgree(upperBounds[w], upperExclusiveBounds[w])
        /\ upperBounds[w] \in Seq(Expr) /\ upperExclusiveBounds[w] \in Seq(Expr)
    BY <1>4 DEF DataInv, TablesAgree, Tables
  <2>2. CASE w = v
    <3>1. BoundsAgree(upperBounds[v] \o upper, upperExclusiveBounds[v] \o exclusive)
      BY <2>1, <2>2, AgreeConcat
    <3> QED
      BY <1>6, <2>2, <3>1
  <2>3. CASE w # v
    BY <1>6, <2>1, <2>3
  <2> QED
    BY <2>2, <2>3
<1>8. BoundsTyped' /\ OnlyKept'
  BY <1>6 DEF DataInv, BoundsTyped, OnlyKept
<1>9. Staged'
  BY <1>1 DEF Staged, unchangedRest
<1>10. \A w : UsedBy(pending', w) => UsedBy(pending, w)
  BY <1>2 DEF UsedBy
<1>11. NothingLoose(body', dependentConditions', pending', bindings')
  BY <1>10 DEF DataInv, NothingLoose, unchangedRest
<1> QED
  BY <1>3, <1>7, <1>8, <1>9, <1>11 DEF DataInv

(* A condition that is set aside.                                          *)
LEMMA DataKept ==
  ASSUME DataInv, KeepDependent PROVE DataInv'
<1> DEFINE c == Head(pending)
<1>1. pending \in Seq(Condition) /\ pending # <<>> /\ stage \in {"bounds", "rebounds"}
      /\ dependentConditions \in Seq(Condition)
  BY DEF DataInv, Fields, KeepDependent, Processing
<1>2. c \in Range(pending) /\ c \in Condition /\ Tail(pending) \in Seq(Condition)
      /\ \A x : x \in Range(pending) <=> x = c \/ x \in Range(Tail(pending))
  BY <1>1, HeadAndTail
<1>3. /\ c.form = "compare"
      /\ c.comp = NEQ \/ (~IsSelect(c.left) /\ ~IsSelect(c.right))
      /\ dependentConditions' = Append(dependentConditions, c)
      /\ pending' = Tail(pending)
      /\ UNCHANGED <<unchangedRest, boundTables>>
  BY DEF KeepDependent
<1> HIDE DEF c
<1>4. Kept(c)
  BY <1>3 DEF Kept, HasSelect
<1>5. dependentConditions' \in Seq(Condition)
      /\ \A x : x \in Range(dependentConditions') <=> x \in Range(dependentConditions) \/ x = c
  BY <1>1, <1>2, <1>3, RangeAppend
<1>6. Fields'
  BY <1>2, <1>3, <1>5 DEF DataInv, Fields, unchangedRest
<1>7. BoundsTyped' /\ TablesAgree' /\ OnlyKept'
  BY <1>3, <1>4, <1>5 DEF DataInv, BoundsTyped, TablesAgree, OnlyKept, boundTables
<1>8. Staged'
  BY <1>1, <1>3 DEF Staged, unchangedRest
<1>9. \A v : UsedBy(pending', v) \/ UsedBy(dependentConditions', v)
               => UsedBy(pending, v) \/ UsedBy(dependentConditions, v)
  BY <1>2, <1>3, <1>5 DEF UsedBy
<1>10. NothingLoose(body', dependentConditions', pending', bindings')
  BY <1>3, <1>9 DEF DataInv, NothingLoose, unchangedRest
<1> QED
  BY <1>6, <1>7, <1>8, <1>10 DEF DataInv

(* The steps that only move on.                                            *)
LEMMA DataMoves ==
  ASSUME DataInv, EndBounds \/ KeepBinding \/ EndIndependent \/ EndSingle PROVE DataInv'
<1>1. UNCHANGED <<quantifier, pending, bindings, boundTables, independentConditions,
                  dependentConditions, body, scale, triggerVars, newQuantifier>>
  BY DEF EndBounds, KeepBinding, EndIndependent, EndSingle
<1>2. stage' \in Stages \ {"start"} /\ visit' \subseteq Vars
      /\ (stage' = "independent" => visit' \subseteq bindings) /\ pending = <<>>
  <2>1. CASE EndBounds
    BY <2>1 DEF EndBounds, DataInv, Fields, Stages
  <2>2. CASE KeepBinding
    BY <2>2 DEF KeepBinding, DataInv, Fields, Stages, Staged
  <2>3. CASE EndIndependent
    BY <2>3 DEF EndIndependent, DataInv, Fields, Stages, Staged
  <2>4. CASE EndSingle
    BY <2>4 DEF EndSingle, DataInv, Fields, Stages, Staged
  <2> QED
    BY <2>1, <2>2, <2>3, <2>4
<1>3. Fields'
  BY <1>1, <1>2 DEF DataInv, Fields
<1>4. BoundsTyped' /\ TablesAgree' /\ OnlyKept'
  BY <1>1 DEF DataInv, BoundsTyped, TablesAgree, OnlyKept, boundTables
<1>5. Staged'
  BY <1>1, <1>2 DEF Staged
<1>6. NothingLoose(body', dependentConditions', pending', bindings')
  BY <1>1 DEF DataInv, NothingLoose
<1> QED
  BY <1>3, <1>4, <1>5, <1>6 DEF DataInv

(* A binding that is not quantified over anymore has no bounds.            *)
LEMMA ForgetIs ==
  ASSUME BoundsTyped, TablesAgree, NEW name \in Vars, Forget(name)
  PROVE  /\ BoundsTyped' /\ TablesAgree' /\ bindings' = bindings \ {name}
         /\ \A w \in Vars \ {name} :
              lowerBounds'[w] = lowerBounds[w] /\ upperExclusiveBounds'[w] = upperExclusiveBounds[w]
<1>1. \A table \in Tables :
        /\ [table EXCEPT ![name] = <<>>] \in Tables
        /\ [table EXCEPT ![name] = <<>>][name] = <<>>
        /\ \A w \in Vars \ {name} : [table EXCEPT ![name] = <<>>][w] = table[w]
  BY DEF Tables
<1>2. /\ lowerBounds' = [lowerBounds EXCEPT ![name] = <<>>]
      /\ upperBounds' = [upperBounds EXCEPT ![name] = <<>>]
      /\ upperExclusiveBounds' = [upperExclusiveBounds EXCEPT ![name] = <<>>]
      /\ bindings' = bindings \ {name}
  BY DEF Forget
<1>3. /\ lowerBounds' \in Tables /\ upperBounds' \in Tables /\ upperExclusiveBounds' \in Tables
      /\ upperBounds'[name] = <<>> /\ upperExclusiveBounds'[name] = <<>>
      /\ \A w \in Vars \ {name} : /\ upperBounds'[w] = upperBounds[w]
                                  /\ lowerBounds'[w] = lowerBounds[w]
                                  /\ upperExclusiveBounds'[w] = upperExclusiveBounds[w]
  BY <1>1, <1>2 DEF BoundsTyped
<1>4. BoundsAgree(<<>>, <<>>)
  BY DEF BoundsAgree
<1>5. TablesAgree'
  <2> SUFFICES ASSUME NEW w \in Vars PROVE BoundsAgree(upperBounds'[w], upperExclusiveBounds'[w])
    BY DEF TablesAgree
  <2>1. CASE w = name
    BY <1>3, <1>4, <2>1
  <2>2. CASE w # name
    BY <1>3, <2>2 DEF TablesAgree
  <2> QED
    BY <2>1, <2>2
<1> QED
  BY <1>2, <1>3, <1>5 DEF BoundsTyped

(* The extremes of a binding that is removed.                              *)
LEMMA RemovedExtremes ==
  ASSUME BoundsTyped, NEW name \in Vars, Removable(name)
  PROVE  /\ upperBounds[name] \in Lists /\ lowerBounds[name] \in Lists
         /\ maxBound(name).bound \in Expr /\ minBound(name).bound \in Expr
<1>1. upperBounds[name] \in Lists /\ lowerBounds[name] \in Lists
  BY DEF BoundsTyped, Tables, Lists, Removable
<1>2. TRUE \in BOOLEAN /\ FALSE \in BOOLEAN
  OBVIOUS
<1> QED
  BY <1>1, <1>2, ExtremesTyped DEF maxBound, minBound

LEMMA DataRemoved ==
  ASSUME DataInv, RemoveIndependent PROVE DataInv'
<1>1. PICK name \in visit :
        /\ Removable(name)
        /\ visit' = visit \ {name}
        /\ LET max == maxBound(name).bound
               min == minBound(name).bound
           IN /\ independentConditions' =
                   Append(independentConditions, [env \in Env |-> max[env] >= min[env]])
              /\ scale' = IF quantifier.kind = "starall"
                            THEN [env \in Env |-> (1 + max[env] - min[env]) * scale[env]]
                            ELSE scale
        /\ Forget(name)
  BY DEF RemoveIndependent
<1>2. /\ stage = "independent" /\ newQuantifier' = TRUE
      /\ UNCHANGED <<quantifier, stage, pending, dependentConditions, body, triggerVars>>
  BY DEF RemoveIndependent
<1> DEFINE max == maxBound(name).bound
           min == minBound(name).bound
           fits == [env \in Env |-> max[env] >= min[env]]
<1>3. name \in Vars /\ name \in bindings /\ pending = <<>>
  BY <1>2 DEF DataInv, Fields, Staged
<1>4. max \in Expr /\ min \in Expr
  BY <1>1, <1>3, RemovedExtremes DEF DataInv
<1> HIDE DEF max, min
<1>5. fits \in [Env -> BOOLEAN]
  OBVIOUS
<1> HIDE DEF fits
<1>6. independentConditions' \in Seq([Env -> BOOLEAN])
  BY <1>1, <1>5, RangeAppend DEF DataInv, Fields, fits, max, min
<1>7. scale' \in Expr
  <2> DEFINE times == [env \in Env |-> (1 + max[env] - min[env]) * scale[env]]
  <2>1. times \in Expr
    <3> SUFFICES ASSUME NEW env \in Env PROVE (1 + max[env] - min[env]) * scale[env] \in Int
      BY DEF Expr
    <3>1. max[env] \in Int /\ min[env] \in Int /\ scale[env] \in Int
      BY <1>4 DEF DataInv, Fields, Expr
    <3>2. 1 + max[env] - min[env] \in Int
      BY <3>1
    <3> QED
      BY <3>1, <3>2
  <2>2. scale' = times \/ scale' = scale
    BY <1>1 DEF max, min
  <2> QED
    BY <2>1, <2>2 DEF DataInv, Fields
<1>8. BoundsTyped' /\ TablesAgree' /\ bindings' = bindings \ {name}
  BY <1>1, <1>3, ForgetIs DEF DataInv
<1>9. name \notin BodyMentions /\ name \notin DependentMentions /\ name \notin triggerVars
  BY <1>1 DEF Removable, Unmentioned
<1>10. Fields'
  <2>1. bindings' \subseteq Vars /\ visit' \subseteq Vars /\ triggerVars' \subseteq bindings'
    BY <1>1, <1>2, <1>8, <1>9 DEF DataInv, Fields
  <2> QED
    BY <1>2, <1>6, <1>7, <2>1 DEF DataInv, Fields
<1>11. Staged'
  BY <1>1, <1>2, <1>8 DEF DataInv, Staged
<1>12. OnlyKept'
  BY <1>2 DEF DataInv, OnlyKept
<1>13. NothingLoose(body', dependentConditions', pending', bindings')
  <2> SUFFICES ASSUME NEW v, (\E i \in DOMAIN body : UsedAt(body, i, v))
                               \/ UsedBy(dependentConditions, v) \/ UsedBy(pending, v)
               PROVE  v \in bindings \ {name}
    BY <1>2, <1>8 DEF NothingLoose
  <2>1. v \in bindings
    BY DEF DataInv, NothingLoose
  <2>2. ~UsedBy(pending, v)
    BY <1>3, ShortRange DEF UsedBy
  <2>3. v # name
    BY <1>9, <2>2, BodyMentionsIs, OtherMentionsIs
  <2> QED
    BY <2>1, <2>3
<1> QED
  BY <1>8, <1>10, <1>11, <1>12, <1>13 DEF DataInv

(* What SubstituteSingle makes of the data.                                *)
LEMMA SubstCondsUses ==
  ASSUME NEW conds \in Seq(Condition), NEW v \in Vars, NEW e \in Expr, NEW w,
         UsedBy(SubstConds(conds, v, e), w)
  PROVE  w # v /\ UsedBy(conds, w)
<1>1. PICK i \in DOMAIN SubstConds(conds, v, e) : w \in CondMentions(SubstConds(conds, v, e)[i])
  BY DEF UsedBy, Range
<1>2. i \in DOMAIN conds /\ conds[i] \in Condition
      /\ SubstConds(conds, v, e)[i] = SubstCond(conds[i], v, e)
  BY <1>1, SubstCondsIs
<1>3. CondMentions(SubstCond(conds[i], v, e)) = CondMentions(conds[i]) \ {v}
  BY <1>2, CondSubst
<1> QED
  BY <1>1, <1>2, <1>3 DEF UsedBy, Range

LEMMA BoundsOnIs ==
  ASSUME NEW name \in Vars, NEW e \in Expr,
         lowerBounds[name] \in Seq(Expr), upperBounds[name] \in Seq(Expr)
  PROVE  /\ BoundsOn(name, e) \in Seq([Env -> BOOLEAN])
         /\ \A env \in Env :
              (\A b \in Range(BoundsOn(name, e)) : b[env]) <=>
                /\ \A i \in DOMAIN lowerBounds[name] : lowerBounds[name][i][env] <= e[env]
                /\ \A i \in DOMAIN upperBounds[name] : e[env] <= upperBounds[name][i][env]
<1> DEFINE low == lowerBounds[name]
           up == upperBounds[name]
           B == [Env -> BOOLEAN]
           below == [i \in DOMAIN low |-> [env \in Env |-> low[i][env] <= e[env]]]
           above == [i \in DOMAIN up |-> [env \in Env |-> e[env] <= up[i][env]]]
<1>1. /\ DOMAIN low = 1 .. Len(low) /\ Len(low) \in Nat
      /\ DOMAIN up = 1 .. Len(up) /\ Len(up) \in Nat
  OBVIOUS
<1>2. BoundsOn(name, e) = below \o above
  BY DEF BoundsOn
<1> HIDE DEF low, up
<1>3. below \in [1 .. Len(low) -> B] /\ above \in [1 .. Len(up) -> B]
  BY <1>1
<1>4. below \in Seq(B) /\ above \in Seq(B)
  BY <1>1, <1>3
<1>5. DOMAIN below = DOMAIN low /\ DOMAIN above = DOMAIN up
  OBVIOUS
<1>6. \A env \in Env, i \in DOMAIN low : below[i][env] <=> low[i][env] <= e[env]
  OBVIOUS
<1>7. \A env \in Env, i \in DOMAIN up : above[i][env] <=> e[env] <= up[i][env]
  OBVIOUS
<1> HIDE DEF below, above, B
<1>8. below \o above \in Seq(B)
      /\ \A x : x \in Range(below \o above) <=> x \in Range(below) \/ x \in Range(above)
  BY <1>4, RangeConcat
<1>9. ASSUME NEW env \in Env
      PROVE  (\A b \in Range(below \o above) : b[env]) <=>
               /\ \A i \in DOMAIN low : low[i][env] <= e[env]
               /\ \A i \in DOMAIN up : e[env] <= up[i][env]
  <2>1. (\A b \in Range(below \o above) : b[env])
          <=> (\A i \in DOMAIN below : below[i][env]) /\ (\A i \in DOMAIN above : above[i][env])
    BY <1>8 DEF Range
  <2> QED
    BY <1>5, <1>6, <1>7, <2>1
<1> QED
  BY <1>2, <1>8, <1>9 DEF B, low, up

Substitutes(name, e, conds) ==
  /\ name \in bindings
  /\ e = newValue(name)
  /\ conds = SubstConds(dependentConditions, name, e)
  /\ body' = SubstBody(body, name, e)
  /\ pending' = DependentOf(conds)
  /\ independentConditions' = (independentConditions \o IndependentOf(conds)) \o BoundsOn(name, e)
  /\ triggerVars' = triggerVars \ {name}
  /\ dependentConditions' = <<>> /\ newQuantifier' = TRUE
  /\ stage = "single" /\ stage' = "rebounds"
  /\ Forget(name)
  /\ UNCHANGED <<quantifier, scale, visit>>
LEMMA SubstitutesOne ==
  ASSUME DataInv, SubstituteSingle
  PROVE  \E name \in Vars, e \in Expr, conds \in Seq(Condition) :
           /\ Substitutes(name, e, conds)
           /\ e \in Range(lowerBounds[name]) /\ e \in Range(upperBounds[name])
           /\ name \in triggerVars => e \in Simples
<1>1. PICK name \in bindings :
        /\ SingleValued(name)
        /\ LET e == newValue(name)
               conds == SubstConds(dependentConditions, name, e)
           IN /\ body' = [i \in DOMAIN body |->
                   [body[i] EXCEPT !.index = SubstTerm(@, name, e),
                                   !.guard = SubstConds(@, name, e)]]
              /\ pending' = DependentOf(conds)
              /\ independentConditions' =
                   independentConditions \o IndependentOf(conds) \o BoundsOn(name, e)
        /\ triggerVars' = TriggersAfter(name)
        /\ Forget(name)
  BY DEF SubstituteSingle
<1> DEFINE e == newValue(name)
           conds == SubstConds(dependentConditions, name, e)
<1>2. name \in Vars /\ lowerBounds[name] \in Seq(Expr) /\ EqualBounds(name) # {}
  BY <1>1 DEF DataInv, Fields, BoundsTyped, Tables, SingleValued
<1>3. e \in Expr /\ e \in Range(lowerBounds[name]) /\ e \in Range(upperBounds[name])
  BY <1>2, NewValueIs
<1>4. conds \in Seq(Condition)
  BY <1>2, <1>3, SubstCondsIs DEF DataInv, Fields
<1>5. Substitutes(name, e, conds)
  BY <1>1 DEF Substitutes, SubstBody, TriggersAfter, SubstituteSingle
<1>6. name \in triggerVars => e \in Simples
  BY <1>1 DEF SingleValued
<1> QED
  BY <1>2, <1>3, <1>4, <1>5, <1>6

LEMMA DataSubstituted ==
  ASSUME DataInv, SubstituteSingle PROVE DataInv'
<1>1. PICK name \in Vars, e \in Expr, conds \in Seq(Condition) : Substitutes(name, e, conds)
  BY SubstitutesOne
<1>2. conds = SubstConds(dependentConditions, name, e) /\ dependentConditions \in Seq(Condition)
      /\ body \in Conjuncts
  BY <1>1 DEF Substitutes, DataInv, Fields
<1>3. BoundsTyped' /\ TablesAgree' /\ bindings' = bindings \ {name}
  BY <1>1, ForgetIs DEF DataInv, Substitutes
<1>4. pending' \in Seq(Condition) /\ IndependentOf(conds) \in Seq([Env -> BOOLEAN])
      /\ \A c \in Range(pending') : c \in Range(conds)
  BY <1>1, SeparatedIs DEF Substitutes
<1>5. BoundsOn(name, e) \in Seq([Env -> BOOLEAN])
  <2>1. lowerBounds[name] \in Seq(Expr) /\ upperBounds[name] \in Seq(Expr)
    BY DEF DataInv, BoundsTyped, Tables
  <2> QED
    BY <2>1, BoundsOnIs
<1>6. independentConditions' \in Seq([Env -> BOOLEAN])
  <2>1. independentConditions \in Seq([Env -> BOOLEAN])
    BY DEF DataInv, Fields
  <2>2. independentConditions \o IndependentOf(conds) \in Seq([Env -> BOOLEAN])
    BY <1>4, <2>1, RangeConcat
  <2>3. (independentConditions \o IndependentOf(conds)) \o BoundsOn(name, e) \in Seq([Env -> BOOLEAN])
    BY <1>5, <2>2, RangeConcat
  <2> QED
    BY <1>1, <2>3 DEF Substitutes
<1>7. body' \in Conjuncts /\ body' = SubstBody(body, name, e) /\ DOMAIN body' = DOMAIN body
  BY <1>1, <1>2, SubstBodyIs DEF Substitutes
<1>8. Fields'
  <2>1. bindings' \subseteq Vars /\ visit' \subseteq Vars /\ triggerVars' \subseteq bindings'
    BY <1>1, <1>3 DEF DataInv, Fields, Substitutes
  <2>2. quantifier' \in Quantifiers /\ stage' \in Stages /\ scale' \in Expr /\ newQuantifier' \in BOOLEAN
    BY <1>1 DEF DataInv, Fields, Substitutes, Stages
  <2>3. dependentConditions' \in Seq(Condition)
    BY <1>1 DEF Substitutes
  <2> QED
    BY <1>4, <1>6, <1>7, <2>1, <2>2, <2>3 DEF Fields
<1>9. Staged'
  BY <1>1 DEF Substitutes, Staged
<1>10. OnlyKept'
  BY <1>1, ShortRange DEF Substitutes, OnlyKept
<1>11. NothingLoose(body', dependentConditions', pending', bindings')
  <2> SUFFICES ASSUME NEW v, (\E i \in DOMAIN body' : UsedAt(body', i, v))
                               \/ UsedBy(dependentConditions', v) \/ UsedBy(pending', v)
               PROVE  v \in bindings \ {name}
    BY <1>3 DEF NothingLoose
  <2>1. CASE \E i \in DOMAIN body' : UsedAt(body', i, v)
    <3>1. PICK i \in DOMAIN body : UsedAt(SubstBody(body, name, e), i, v)
      BY <1>7, <2>1
    <3>2. v # name /\ UsedAt(body, i, v)
      BY <1>2, <3>1, SubstUses
    <3> QED
      BY <3>2 DEF DataInv, NothingLoose
  <2>2. CASE UsedBy(dependentConditions', v)
    BY <1>1, <2>2, ShortRange DEF Substitutes, UsedBy
  <2>3. CASE UsedBy(pending', v)
    <3>1. UsedBy(conds, v)
      BY <1>4, <2>3 DEF UsedBy
    <3>2. v # name /\ UsedBy(dependentConditions, v)
      BY <1>2, <3>1, SubstCondsUses
    <3> QED
      BY <3>2 DEF DataInv, NothingLoose
  <2> QED
    BY <2>1, <2>2, <2>3
<1> QED
  BY <1>3, <1>8, <1>9, <1>10, <1>11 DEF DataInv

(* The bounds that a step adds.                                            *)
BoundsAdded(v, lower, upper, exclusive) ==
  /\ Processing
  /\ v \in Vars /\ lower \in Seq(Expr) /\ upper \in Seq(Expr) /\ exclusive \in Seq(Expr)
  /\ BoundsAgree(upper, exclusive)
  /\ addSingleBound(v, lower, upper, exclusive)
  /\ pending' = Tail(pending)
  /\ UNCHANGED <<unchangedRest, dependentConditions>>

LEMMA RangeComps ==
  LESS \in Comparisons /\ GREATER_EQ \in Comparisons /\ LESS # NEQ /\ GREATER_EQ # NEQ
BY ComparisonsDiffer DEF Comparisons

LEMMA BoundAdded ==
  ASSUME DataInv, AddBound
  PROVE  LET o == Oriented(Head(pending))
             rights == <<Sub(o.right.e, o.left.e)>>
         IN BoundsAdded(BindingOf(o.left), LowerOf(o.comp, rights), UpperOf(o.comp, rights),
                        UpperExclusiveOf(o.comp, rights))
<1> DEFINE c == Head(pending)
           o == Oriented(c)
           v == BindingOf(o.left)
           e == Sub(o.right.e, o.left.e)
           rights == <<e>>
<1>1. Processing /\ IsBound(c) /\ pending' = Tail(pending)
      /\ UNCHANGED <<unchangedRest, dependentConditions>>
      /\ addSingleBound(v, LowerOf(o.comp, rights), UpperOf(o.comp, rights),
                        UpperExclusiveOf(o.comp, rights))
  BY DEF AddBound
<1>2. c \in Condition
  BY <1>1, HeadAndTail DEF DataInv, Fields, Processing
<1>3. v \in Vars /\ e \in Expr /\ o.comp \in Comparisons /\ o.comp # NEQ
  BY <1>1, <1>2, BoundIs
<1> HIDE DEF c, o, v, e
<1>4. rights \in Seq(Expr)
  BY <1>3
<1> HIDE DEF rights
<1>5. /\ LowerOf(o.comp, rights) \in Seq(Expr)
      /\ UpperOf(o.comp, rights) \in Seq(Expr)
      /\ UpperExclusiveOf(o.comp, rights) \in Seq(Expr)
      /\ BoundsAgree(UpperOf(o.comp, rights), UpperExclusiveOf(o.comp, rights))
  BY <1>3, <1>4, BoundsOf
<1> QED
  BY <1>1, <1>3, <1>5 DEF BoundsAdded, c, o, v, e, rights

LEMMA RangeAdded ==
  ASSUME DataInv, AddRange
  PROVE  LET c == Head(pending) IN
         BoundsAdded(BindingOf(c.left), LowerOf(GREATER_EQ, Rights(c.from)),
                     UpperOf(LESS, Rights(c.to)), UpperExclusiveOf(LESS, Rights(c.to)))
<1> DEFINE c == Head(pending)
           v == BindingOf(c.left)
<1>1. Processing /\ c.form = "member" /\ IsRangeOfBinding(c) /\ pending' = Tail(pending)
      /\ UNCHANGED <<unchangedRest, dependentConditions>>
      /\ addSingleBound(v, LowerOf(GREATER_EQ, Rights(c.from)),
                        UpperOf(LESS, Rights(c.to)), UpperExclusiveOf(LESS, Rights(c.to)))
  BY DEF AddRange
<1>2. c \in Condition
  BY <1>1, HeadAndTail DEF DataInv, Fields, Processing
<1>3. v \in Vars /\ c.from \in Side /\ c.to \in Side
  BY <1>1, <1>2, RangeIs
<1> HIDE DEF c, v
<1>4. Rights(c.from) \in Seq(Expr) /\ Rights(c.to) \in Seq(Expr)
  BY <1>3, SideValueIs
<1>5. LowerOf(GREATER_EQ, Rights(c.from)) \in Seq(Expr)
  BY <1>4, RangeComps, BoundsOf
<1>6. /\ UpperOf(LESS, Rights(c.to)) \in Seq(Expr)
      /\ UpperExclusiveOf(LESS, Rights(c.to)) \in Seq(Expr)
      /\ BoundsAgree(UpperOf(LESS, Rights(c.to)), UpperExclusiveOf(LESS, Rights(c.to)))
  BY <1>4, RangeComps, BoundsOf
<1> QED
  BY <1>1, <1>3, <1>5, <1>6 DEF BoundsAdded, c, v

LEMMA DataKeeps ==
  ASSUME DataInv, [Next]_vars PROVE DataInv'
<1>1. CASE setData
  BY <1>1, DataSet
<1>2. CASE SplitSelect
  <2> DEFINE c == Head(pending)
  <2>1. /\ Processing /\ c.form = "compare" /\ HasSelect(c)
        /\ pending' = HalvesOf(c) \o Tail(pending)
        /\ UNCHANGED <<unchangedRest, boundTables, dependentConditions>>
    BY <1>2 DEF SplitSelect, HalvesOf, HasSelect
  <2>2. c \in Condition
    BY <2>1, HeadAndTail DEF DataInv, Fields, Processing
  <2>3. HalvesOf(c) \in Seq(Condition)
        /\ \A h \in Range(HalvesOf(c)) : CondMentions(h) \subseteq CondMentions(c)
    BY <2>1, <2>2, HalvesAre
  <2> QED
    BY <2>1, <2>3, DataSplits
<1>3. CASE AddBound
  BY <1>3, BoundAdded, DataBounds DEF BoundsAdded
<1>4. CASE KeepDependent
  BY <1>4, DataKept
<1>5. CASE AddRange
  BY <1>5, RangeAdded, DataBounds DEF BoundsAdded
<1>6. CASE SplitRange
  <2> DEFINE c == Head(pending)
  <2>1. /\ Processing /\ c.form = "member"
        /\ pending' = EndsOf(c) \o Tail(pending)
        /\ UNCHANGED <<unchangedRest, boundTables, dependentConditions>>
    BY <1>6 DEF SplitRange, EndsOf
  <2>2. c \in Condition
    BY <2>1, HeadAndTail DEF DataInv, Fields, Processing
  <2>3. EndsOf(c) \in Seq(Condition)
        /\ \A h \in Range(EndsOf(c)) : CondMentions(h) \subseteq CondMentions(c)
    BY <2>1, <2>2, EndsAre
  <2> QED
    BY <2>1, <2>3, DataSplits
<1>7. CASE EndBounds \/ KeepBinding \/ EndIndependent \/ EndSingle
  BY <1>7, DataMoves
<1>8. CASE RemoveIndependent
  BY <1>8, DataRemoved
<1>9. CASE SubstituteSingle
  BY <1>9, DataSubstituted
<1>10. CASE UNCHANGED vars
  BY <1>10 DEF vars, DataInv, Fields, BoundsTyped, Staged, Untouched, TablesAgree, OnlyKept,
               NothingLoose
<1> QED
  BY <1>1, <1>2, <1>3, <1>4, <1>5, <1>6, <1>7, <1>8, <1>9, <1>10 DEF Next

(* The data are well formed at every step, and no binding that             *)
(* checkIndependentVariables has removed or checkSingleValueVariables has  *)
(* replaced is mentioned by the body or by any condition, for every set of *)
(* quantifiers.                                                            *)
THEOREM NoLooseBinding == Spec => [](TypeOK /\ Closed)
<1>1. Init => DataInv
  BY DataStarts
<1>2. DataInv /\ [Next]_vars => DataInv'
  BY DataKeeps
<1>3. DataInv => TypeOK /\ Closed
  BY DataInvShows
<1> QED
  BY <1>1, <1>2, <1>3, PTL DEF Spec

(* A binding that a trigger mentions is only ever replaced by a simple     *)
(* value, which is a lower and an upper bound of it, in whatever order     *)
(* checkSingleValueVariables meets the bindings.                           *)
THEOREM TriggersStayInShape == Spec => TriggersKeepShape
<1> DEFINE Shape == \A v \in triggerVars \ triggerVars' :
                      \E e \in Simples : e \in Range(lowerBounds[v]) /\ e \in Range(upperBounds[v])
<1>1. DataInv /\ [Next]_vars => [Shape]_vars
  <2> SUFFICES ASSUME DataInv, Next PROVE Shape
    BY DEF vars
  <2>1. CASE SubstituteSingle
    <3>1. PICK name \in Vars, e \in Expr, conds \in Seq(Condition) :
            /\ Substitutes(name, e, conds)
            /\ e \in Range(lowerBounds[name]) /\ e \in Range(upperBounds[name])
            /\ name \in triggerVars => e \in Simples
      BY <2>1, SubstitutesOne
    <3>2. \A v \in triggerVars \ triggerVars' : v = name /\ name \in triggerVars
      BY <3>1 DEF Substitutes
    <3> QED
      BY <3>1, <3>2
  <2>2. CASE ~SubstituteSingle
    <3>1. triggerVars' = triggerVars
      BY <2>2 DEF Next, setData, SplitSelect, AddBound, KeepDependent, AddRange, SplitRange,
           EndBounds, RemoveIndependent, KeepBinding, EndIndependent, EndSingle, unchangedRest
    <3> QED
      BY <3>1
  <2> QED
    BY <2>1, <2>2
<1>2. Init => DataInv
  BY DataStarts
<1>3. DataInv /\ [Next]_vars => DataInv'
  BY DataKeeps
<1> QED
  BY <1>1, <1>2, <1>3, PTL DEF Spec, TriggersKeepShape

-----------------------------------------------------------------------------
(* The meaning of the data.  It is kept under four hypotheses: bindings    *)
(* range over the integers (Unbounded); toOneImplies keeps every conjunct  *)
(* of the body (Merged); a Select in a condition is the greatest or the    *)
(* least value it is taken for (SelectsSplit); a Starall accesses each     *)
(* location a finite number of times (Countable).                          *)
Merged == \A q \in Quantifiers : toOneImplies(q.conjuncts) = q.conjuncts

IsBoth(c) ==
  \A env \in Env, pt \in Valuations :
    CondHolds(c, env, pt) <=> \A h \in Range(HalvesOf(c)) : CondHolds(h, env, pt)
SplitsRight(c) ==
  (c.comp # NEQ /\ HasSelect(c)) =>
    IsBoth(c) /\ \A h \in Range(HalvesOf(c)) : HasSelect(h) => IsBoth(h)
TakesRight(c) ==
  \A env \in Env, x \in Int :
    /\ SideValue(c.from)[env] <= x <=> \A i \in DOMAIN Rights(c.from) : Rights(c.from)[i][env] <= x
    /\ x < SideValue(c.to)[env] <=> \A i \in DOMAIN Rights(c.to) : x < Rights(c.to)[i][env]
Splittable(c) ==
  IF c.form = "compare" THEN SplitsRight(c)
  ELSE IF IsRangeOfBinding(c) THEN TakesRight(c)
  ELSE \A h \in Range(EndsOf(c)) : SplitsRight(h)
SelectsSplit ==
  \A q \in Quantifiers : \A i \in DOMAIN q.conjuncts :
    \A c \in Range(q.conjuncts[i].guard) : Splittable(c)

Countable ==
  \A q \in Quantifiers : q.kind = "starall" =>
    \A env \in Env : \A key :
      IsFiniteSet(Keyed(q.conjuncts, Accesses(q.conjuncts, Assignments(Vars), env), env, key))

AllSplit == \A c \in Range(pending) : Splittable(c)
Counted ==
  quantifier.kind = "starall" =>
    \A env \in Env : \A key :
      IsFiniteSet(Keyed(body, Accesses(body, CurrentPoints(env), env), env, key))
Faithful == SameMeaning /\ Counted
MeaningInv == DataInv /\ AllSplit /\ Faithful

(* A step that leaves the body and the points alone is faithful.           *)
LEMMA FaithfulKept ==
  ASSUME Unbounded, Faithful, quantifier' = quantifier, body' = body, scale' = scale,
         \A env \in Env, pt \in Valuations : IsPoint(env, pt)' <=> IsPoint(env, pt)
  PROVE  Faithful'
<1>1. \A env \in Env : CurrentPoints(env)' = CurrentPoints(env)
                       /\ CurrentMeaning(env)' = CurrentMeaning(env)
  BY PointsKept
<1>2. SameMeaning'
  BY <1>1 DEF Faithful, SameMeaning
<1>3. Counted'
  BY <1>1 DEF Faithful, Counted
<1> QED
  BY <1>2, <1>3 DEF Faithful

(* A step that leaves the accesses and their keys alone is faithful.       *)
LEMMA FaithfulAccesses ==
  ASSUME Faithful, quantifier' = quantifier, scale' = scale,
         \A env \in Env :
           /\ Accesses(body', CurrentPoints(env)', env) = Accesses(body, CurrentPoints(env), env)
           /\ \A a \in Accesses(body, CurrentPoints(env), env) :
                Key(body', a, env) = Key(body, a, env)
  PROVE  Faithful'
<1>1. ASSUME NEW env \in Env
      PROVE  /\ CurrentMeaning(env)' = CurrentMeaning(env)
             /\ \A key : Keyed(body', Accesses(body', CurrentPoints(env)', env), env, key)
                           = Keyed(body, Accesses(body, CurrentPoints(env), env), env, key)
  <2> DEFINE A == Accesses(body, CurrentPoints(env), env)
             B == Accesses(body', CurrentPoints(env)', env)
  <2>1. A = B /\ \A a \in A : Key(body', a, env) = Key(body, a, env)
    OBVIOUS
  <2> HIDE DEF A, B
  <2>2. \A key : Keyed(body', B, env, key) = Keyed(body, A, env, key)
    BY <2>1 DEF Keyed
  <2>3. /\ \A a \in A : \E b \in B : Key(body', b, env) = Key(body, a, env)
        /\ \A b \in B : \E a \in A : Key(body, a, env) = Key(body', b, env)
    BY <2>1
  <2>4. quantifier.kind # "forall" =>
          \A a \in A : scale[env] * Cardinality(Keyed(body, A, env, Key(body, a, env)))
                         = scale[env] * Cardinality(Keyed(body', B, env, Key(body, a, env)))
    BY <2>2
  <2>5. MeaningOf(quantifier.kind, body, scale[env], CurrentPoints(env), env)
          = MeaningOf(quantifier.kind, body', scale[env], CurrentPoints(env)', env)
    BY <2>3, <2>4, MeaningsEqual DEF A, B
  <2>6. CurrentMeaning(env)' = CurrentMeaning(env)
    BY <2>5, MeaningIs DEF Meant
  <2> QED
    BY <2>2, <2>6 DEF A, B
<1>2. SameMeaning'
  BY <1>1 DEF Faithful, SameMeaning
<1>3. Counted'
  <2> SUFFICES ASSUME quantifier.kind = "starall", NEW env \in Env, NEW key
               PROVE  IsFiniteSet(Keyed(body', Accesses(body', CurrentPoints(env)', env), env, key))
    BY DEF Counted
  <2>1. IsFiniteSet(Keyed(body, Accesses(body, CurrentPoints(env), env), env, key))
    BY DEF Faithful, Counted
  <2> QED
    BY <1>1, <2>1
<1> QED
  BY <1>2, <1>3 DEF Faithful

LEMMA NoBounds ==
  ASSUME Untouched, NEW env, NEW pt
  PROVE  InBounds(env, pt)
BY DEF InBounds, Untouched, None

LEMMA UntouchedPoint ==
  ASSUME Untouched, NEW env, NEW pt
  PROVE  IsPoint(env, pt) <=> pt \in Valuations
<1>1. InBounds(env, pt)
  BY NoBounds
<1>2. Range(pending) = {} /\ Range(dependentConditions) = {}
  BY ShortRange DEF Untouched
<1>3. DOMAIN independentConditions = {} /\ Vars \ bindings = {}
  BY DEF Untouched
<1> QED
  BY <1>1, <1>2, <1>3 DEF IsPoint

LEMMA MeaningStarts ==
  ASSUME Unbounded, Countable, Init
  PROVE  MeaningInv
<1>1. DataInv
  BY DataStarts
<1>2. Untouched /\ quantifier \in Quantifiers /\ pending = <<>>
  BY <1>1 DEF DataInv, Fields, Staged, Init, Untouched
<1>3. AllSplit
  BY <1>2, ShortRange DEF AllSplit
<1>4. ASSUME NEW env \in Env PROVE CurrentPoints(env) = Assignments(Vars)
  <2>1. \A pt : IsPoint(env, pt) <=> pt \in Valuations
    BY <1>2, UntouchedPoint
  <2>2. \A pt : pt \in Assignments(Vars) <=> pt \in Valuations
    BY DEF Assignments, Valuations, Unbounded
  <2>3. \A pt : pt \in CurrentPoints(env) <=> pt \in Assignments(Vars)
    BY <2>1, <2>2, PointIs
  <2> QED
    BY <2>3 DEF CurrentPoints, Assignments
<1>5. SameMeaning
  <2> SUFFICES ASSUME NEW env \in Env
               PROVE  CurrentMeaning(env) = OriginalMeaning[quantifier][env]
    BY DEF SameMeaning
  <2>1. CurrentMeaning(env) = MeaningOf(quantifier.kind, body, scale[env], Assignments(Vars), env)
    BY <1>4, MeaningIs DEF Meant
  <2>2. scale[env] = 1 /\ body = quantifier.conjuncts
    BY <1>2 DEF Untouched, One
  <2> QED
    BY <1>2, <2>1, <2>2 DEF OriginalMeaning
<1>6. Counted
  BY <1>2, <1>4 DEF Counted, Countable, Untouched
<1> QED
  BY <1>1, <1>3, <1>5, <1>6 DEF MeaningInv, Faithful

LEMMA MeaningSet ==
  ASSUME Unbounded, Merged, SelectsSplit, MeaningInv, setData
  PROVE  AllSplit' /\ Faithful'
<1> DEFINE conjuncts == quantifier.conjuncts
           conds == IF OneImplies(conjuncts) THEN conjuncts[1].guard ELSE <<>>
<1>1. quantifier \in Quantifiers /\ conjuncts \in Conjuncts /\ conjuncts # <<>>
      /\ toOneImplies(quantifier.conjuncts) = conjuncts
  BY QuantifiersAssumption DEF MeaningInv, DataInv, Fields, Merged
<1>2. /\ body' = IF OneImplies(conjuncts)
                   THEN [i \in DOMAIN conjuncts |-> [conjuncts[i] EXCEPT !.guard = <<>>]]
                   ELSE conjuncts
      /\ independentConditions' = IndependentOf(conds)
      /\ pending' = DependentOf(conds)
      /\ stage = "start"
      /\ UNCHANGED <<quantifier, bindings, lowerBounds, upperBounds, upperExclusiveBounds,
                     dependentConditions, scale>>
  BY <1>1 DEF setData
<1>3. Untouched /\ body = conjuncts
  BY <1>2 DEF MeaningInv, DataInv, Staged, Untouched
<1>4. quantifier' = quantifier /\ 1 \in DOMAIN conjuncts
  BY <1>1, <1>2 DEF Conjuncts
<1>5. conds \in Seq(Condition)
  BY <1>1, <1>4, ConjunctIs
<1>6. \A c \in Range(conds) : Splittable(c)
  BY <1>1, <1>4, ShortRange DEF SelectsSplit
<1>12. \A i \in DOMAIN conjuncts : conjuncts[i] \in ConjunctSet
  BY <1>1, ConjunctIs
<1>13. OneImplies(conjuncts) => \A i \in DOMAIN conjuncts : conjuncts[i].guard = conds
  BY DEF OneImplies
<1>14. ~OneImplies(conjuncts) => conds = <<>>
  OBVIOUS
<1> HIDE DEF conjuncts, conds
<1>7. AllSplit'
  BY <1>2, <1>5, <1>6, SeparatedIs DEF AllSplit
<1>8. ASSUME NEW env \in Env, NEW pt
      PROVE  /\ IsPoint(env, pt) <=> pt \in Valuations
             /\ IsPoint(env, pt)' <=> pt \in Valuations /\ \A c \in Range(conds) : CondHolds(c, env, pt)
  <2>1. IsPoint(env, pt) <=> pt \in Valuations
    BY <1>3, UntouchedPoint
  <2>2. /\ bindings' = Vars /\ dependentConditions' = <<>>
        /\ InBounds(env, pt)'
    BY <1>2, <1>3 DEF InBounds, Untouched, None
  <2>3. IsPoint(env, pt)' <=>
          /\ pt \in Valuations
          /\ \A i \in DOMAIN IndependentOf(conds) : IndependentOf(conds)[i][env]
          /\ \A c \in Range(DependentOf(conds)) : CondHolds(c, env, pt)
    BY <1>2, <2>2, ShortRange DEF IsPoint
  <2>4. pt \in Valuations =>
          ((\A c \in Range(conds) : CondHolds(c, env, pt)) <=>
             /\ \A c \in Range(DependentOf(conds)) : CondHolds(c, env, pt)
             /\ \A i \in DOMAIN IndependentOf(conds) : IndependentOf(conds)[i][env])
    BY <1>5, SeparatedIs
  <2> QED
    BY <2>1, <2>3, <2>4
<1>9. DOMAIN body' = DOMAIN conjuncts
  BY <1>2
<1>10. ASSUME NEW i \in DOMAIN conjuncts
       PROVE  /\ body'[i].id = conjuncts[i].id /\ body'[i].index = conjuncts[i].index
              /\ OneImplies(conjuncts) => body'[i].guard = <<>> /\ conjuncts[i].guard = conds
              /\ ~OneImplies(conjuncts) => body'[i].guard = conjuncts[i].guard
  <2>1. conjuncts[i] \in ConjunctSet
    BY <1>12
  <2>2. CASE OneImplies(conjuncts)
    <3>1. body'[i] = [conjuncts[i] EXCEPT !.guard = <<>>]
      BY <1>2, <2>2
    <3> QED
      BY <1>13, <2>1, <2>2, <3>1 DEF ConjunctSet
  <2>3. CASE ~OneImplies(conjuncts)
    BY <1>2, <2>3
  <2> QED
    BY <2>2, <2>3
<1>11. ASSUME NEW env \in Env
       PROVE  /\ Accesses(body', CurrentPoints(env)', env) = Accesses(body, CurrentPoints(env), env)
              /\ \A a \in Accesses(body, CurrentPoints(env), env) :
                   Key(body', a, env) = Key(body, a, env)
  <2>1. ASSUME NEW pt, NEW i \in DOMAIN conjuncts
        PROVE  ((pt \in CurrentPoints(env)') /\ Makes(body', env, pt, i))
                 <=> (pt \in CurrentPoints(env) /\ Makes(body, env, pt, i))
    <3>1. (pt \in CurrentPoints(env)') <=> IsPoint(env, pt)'
      BY PointIsNext
    <3>2. pt \in CurrentPoints(env) <=> IsPoint(env, pt)
      BY PointIs
    <3>3. CASE OneImplies(conjuncts)
      <4>1. Makes(body', env, pt, i)
        BY <1>10, <3>3 DEF Makes
      <4>2. Makes(body, env, pt, i) <=> \A c \in Range(conds) : CondHolds(c, env, pt)
        BY <1>3, <1>10, <3>3 DEF Makes, Range
      <4> QED
        BY <1>8, <3>1, <3>2, <4>1, <4>2
    <3>4. CASE ~OneImplies(conjuncts)
      <4>1. Makes(body', env, pt, i) <=> Makes(body, env, pt, i)
        BY <1>3, <1>10, <3>4 DEF Makes
      <4>2. \A c \in Range(conds) : CondHolds(c, env, pt)
        BY <1>14, <3>4, ShortRange
      <4> QED
        BY <1>8, <3>1, <3>2, <4>1, <4>2
    <3> QED
      BY <3>3, <3>4
  <2>2. \A a : a \in Accesses(body', CurrentPoints(env)', env)
                 <=> a \in Accesses(body, CurrentPoints(env), env)
    <3> SUFFICES ASSUME NEW a
                 PROVE  a \in Accesses(body', CurrentPoints(env)', env)
                          <=> a \in Accesses(body, CurrentPoints(env), env)
      OBVIOUS
    <3>1. a \in Accesses(body', CurrentPoints(env)', env)
            <=> (a \in (CurrentPoints(env)') \X DOMAIN conjuncts) /\ Makes(body', env, a[1], a[2])
      BY <1>9, AccessIs
    <3>2. a \in Accesses(body, CurrentPoints(env), env)
            <=> a \in CurrentPoints(env) \X DOMAIN conjuncts /\ Makes(body, env, a[1], a[2])
      BY <1>3, AccessIs
    <3>3. \A S, T : a \in S \X T <=> a = <<a[1], a[2]>> /\ a[1] \in S /\ a[2] \in T
      OBVIOUS
    <3> QED
      BY <2>1, <3>1, <3>2, <3>3
  <2>3. Accesses(body', CurrentPoints(env)', env) = Accesses(body, CurrentPoints(env), env)
    BY <2>2 DEF Accesses
  <2>4. \A a \in Accesses(body, CurrentPoints(env), env) : Key(body', a, env) = Key(body, a, env)
    <3> SUFFICES ASSUME NEW a \in Accesses(body, CurrentPoints(env), env)
                 PROVE  Key(body', a, env) = Key(body, a, env)
      OBVIOUS
    <3>1. a[2] \in DOMAIN conjuncts
      BY <1>3, AccessIs
    <3> QED
      BY <1>3, <1>10, <3>1 DEF Key
  <2> QED
    BY <2>3, <2>4
<1> QED
  BY <1>2, <1>4, <1>7, <1>11, FaithfulAccesses DEF MeaningInv

(* A condition gives way to its parts.                                     *)
LEMMA SplitsFaithful ==
  ASSUME Unbounded, MeaningInv, Processing, NEW parts \in Seq(Condition),
         \A env \in Env, pt \in Valuations :
           CondHolds(Head(pending), env, pt) <=> \A h \in Range(parts) : CondHolds(h, env, pt),
         \A h \in Range(parts) : Splittable(h),
         pending' = parts \o Tail(pending),
         UNCHANGED <<unchangedRest, boundTables, dependentConditions>>
  PROVE  AllSplit' /\ Faithful'
<1>1. pending \in Seq(Condition) /\ pending # <<>>
  BY DEF MeaningInv, DataInv, Fields, Processing
<1>2. Tail(pending) \in Seq(Condition)
      /\ \A x : x \in Range(pending) <=> x = Head(pending) \/ x \in Range(Tail(pending))
  BY <1>1, HeadAndTail
<1>3. \A x : x \in Range(pending') <=> x \in Range(parts) \/ x \in Range(Tail(pending))
  BY <1>2, RangeConcat
<1>4. AllSplit'
  BY <1>2, <1>3 DEF MeaningInv, AllSplit
<1>5. ASSUME NEW env \in Env, NEW pt \in Valuations
      PROVE  IsPoint(env, pt)' <=> IsPoint(env, pt)
  <2>1. (\A c \in Range(pending') : CondHolds(c, env, pt))
          <=> \A c \in Range(pending) : CondHolds(c, env, pt)
    BY <1>2, <1>3
  <2>2. InBounds(env, pt)' <=> InBounds(env, pt)
    BY DEF InBounds, unchangedRest, boundTables
  <2> QED
    BY <2>1, <2>2 DEF IsPoint, unchangedRest
<1>6. Faithful'
  BY <1>5, FaithfulKept DEF MeaningInv, unchangedRest
<1> QED
  BY <1>4, <1>6

(* A condition gives way to bounds of a binding.                           *)
LowAt(low, env, x) == \A i \in DOMAIN low : low[i][env] <= x
HighAt(exclusive, env, x) == \A i \in DOMAIN exclusive : x < exclusive[i][env]

LEMMA BoundsConcat ==
  ASSUME NEW s \in Seq(Expr), NEW t \in Seq(Expr), NEW env, NEW x
  PROVE  /\ LowAt(s \o t, env, x) <=> LowAt(s, env, x) /\ LowAt(t, env, x)
         /\ HighAt(s \o t, env, x) <=> HighAt(s, env, x) /\ HighAt(t, env, x)
<1>1. \A e : e \in Range(s \o t) <=> e \in Range(s) \/ e \in Range(t)
  BY RangeConcat
<1>2. \A u : LowAt(u, env, x) <=> \A e \in Range(u) : e[env] <= x
  BY DEF LowAt, Range
<1>3. \A u : HighAt(u, env, x) <=> \A e \in Range(u) : x < e[env]
  BY DEF HighAt, Range
<1> QED
  BY <1>1, <1>2, <1>3

LEMMA InBoundsIs ==
  ASSUME NEW env, NEW pt
  PROVE  /\ InBounds(env, pt) <=> \A v \in bindings : LowAt(lowerBounds[v], env, pt[v])
                                                     /\ HighAt(upperExclusiveBounds[v], env, pt[v])
         /\ InBounds(env, pt)' <=> \A v \in bindings' : LowAt(lowerBounds'[v], env, pt[v])
                                                     /\ HighAt(upperExclusiveBounds'[v], env, pt[v])
BY DEF InBounds, LowAt, HighAt

LEMMA BoundsFaithful ==
  ASSUME Unbounded, MeaningInv,
         NEW v, NEW lower, NEW upper, NEW exclusive, BoundsAdded(v, lower, upper, exclusive),
         CondMentions(Head(pending)) = {v},
         \A env \in Env, pt \in Valuations :
           CondHolds(Head(pending), env, pt)
             <=> LowAt(lower, env, pt[v]) /\ HighAt(exclusive, env, pt[v])
  PROVE  AllSplit' /\ Faithful'
<1>1. pending \in Seq(Condition) /\ pending # <<>>
  BY DEF MeaningInv, DataInv, Fields, BoundsAdded, Processing
<1>2. Head(pending) \in Range(pending)
      /\ \A x : x \in Range(pending) <=> x = Head(pending) \/ x \in Range(Tail(pending))
  BY <1>1, HeadAndTail
<1>3. pending' = Tail(pending) /\ UNCHANGED <<unchangedRest, dependentConditions>>
      /\ v \in Vars /\ lower \in Seq(Expr) /\ exclusive \in Seq(Expr)
      /\ addSingleBound(v, lower, upper, exclusive)
  BY DEF BoundsAdded
<1>4. AllSplit'
  BY <1>2, <1>3 DEF MeaningInv, AllSplit
<1>5. v \in bindings
  <2>1. UsedBy(pending, v)
    BY <1>2 DEF UsedBy
  <2> QED
    BY <2>1 DEF MeaningInv, DataInv, NothingLoose
<1>6. lowerBounds \in Tables /\ upperExclusiveBounds \in Tables
  BY DEF MeaningInv, DataInv, BoundsTyped
<1>7. lowerBounds' = Extended(lowerBounds, v, lower)
      /\ upperExclusiveBounds' = Extended(upperExclusiveBounds, v, exclusive)
  BY <1>3 DEF addSingleBound, Extended
<1>8. /\ lowerBounds'[v] = lowerBounds[v] \o lower
      /\ \A w \in Vars \ {v} : lowerBounds'[w] = lowerBounds[w]
  BY <1>3, <1>6, <1>7, TableExtended
<1>9. /\ upperExclusiveBounds'[v] = upperExclusiveBounds[v] \o exclusive
      /\ \A w \in Vars \ {v} : upperExclusiveBounds'[w] = upperExclusiveBounds[w]
  BY <1>3, <1>6, <1>7, TableExtended
<1>10. lowerBounds[v] \in Seq(Expr) /\ upperExclusiveBounds[v] \in Seq(Expr)
  BY <1>3, <1>6 DEF Tables
<1>11. ASSUME NEW env \in Env, NEW pt \in Valuations
       PROVE  IsPoint(env, pt)' <=> IsPoint(env, pt)
  <2>1. (\A c \in Range(pending) : CondHolds(c, env, pt))
          <=> CondHolds(Head(pending), env, pt) /\ \A c \in Range(pending') : CondHolds(c, env, pt)
    BY <1>2, <1>3
  <2>2. LowAt(lowerBounds'[v], env, pt[v])
          <=> LowAt(lowerBounds[v], env, pt[v]) /\ LowAt(lower, env, pt[v])
    BY <1>3, <1>8, <1>10, BoundsConcat
  <2>3. HighAt(upperExclusiveBounds'[v], env, pt[v])
          <=> HighAt(upperExclusiveBounds[v], env, pt[v]) /\ HighAt(exclusive, env, pt[v])
    BY <1>3, <1>9, <1>10, BoundsConcat
  <2>4. bindings' = bindings /\ bindings \subseteq Vars
    BY <1>3 DEF MeaningInv, DataInv, Fields, unchangedRest
  <2>5. InBounds(env, pt)' <=> InBounds(env, pt) /\ CondHolds(Head(pending), env, pt)
    BY <1>5, <1>8, <1>9, <2>2, <2>3, <2>4, InBoundsIs
  <2> QED
    BY <1>3, <2>1, <2>5 DEF IsPoint, unchangedRest
<1>12. Faithful'
  BY <1>3, <1>11, FaithfulKept DEF MeaningInv, unchangedRest
<1> QED
  BY <1>4, <1>12

LEMMA MeaningKept ==
  ASSUME Unbounded, MeaningInv, KeepDependent
  PROVE  AllSplit' /\ Faithful'
<1> DEFINE c == Head(pending)
<1>1. pending \in Seq(Condition) /\ pending # <<>> /\ dependentConditions \in Seq(Condition)
  BY DEF MeaningInv, DataInv, Fields, KeepDependent, Processing
<1>2. c \in Condition /\ \A x : x \in Range(pending) <=> x = c \/ x \in Range(Tail(pending))
  BY <1>1, HeadAndTail
<1>3. /\ dependentConditions' = Append(dependentConditions, c)
      /\ pending' = Tail(pending)
      /\ UNCHANGED <<unchangedRest, boundTables>>
  BY DEF KeepDependent
<1> HIDE DEF c
<1>4. \A x : x \in Range(dependentConditions') <=> x \in Range(dependentConditions) \/ x = c
  BY <1>1, <1>2, <1>3, RangeAppend
<1>5. AllSplit'
  BY <1>2, <1>3 DEF MeaningInv, AllSplit
<1>6. ASSUME NEW env \in Env, NEW pt \in Valuations
      PROVE  IsPoint(env, pt)' <=> IsPoint(env, pt)
  <2>1. InBounds(env, pt)' <=> InBounds(env, pt)
    BY <1>3 DEF InBounds, unchangedRest, boundTables
  <2>2. (\A x \in Range(pending) : CondHolds(x, env, pt))
          <=> CondHolds(c, env, pt) /\ \A x \in Range(pending') : CondHolds(x, env, pt)
    BY <1>2, <1>3
  <2>3. (\A x \in Range(dependentConditions') : CondHolds(x, env, pt))
          <=> CondHolds(c, env, pt) /\ \A x \in Range(dependentConditions) : CondHolds(x, env, pt)
    BY <1>4
  <2> QED
    BY <1>3, <2>1, <2>2, <2>3 DEF IsPoint, unchangedRest
<1>7. Faithful'
  BY <1>3, <1>6, FaithfulKept DEF MeaningInv, unchangedRest
<1> QED
  BY <1>5, <1>7

LEMMA MeaningMovesOn ==
  ASSUME Unbounded, MeaningInv, EndBounds \/ KeepBinding \/ EndIndependent \/ EndSingle
  PROVE  AllSplit' /\ Faithful'
<1>1. UNCHANGED <<quantifier, pending, bindings, boundTables, independentConditions,
                  dependentConditions, body, scale>>
  BY DEF EndBounds, KeepBinding, EndIndependent, EndSingle
<1>2. AllSplit'
  BY <1>1 DEF MeaningInv, AllSplit
<1>3. \A env \in Env, pt \in Valuations : IsPoint(env, pt)' <=> IsPoint(env, pt)
  BY <1>1 DEF IsPoint, InBounds, boundTables
<1> QED
  BY <1>1, <1>2, <1>3, FaithfulKept DEF MeaningInv

(* Conditions with a Select.                                               *)
LEMMA SplitsOn ==
  ASSUME NEW c \in Condition, c.form = "compare", HasSelect(c), SplitsRight(c),
         NEW h \in Range(HalvesOf(c))
  PROVE  Splittable(h)
<1>1. h \in Condition /\ h.form = "compare" /\ h.comp = c.comp /\ ~(IsSelect(h.left) /\ IsSelect(h.right))
  BY HalvesAre
<1>2. ASSUME h.comp # NEQ, HasSelect(h)
      PROVE  IsBoth(h) /\ \A g \in Range(HalvesOf(h)) : ~HasSelect(g)
  <2>1. IsBoth(h)
    BY <1>1, <1>2 DEF SplitsRight
  <2>2. \A g \in Range(HalvesOf(h)) : HasSelect(g) => IsSelect(h.left) /\ IsSelect(h.right)
    BY <1>1, <1>2, HalvesAre
  <2> QED
    BY <1>1, <2>1, <2>2
<1> QED
  BY <1>1, <1>2 DEF Splittable, SplitsRight

LEMMA MeaningSplitSelect ==
  ASSUME Unbounded, MeaningInv, SplitSelect
  PROVE  AllSplit' /\ Faithful'
<1> DEFINE c == Head(pending)
<1>1. /\ Processing /\ c.form = "compare" /\ c.comp # NEQ /\ HasSelect(c)
      /\ pending' = HalvesOf(c) \o Tail(pending)
      /\ UNCHANGED <<unchangedRest, boundTables, dependentConditions>>
  BY DEF SplitSelect, HalvesOf, HasSelect
<1>2. c \in Condition /\ c \in Range(pending)
  BY <1>1, HeadAndTail DEF MeaningInv, DataInv, Fields, Processing
<1>3. SplitsRight(c) /\ IsBoth(c)
  BY <1>1, <1>2 DEF MeaningInv, AllSplit, Splittable, SplitsRight
<1>4. HalvesOf(c) \in Seq(Condition) /\ \A h \in Range(HalvesOf(c)) : Splittable(h)
  BY <1>1, <1>2, <1>3, HalvesAre, SplitsOn
<1> QED
  BY <1>1, <1>3, <1>4, SplitsFaithful DEF IsBoth

LEMMA MeaningSplitRange ==
  ASSUME Unbounded, MeaningInv, SplitRange
  PROVE  AllSplit' /\ Faithful'
<1> DEFINE c == Head(pending)
<1>1. /\ Processing /\ c.form = "member" /\ ~IsRangeOfBinding(c)
      /\ pending' = EndsOf(c) \o Tail(pending)
      /\ UNCHANGED <<unchangedRest, boundTables, dependentConditions>>
  BY DEF SplitRange, EndsOf
<1>2. c \in Condition /\ c \in Range(pending)
  BY <1>1, HeadAndTail DEF MeaningInv, DataInv, Fields, Processing
<1>3. EndsOf(c) \in Seq(Condition)
      /\ (\A h \in Range(EndsOf(c)) : h.form = "compare")
      /\ \A env \in Env, pt \in Valuations :
              CondHolds(c, env, pt) <=> \A h \in Range(EndsOf(c)) : CondHolds(h, env, pt)
  BY <1>1, <1>2, EndsAre
<1>4. \A h \in Range(EndsOf(c)) : SplitsRight(h)
  BY <1>1, <1>2 DEF MeaningInv, AllSplit, Splittable
<1>5. \A h \in Range(EndsOf(c)) : Splittable(h)
  BY <1>3, <1>4 DEF Splittable
<1> QED
  BY <1>1, <1>3, <1>5, SplitsFaithful

LEMMA MeaningAddBound ==
  ASSUME Unbounded, MeaningInv, AddBound
  PROVE  AllSplit' /\ Faithful'
<1> DEFINE c == Head(pending)
           o == Oriented(c)
           v == BindingOf(o.left)
           e == Sub(o.right.e, o.left.e)
           rights == <<e>>
           lower == LowerOf(o.comp, rights)
           upper == UpperOf(o.comp, rights)
           exclusive == UpperExclusiveOf(o.comp, rights)
<1>1. IsBound(c) /\ c \in Condition
  BY HeadAndTail DEF AddBound, MeaningInv, DataInv, Fields, Processing
<1>2. BoundsAdded(v, lower, upper, exclusive)
  BY BoundAdded DEF MeaningInv
<1>3. /\ v \in Vars /\ CondMentions(c) = {v} /\ e \in Expr
      /\ o.comp \in Comparisons /\ o.comp # NEQ
      /\ \A env \in Env, pt \in Valuations : CondHolds(c, env, pt) <=> Holds(pt[v], o.comp, e[env])
  BY <1>1, BoundIs
<1> HIDE DEF o, v, e
<1>4. rights \in Seq(Expr) /\ DOMAIN rights = {1} /\ rights[1] = e
  BY <1>3
<1> HIDE DEF rights
<1>5. \A env \in Env, x \in Int :
        (\A i \in DOMAIN rights : Holds(x, o.comp, rights[i][env]))
          <=> LowAt(lower, env, x) /\ HighAt(exclusive, env, x)
  BY <1>3, <1>4, BoundsOf DEF LowAt, HighAt
<1> HIDE DEF lower, upper, exclusive
<1>6. ASSUME NEW env \in Env, NEW pt \in Valuations
      PROVE  CondHolds(c, env, pt) <=> LowAt(lower, env, pt[v]) /\ HighAt(exclusive, env, pt[v])
  <2>1. pt[v] \in Int
    BY <1>3 DEF Valuations
  <2>2. Holds(pt[v], o.comp, e[env]) <=> LowAt(lower, env, pt[v]) /\ HighAt(exclusive, env, pt[v])
    BY <1>4, <1>5, <2>1
  <2> QED
    BY <1>3, <2>2
<1> QED
  BY <1>2, <1>3, <1>6, BoundsFaithful

LEMMA MeaningAddRange ==
  ASSUME Unbounded, MeaningInv, AddRange
  PROVE  AllSplit' /\ Faithful'
<1> DEFINE c == Head(pending)
           v == BindingOf(c.left)
           lower == LowerOf(GREATER_EQ, Rights(c.from))
           upper == UpperOf(LESS, Rights(c.to))
           exclusive == UpperExclusiveOf(LESS, Rights(c.to))
<1>1. c.form = "member" /\ IsRangeOfBinding(c) /\ c \in Condition /\ c \in Range(pending)
  BY HeadAndTail DEF AddRange, MeaningInv, DataInv, Fields, Processing
<1>2. BoundsAdded(v, lower, upper, exclusive)
  BY RangeAdded DEF MeaningInv
<1>3. /\ v \in Vars /\ CondMentions(c) = {v} /\ c.from \in Side /\ c.to \in Side
      /\ \A env \in Env, pt \in Valuations :
           CondHolds(c, env, pt) <=>
             SideValue(c.from)[env] <= pt[v] /\ pt[v] < SideValue(c.to)[env]
  BY <1>1, RangeIs
<1>4. TakesRight(c)
  BY <1>1 DEF MeaningInv, AllSplit, Splittable
<1>5. lower = Rights(c.from) /\ exclusive = Rights(c.to)
  BY ComparisonsDiffer DEF LowerOf, UpperExclusiveOf
<1> HIDE DEF v, lower, upper, exclusive
<1>6. ASSUME NEW env \in Env, NEW pt \in Valuations
      PROVE  CondHolds(c, env, pt) <=> LowAt(lower, env, pt[v]) /\ HighAt(exclusive, env, pt[v])
  <2>1. pt[v] \in Int
    BY <1>3 DEF Valuations
  <2> QED
    BY <1>3, <1>4, <1>5, <2>1 DEF TakesRight, LowAt, HighAt
<1> QED
  BY <1>2, <1>3, <1>6, BoundsFaithful

(* Sets whose elements correspond have as many.                            *)
LEMMA Correspond ==
  ASSUME NEW S, NEW T, NEW f \in [S -> T], NEW g \in [T -> S], IsFiniteSet(S),
         \A x \in S : g[f[x]] = x, \A y \in T : f[g[y]] = y
  PROVE  IsFiniteSet(T) /\ Cardinality(T) = Cardinality(S)
<1>1. f \in Injection(S, T)
  BY DEF Injection, IsInjective
<1>2. f \in Surjection(S, T)
  BY DEF Surjection
<1>3. f \in Bijection(S, T)
  BY <1>1, <1>2 DEF Bijection
<1>4. ExistsBijection(S, T)
  BY <1>3 DEF ExistsBijection
<1> QED
  BY <1>4, FS_Bijection

LEMMA HighIsUpper ==
  ASSUME NEW upper \in Seq(Expr), NEW exclusive, BoundsAgree(upper, exclusive),
         NEW env \in Env, NEW x \in Int
  PROVE  HighAt(exclusive, env, x) <=> \A i \in DOMAIN upper : x <= upper[i][env]
<1>1. DOMAIN exclusive = DOMAIN upper
  BY DEF BoundsAgree
<1>2. ASSUME NEW i \in DOMAIN upper PROVE x < exclusive[i][env] <=> x <= upper[i][env]
  <2>1. upper[i] \in Expr /\ 1 \in Int
    OBVIOUS
  <2>2. exclusive[i] = Plus(upper[i], 1)
    BY DEF BoundsAgree
  <2>3. exclusive[i][env] = upper[i][env] + 1
    BY <2>1, <2>2, PlusIs
  <2>4. upper[i][env] \in Int
    BY <2>1 DEF Expr
  <2> QED
    BY <2>3, <2>4
<1> QED
  BY <1>1, <1>2 DEF HighAt

(* What SubstituteSingle does to a point.                                  *)
LEMMA SubstitutedPoint ==
  ASSUME MeaningInv, NEW name \in Vars, NEW e \in Expr, NEW conds \in Seq(Condition),
         Substitutes(name, e, conds),
         NEW env \in Env, NEW qt \in Valuations, qt[name] = 0
  PROVE  IsPoint(env, qt)' <=> IsPoint(env, Moved(qt, name, e[env]))
<1> DEFINE x == e[env]
           pt == Moved(qt, name, x)
<1>1. x \in Int
  BY DEF Expr
<1> HIDE DEF x
<1>2. pt \in Valuations /\ pt[name] = x /\ \A w \in Vars \ {name} : pt[w] = qt[w]
  BY <1>1, MovedIs
<1>3. /\ bindings \subseteq Vars /\ dependentConditions \in Seq(Condition) /\ pending = <<>>
      /\ independentConditions \in Seq([Env -> BOOLEAN])
      /\ BoundsTyped /\ TablesAgree /\ name \in bindings
      /\ lowerBounds[name] \in Seq(Expr) /\ upperBounds[name] \in Seq(Expr)
      /\ BoundsAgree(upperBounds[name], upperExclusiveBounds[name])
  BY DEF MeaningInv, DataInv, Fields, Staged, BoundsTyped, Tables, TablesAgree, Substitutes
<1>4. /\ bindings' = bindings \ {name}
      /\ \A w \in Vars \ {name} :
           lowerBounds'[w] = lowerBounds[w] /\ upperExclusiveBounds'[w] = upperExclusiveBounds[w]
  BY <1>3, ForgetIs DEF Substitutes
<1>5. (\A w \in Vars \ bindings' : qt[w] = 0) <=> (\A w \in Vars \ bindings : pt[w] = 0)
  BY <1>2, <1>3, <1>4
<1>6. (\A i \in DOMAIN independentConditions' : independentConditions'[i][env])
        <=> /\ \A i \in DOMAIN independentConditions : independentConditions[i][env]
            /\ \A i \in DOMAIN IndependentOf(conds) : IndependentOf(conds)[i][env]
            /\ \A b \in Range(BoundsOn(name, e)) : b[env]
  <2> DEFINE B == [Env -> BOOLEAN]
             indep == IndependentOf(conds)
             bounds == BoundsOn(name, e)
  <2>1. indep \in Seq(B) /\ bounds \in Seq(B) /\ independentConditions \in Seq(B)
    BY <1>3, SeparatedIs, BoundsOnIs
  <2>2. independentConditions' = (independentConditions \o indep) \o bounds
    BY DEF Substitutes
  <2> HIDE DEF B, indep, bounds
  <2>3. independentConditions \o indep \in Seq(B)
        /\ \A b : b \in Range(independentConditions \o indep)
                    <=> b \in Range(independentConditions) \/ b \in Range(indep)
    BY <2>1, RangeConcat
  <2>4. \A b : b \in Range(independentConditions')
                 <=> b \in Range(independentConditions \o indep) \/ b \in Range(bounds)
    BY <2>1, <2>2, <2>3, RangeConcat
  <2>5. \A s : (\A i \in DOMAIN s : s[i][env]) <=> \A b \in Range(s) : b[env]
    BY DEF Range
  <2>6. (\A b \in Range(independentConditions') : b[env])
          <=> /\ \A b \in Range(independentConditions) : b[env]
              /\ \A b \in Range(indep) : b[env]
              /\ \A b \in Range(bounds) : b[env]
    BY <2>3, <2>4
  <2> QED
    BY <2>5, <2>6 DEF indep, bounds
<1>7. (\A b \in Range(BoundsOn(name, e)) : b[env])
        <=> LowAt(lowerBounds[name], env, x) /\ HighAt(upperExclusiveBounds[name], env, x)
  <2>1. (\A b \in Range(BoundsOn(name, e)) : b[env])
          <=> /\ \A i \in DOMAIN lowerBounds[name] : lowerBounds[name][i][env] <= x
              /\ \A i \in DOMAIN upperBounds[name] : x <= upperBounds[name][i][env]
    BY <1>3, BoundsOnIs DEF x
  <2>2. HighAt(upperExclusiveBounds[name], env, x)
          <=> \A i \in DOMAIN upperBounds[name] : x <= upperBounds[name][i][env]
    BY <1>1, <1>3, HighIsUpper
  <2> QED
    BY <2>1, <2>2 DEF LowAt
<1>8. (\A c \in Range(conds) : CondHolds(c, env, qt))
        <=> \A c \in Range(dependentConditions) : CondHolds(c, env, pt)
  <2>1. /\ DOMAIN conds = DOMAIN dependentConditions
        /\ \A i \in DOMAIN dependentConditions :
             /\ dependentConditions[i] \in Condition
             /\ conds[i] = SubstCond(dependentConditions[i], name, e)
    BY <1>3, SubstCondsIs DEF Substitutes
  <2>2. \A i \in DOMAIN dependentConditions :
          CondHolds(conds[i], env, qt) <=> CondHolds(dependentConditions[i], env, pt)
    BY <2>1, CondSubst DEF x
  <2> QED
    BY <2>1, <2>2 DEF Range
<1>9. (\A c \in Range(conds) : CondHolds(c, env, qt))
        <=> /\ \A c \in Range(pending') : CondHolds(c, env, qt)
            /\ \A i \in DOMAIN IndependentOf(conds) : IndependentOf(conds)[i][env]
  BY SeparatedIs DEF Substitutes
<1>10. InBounds(env, pt) <=> InBounds(env, qt)'
         /\ LowAt(lowerBounds[name], env, x) /\ HighAt(upperExclusiveBounds[name], env, x)
  BY <1>2, <1>3, <1>4, InBoundsIs
<1>11. (\A c \in Range(dependentConditions') : CondHolds(c, env, qt))
       /\ (\A c \in Range(pending) : CondHolds(c, env, pt))
  BY <1>3, ShortRange DEF Substitutes
<1> HIDE DEF pt
<1>12. IsPoint(env, qt)' <=> IsPoint(env, pt)
  BY <1>2, <1>5, <1>6, <1>7, <1>8, <1>9, <1>10, <1>11 DEF IsPoint
<1> QED
  BY <1>12 DEF pt, x

(* A point has that value for the binding, and afterwards it has none.     *)
LEMMA ValueForced ==
  ASSUME MeaningInv, NEW name \in Vars, NEW e \in Expr, NEW conds \in Seq(Condition),
         Substitutes(name, e, conds),
         e \in Range(lowerBounds[name]), e \in Range(upperBounds[name]),
         NEW env \in Env, NEW pt
  PROVE  /\ IsPoint(env, pt) => pt \in Valuations /\ pt[name] = e[env]
         /\ IsPoint(env, pt)' => pt \in Valuations /\ pt[name] = 0
<1>1. /\ name \in bindings /\ upperBounds[name] \in Seq(Expr)
      /\ BoundsAgree(upperBounds[name], upperExclusiveBounds[name])
      /\ bindings' = bindings \ {name}
  BY DEF MeaningInv, DataInv, BoundsTyped, Tables, TablesAgree, Substitutes, Forget
<1>2. ASSUME IsPoint(env, pt) PROVE pt \in Valuations /\ pt[name] = e[env]
  <2>1. pt \in Valuations /\ pt[name] \in Int /\ e[env] \in Int
    BY <1>2 DEF IsPoint, Valuations, Expr
  <2>2. LowAt(lowerBounds[name], env, pt[name]) /\ HighAt(upperExclusiveBounds[name], env, pt[name])
    BY <1>1, <1>2, InBoundsIs DEF IsPoint
  <2>3. e[env] <= pt[name]
    BY <2>2 DEF LowAt, Range
  <2>4. \A i \in DOMAIN upperBounds[name] : pt[name] <= upperBounds[name][i][env]
    BY <1>1, <2>1, <2>2, HighIsUpper
  <2>5. pt[name] <= e[env]
    BY <2>4 DEF Range
  <2> QED
    BY <2>1, <2>3, <2>5
<1>3. ASSUME IsPoint(env, pt)' PROVE pt \in Valuations /\ pt[name] = 0
  BY <1>1, <1>3 DEF IsPoint
<1> QED
  BY <1>2, <1>3

(* The accesses that correspond, and their keys.                           *)
LEMMA SubstitutedAccess ==
  ASSUME NEW b \in Conjuncts, NEW name \in Vars, NEW e \in Expr, NEW i \in DOMAIN b,
         NEW env \in Env, NEW qt \in Valuations
  PROVE  LET pt == Moved(qt, name, e[env]) IN
         /\ Makes(SubstBody(b, name, e), env, qt, i) <=> Makes(b, env, pt, i)
         /\ Key(SubstBody(b, name, e), <<qt, i>>, env) = Key(b, <<pt, i>>, env)
<1> DEFINE s == SubstBody(b, name, e)
           pt == Moved(qt, name, e[env])
<1>1. b[i].guard \in Seq(Condition) /\ b[i].index \in Term
  BY ConjunctIs
<1>2. s[i].id = b[i].id /\ s[i].index = SubstTerm(b[i].index, name, e)
      /\ s[i].guard = SubstConds(b[i].guard, name, e)
  BY SubstBodyIs
<1> HIDE DEF s
<1>3. /\ DOMAIN s[i].guard = DOMAIN b[i].guard
      /\ \A k \in DOMAIN b[i].guard : b[i].guard[k] \in Condition
                                      /\ s[i].guard[k] = SubstCond(b[i].guard[k], name, e)
  BY <1>1, <1>2, SubstCondsIs
<1>4. \A k \in DOMAIN b[i].guard : CondHolds(s[i].guard[k], env, qt) <=> CondHolds(b[i].guard[k], env, pt)
  BY <1>3, CondSubst
<1>5. TermValue(s[i].index, env, qt) = TermValue(b[i].index, env, pt)
  BY <1>1, <1>2, TermSubst
<1> HIDE DEF pt
<1>6. Makes(s, env, qt, i) <=> Makes(b, env, pt, i)
  BY <1>3, <1>4 DEF Makes
<1>7. Key(s, <<qt, i>>, env) = Key(b, <<pt, i>>, env)
  BY <1>2, <1>5 DEF Key
<1> QED
  BY <1>6, <1>7 DEF s, pt

(* Accesses that correspond, key by key, mean the same.                    *)
LEMMA MeaningsCorrespond ==
  ASSUME NEW kind, NEW env, NEW factor,
         NEW conjuncts1, NEW points1, NEW conjuncts2, NEW points2, NEW A, NEW B,
         A = Accesses(conjuncts1, points1, env), B = Accesses(conjuncts2, points2, env),
         NEW f \in [A -> B], NEW g \in [B -> A],
         \A a \in A : g[f[a]] = a, \A b \in B : f[g[b]] = b,
         \A a \in A : Key(conjuncts2, f[a], env) = Key(conjuncts1, a, env),
         kind = "starall" => \A key : IsFiniteSet(Keyed(conjuncts1, A, env, key))
  PROVE  /\ kind \in {"forall", "starall"} =>
              MeaningOf(kind, conjuncts1, factor, points1, env)
                = MeaningOf(kind, conjuncts2, factor, points2, env)
         /\ kind = "starall" => \A key : IsFiniteSet(Keyed(conjuncts2, B, env, key))
<1>1. \A b \in B : Key(conjuncts1, g[b], env) = Key(conjuncts2, b, env)
  OBVIOUS
<1>2. ASSUME kind = "starall", NEW key
      PROVE  /\ IsFiniteSet(Keyed(conjuncts2, B, env, key))
             /\ Cardinality(Keyed(conjuncts2, B, env, key)) = Cardinality(Keyed(conjuncts1, A, env, key))
  <2> DEFINE S == Keyed(conjuncts1, A, env, key)
             T == Keyed(conjuncts2, B, env, key)
             fs == [a \in S |-> f[a]]
             gs == [b \in T |-> g[b]]
  <2>1. IsFiniteSet(S)
    BY <1>2
  <2>2. \A a \in S : f[a] \in T /\ a \in A
    BY DEF Keyed
  <2>3. \A b \in T : g[b] \in S /\ b \in B
    BY <1>1 DEF Keyed
  <2> HIDE DEF S, T
  <2>4. fs \in [S -> T] /\ gs \in [T -> S]
    BY <2>2, <2>3
  <2>5. \A a \in S : gs[fs[a]] = a
    BY <2>2
  <2>6. \A b \in T : fs[gs[b]] = b
    BY <2>3
  <2> HIDE DEF fs, gs
  <2>7. IsFiniteSet(T) /\ Cardinality(T) = Cardinality(S)
    BY <2>1, <2>4, <2>5, <2>6, Correspond
  <2> QED
    BY <2>7 DEF S, T
<1>3. /\ \A a \in A : \E b \in B : Key(conjuncts2, b, env) = Key(conjuncts1, a, env)
      /\ \A b \in B : \E a \in A : Key(conjuncts1, a, env) = Key(conjuncts2, b, env)
  BY <1>1
<1>4. ASSUME kind \in {"forall", "starall"}
      PROVE  MeaningOf(kind, conjuncts1, factor, points1, env)
               = MeaningOf(kind, conjuncts2, factor, points2, env)
  <2>1. kind # "forall" =>
          \A a \in A : factor * Cardinality(Keyed(conjuncts1, A, env, Key(conjuncts1, a, env)))
                         = factor * Cardinality(Keyed(conjuncts2, B, env, Key(conjuncts1, a, env)))
    BY <1>2, <1>4
  <2> QED
    BY <1>3, <2>1, MeaningsEqual
<1> QED
  BY <1>2, <1>4

(* A binding that has one value is replaced by it.                         *)
MovedAccess(a, name, x) == <<Moved(a[1], name, x), a[2]>>

LEMMA SubstitutedUp ==
  ASSUME Unbounded, MeaningInv, NEW name \in Vars, NEW e \in Expr, NEW conds \in Seq(Condition),
         Substitutes(name, e, conds),
         e \in Range(lowerBounds[name]), e \in Range(upperBounds[name]),
         NEW env \in Env,
         NEW b \in Accesses(body', CurrentPoints(env)', env)
  PROVE  /\ MovedAccess(b, name, e[env]) \in Accesses(body, CurrentPoints(env), env)
         /\ Key(body, MovedAccess(b, name, e[env]), env) = Key(body', b, env)
         /\ MovedAccess(MovedAccess(b, name, e[env]), name, 0) = b
<1> DEFINE qt == b[1]
           i == b[2]
           x == e[env]
           pt == Moved(qt, name, x)
<1>1. (b \in (CurrentPoints(env)') \X DOMAIN body') /\ Makes(body', env, b[1], b[2])
  BY AccessIs
<1>2. b = <<qt, i>> /\ (qt \in CurrentPoints(env)') /\ i \in DOMAIN body' /\ Makes(body', env, qt, i)
  BY <1>1
<1>3. body \in Conjuncts /\ body' = SubstBody(body, name, e)
  BY DEF MeaningInv, DataInv, Fields, Substitutes
<1>4. i \in DOMAIN body
  BY <1>2, <1>3, SubstBodyIs
<1>5. x \in Int
  BY DEF Expr
<1> HIDE DEF qt, i, x
<1>6. IsPoint(env, qt)'
  BY <1>2, PointIsNext
<1>7. qt \in Valuations /\ qt[name] = 0
  BY <1>6, ValueForced
<1>8. IsPoint(env, pt)
  BY <1>6, <1>7, SubstitutedPoint DEF x
<1>9. pt \in CurrentPoints(env)
  BY <1>8, PointIs
<1>10. /\ Makes(body', env, qt, i) <=> Makes(body, env, pt, i)
       /\ Key(body', <<qt, i>>, env) = Key(body, <<pt, i>>, env)
  BY <1>3, <1>4, <1>7, SubstitutedAccess DEF x
<1>11. Moved(pt, name, 0) = qt
  BY <1>5, <1>7 DEF Moved, Valuations
<1> HIDE DEF pt
<1>12. MovedAccess(b, name, x) = <<pt, i>>
  BY DEF MovedAccess, pt, qt, i
<1>13. <<pt, i>> \in Accesses(body, CurrentPoints(env), env)
  BY <1>2, <1>4, <1>9, <1>10, AccessIs
<1>14. MovedAccess(<<pt, i>>, name, 0) = b
  BY <1>2, <1>11 DEF MovedAccess
<1> QED
  BY <1>2, <1>10, <1>12, <1>13, <1>14 DEF x

LEMMA SubstitutedDown ==
  ASSUME Unbounded, MeaningInv, NEW name \in Vars, NEW e \in Expr, NEW conds \in Seq(Condition),
         Substitutes(name, e, conds),
         e \in Range(lowerBounds[name]), e \in Range(upperBounds[name]),
         NEW env \in Env,
         NEW a \in Accesses(body, CurrentPoints(env), env)
  PROVE  /\ MovedAccess(a, name, 0) \in Accesses(body', CurrentPoints(env)', env)
         /\ MovedAccess(MovedAccess(a, name, 0), name, e[env]) = a
<1> DEFINE pt == a[1]
           i == a[2]
           x == e[env]
           qt == Moved(pt, name, 0)
<1>1. a \in CurrentPoints(env) \X DOMAIN body /\ Makes(body, env, a[1], a[2])
  BY AccessIs
<1>2. a = <<pt, i>> /\ pt \in CurrentPoints(env) /\ i \in DOMAIN body /\ Makes(body, env, pt, i)
  BY <1>1
<1>3. body \in Conjuncts /\ body' = SubstBody(body, name, e)
  BY DEF MeaningInv, DataInv, Fields, Substitutes
<1>4. i \in DOMAIN body'
  BY <1>2, <1>3, SubstBodyIs
<1>5. x \in Int
  BY DEF Expr
<1> HIDE DEF pt, i, x
<1>6. IsPoint(env, pt)
  BY <1>2, PointIs
<1>7. pt \in Valuations /\ pt[name] = x
  BY <1>6, ValueForced DEF x
<1>8. qt \in Valuations /\ qt[name] = 0
  BY <1>7, MovedIs
<1>9. Moved(qt, name, x) = pt
  BY <1>5, <1>7 DEF Moved, Valuations
<1> HIDE DEF qt
<1>10. IsPoint(env, qt)'
  BY <1>6, <1>8, <1>9, SubstitutedPoint DEF x
<1>11. qt \in CurrentPoints(env)'
  BY <1>10, PointIsNext
<1>12. Makes(body', env, qt, i) <=> Makes(body, env, pt, i)
  BY <1>2, <1>3, <1>8, <1>9, SubstitutedAccess DEF x
<1>13. MovedAccess(a, name, 0) = <<qt, i>>
  BY DEF MovedAccess, pt, qt, i
<1>14. <<qt, i>> \in Accesses(body', CurrentPoints(env)', env)
  BY <1>2, <1>4, <1>11, <1>12, AccessIs
<1>15. MovedAccess(<<qt, i>>, name, x) = a
  BY <1>2, <1>9 DEF MovedAccess
<1> QED
  BY <1>13, <1>14, <1>15 DEF x

LEMMA MeaningSubstitute ==
  ASSUME Unbounded, MeaningInv, SubstituteSingle
  PROVE  AllSplit' /\ Faithful'
<1>1. PICK name \in Vars, e \in Expr, conds \in Seq(Condition) :
        /\ Substitutes(name, e, conds)
        /\ e \in Range(lowerBounds[name]) /\ e \in Range(upperBounds[name])
  BY SubstitutesOne DEF MeaningInv
<1>2. quantifier \in Quantifiers /\ dependentConditions \in Seq(Condition) /\ OnlyKept
  BY DEF MeaningInv, DataInv, Fields
<1>3. conds = SubstConds(dependentConditions, name, e) /\ pending' = DependentOf(conds)
      /\ quantifier' = quantifier /\ scale' = scale
  BY <1>1 DEF Substitutes
<1>4. AllSplit'
  <2> SUFFICES ASSUME NEW c \in Range(conds) PROVE Splittable(c)
    BY <1>3, SeparatedIs DEF AllSplit
  <2>1. PICK i \in DOMAIN dependentConditions :
          dependentConditions[i] \in Condition /\ c = SubstCond(dependentConditions[i], name, e)
    BY <1>2, <1>3, SubstCondsIs DEF Range
  <2>2. Kept(dependentConditions[i])
    BY <1>2 DEF OnlyKept, Range
  <2>3. c.form = "compare" /\ (c.comp = NEQ \/ ~HasSelect(c))
    BY <2>1, <2>2, CondSubst DEF Kept, HasSelect
  <2> QED
    BY <2>3 DEF Splittable, SplitsRight
<1>5. quantifier.kind \in {"forall", "starall"}
  BY <1>2, QuantifiersAssumption
<1>6. ASSUME NEW env \in Env
      PROVE  /\ CurrentMeaning(env)' = CurrentMeaning(env)
             /\ quantifier.kind = "starall" => \A key :
                  IsFiniteSet(Keyed(body', Accesses(body', CurrentPoints(env)', env), env, key))
  <2> DEFINE A == Accesses(body, CurrentPoints(env), env)
             B == Accesses(body', CurrentPoints(env)', env)
             f == [a \in A |-> MovedAccess(a, name, 0)]
             g == [b \in B |-> MovedAccess(b, name, e[env])]
  <2>1. \A a \in A : MovedAccess(a, name, 0) \in B
                     /\ MovedAccess(MovedAccess(a, name, 0), name, e[env]) = a
    BY <1>1, SubstitutedDown
  <2>2. \A b \in B : /\ MovedAccess(b, name, e[env]) \in A
                     /\ Key(body, MovedAccess(b, name, e[env]), env) = Key(body', b, env)
                     /\ MovedAccess(MovedAccess(b, name, e[env]), name, 0) = b
    BY <1>1, SubstitutedUp
  <2>3. quantifier.kind = "starall" => \A key : IsFiniteSet(Keyed(body, A, env, key))
    BY DEF MeaningInv, Faithful, Counted
  <2>4. A = Accesses(body, CurrentPoints(env), env) /\ B = Accesses(body', CurrentPoints(env)', env)
    OBVIOUS
  <2> HIDE DEF A, B
  <2>5. f \in [A -> B] /\ g \in [B -> A]
    BY <2>1, <2>2
  <2>6. /\ \A a \in A : g[f[a]] = a
        /\ \A b \in B : f[g[b]] = b
        /\ \A a \in A : Key(body', f[a], env) = Key(body, a, env)
    BY <2>1, <2>2
  <2> HIDE DEF f, g
  <2>7. /\ MeaningOf(quantifier.kind, body, scale[env], CurrentPoints(env), env)
             = MeaningOf(quantifier.kind, body', scale[env], CurrentPoints(env)', env)
        /\ quantifier.kind = "starall" => \A key : IsFiniteSet(Keyed(body', B, env, key))
    BY <1>5, <2>3, <2>4, <2>5, <2>6, MeaningsCorrespond
  <2>8. CurrentMeaning(env)' = CurrentMeaning(env)
    BY <1>3, <2>7, MeaningIs DEF Meant
  <2> QED
    BY <2>4, <2>7, <2>8
<1>7. SameMeaning'
  BY <1>3, <1>6 DEF MeaningInv, Faithful, SameMeaning
<1>8. Counted'
  BY <1>3, <1>6 DEF Counted
<1> QED
  BY <1>4, <1>7, <1>8 DEF Faithful

-----------------------------------------------------------------------------
(* A binding that the body does not mention is removed.  The extremes are  *)
(* right for a binding with one or two bounds of each kind; its range is   *)
(* empty exactly when they cross, if they are exact or it is never empty.  *)
InItsRange(v, env, x) == LowAt(lowerBounds[v], env, x) /\ HighAt(upperExclusiveBounds[v], env, x)
FewBounds(v) == Len(lowerBounds[v]) <= 2 /\ Len(upperBounds[v]) <= 2
BothExact(v) == maxBound(v).exact /\ minBound(v).exact
Decided(v) ==
  Removable(v) => BothExact(v) \/ \A env \in Env : \E x \in Int : InItsRange(v, env, x)
Ordinary == stage = "independent" => \A v \in visit : Unmentioned(v) => FewBounds(v) /\ Decided(v)

LEMMA RangeOfRemoved ==
  ASSUME DataInv, NEW name \in Vars, Removable(name), FewBounds(name), Decided(name), NEW env \in Env
  PROVE  LET max == maxBound(name).bound[env]
             min == minBound(name).bound[env]
         IN /\ max \in Int /\ min \in Int
            /\ \A x \in Int : InItsRange(name, env, x) => min <= x /\ x <= max
            /\ max >= min <=> \E x \in Int : InItsRange(name, env, x)
            /\ BothExact(name) => \A x \in Int : min <= x /\ x <= max => InItsRange(name, env, x)
<1> DEFINE max == maxBound(name).bound[env]
           min == minBound(name).bound[env]
           lower == lowerBounds[name]
           upper == upperBounds[name]
<1>1. upper \in Lists /\ lower \in Lists
      /\ maxBound(name).bound \in Expr /\ minBound(name).bound \in Expr
  BY RemovedExtremes DEF DataInv
<1>2. upper \in Seq(Expr) /\ lower \in Seq(Expr)
      /\ BoundsAgree(upper, upperExclusiveBounds[name])
  BY <1>1 DEF Lists, DataInv, TablesAgree
<1>3. max \in Int /\ min \in Int
  BY <1>1 DEF Expr
<1>4. /\ IsExtreme(maxBound(name), upper, TRUE)
      /\ IsExtreme(minBound(name), lower, FALSE)
  <2>1. TRUE \in BOOLEAN /\ FALSE \in BOOLEAN
    OBVIOUS
  <2> QED
    BY <1>1, <2>1, FewExtremes DEF FewBounds, maxBound, minBound
<1>5. /\ \E i \in DOMAIN upper : max = upper[i][env]
      /\ \E i \in DOMAIN lower : min = lower[i][env]
      /\ BothExact(name) => /\ \A i \in DOMAIN upper : max <= upper[i][env]
                            /\ \A i \in DOMAIN lower : min >= lower[i][env]
  BY <1>4 DEF IsExtreme, BothExact
<1>6. /\ \A i \in DOMAIN upper : upper[i][env] \in Int
      /\ \A i \in DOMAIN lower : lower[i][env] \in Int
  BY <1>2 DEF Expr
<1> HIDE DEF max, min, lower, upper
<1>7. \A x \in Int : InItsRange(name, env, x)
                       <=> /\ \A i \in DOMAIN lower : lower[i][env] <= x
                           /\ \A i \in DOMAIN upper : x <= upper[i][env]
  BY <1>2, HighIsUpper DEF InItsRange, LowAt, lower
<1>8. \A x \in Int : InItsRange(name, env, x) => min <= x /\ x <= max
  BY <1>5, <1>7
<1>9. BothExact(name) => \A x \in Int : min <= x /\ x <= max => InItsRange(name, env, x)
  <2> SUFFICES ASSUME BothExact(name), NEW x \in Int, min <= x, x <= max
               PROVE  InItsRange(name, env, x)
    OBVIOUS
  <2>1. ASSUME NEW i \in DOMAIN lower PROVE lower[i][env] <= x
    <3>1. min >= lower[i][env] /\ lower[i][env] \in Int
      BY <1>5, <1>6
    <3> QED
      BY <1>3, <3>1
  <2>2. ASSUME NEW i \in DOMAIN upper PROVE x <= upper[i][env]
    <3>1. max <= upper[i][env] /\ upper[i][env] \in Int
      BY <1>5, <1>6
    <3> QED
      BY <1>3, <3>1
  <2> QED
    BY <1>7, <2>1, <2>2
<1>10. (\E x \in Int : InItsRange(name, env, x)) => max >= min
  BY <1>3, <1>8
<1>11. max >= min => \E x \in Int : InItsRange(name, env, x)
  <2>1. BothExact(name) \/ \E x \in Int : InItsRange(name, env, x)
    BY DEF Decided
  <2>2. ASSUME BothExact(name), max >= min PROVE InItsRange(name, env, max)
    BY <1>3, <1>9, <2>2
  <2> QED
    BY <1>3, <2>1, <2>2
<1> QED
  BY <1>3, <1>8, <1>9, <1>10, <1>11 DEF max, min

(* What RemoveIndependent does to the data.                                *)
Removes(name) ==
  /\ Removable(name)
  /\ independentConditions' =
       Append(independentConditions,
              [env \in Env |-> maxBound(name).bound[env] >= minBound(name).bound[env]])
  /\ scale' = IF quantifier.kind = "starall"
                THEN [env \in Env |->
                        (1 + maxBound(name).bound[env] - minBound(name).bound[env]) * scale[env]]
                ELSE scale
  /\ Forget(name)
  /\ stage = "independent" /\ name \in visit
  /\ UNCHANGED <<quantifier, stage, pending, dependentConditions, body, triggerVars>>

LEMMA RemovesOne ==
  ASSUME RemoveIndependent
  PROVE  \E name \in visit : Removes(name)
BY DEF RemoveIndependent, Removes

LEMMA RemovedPoint ==
  ASSUME MeaningInv, NEW name \in Vars, Removes(name), FewBounds(name), Decided(name),
         NEW env \in Env, NEW qt \in Valuations, qt[name] = 0, NEW x \in Int
  PROVE  /\ IsPoint(env, Moved(qt, name, x)) <=> IsPoint(env, qt)' /\ InItsRange(name, env, x)
         /\ IsPoint(env, qt)' => \E y \in Int : InItsRange(name, env, y)
<1> DEFINE pt == Moved(qt, name, x)
           fits == maxBound(name).bound[env] >= minBound(name).bound[env]
           added == [v \in Env |-> maxBound(name).bound[v] >= minBound(name).bound[v]]
<1>1. pt \in Valuations /\ pt[name] = x /\ \A w \in Vars \ {name} : pt[w] = qt[w]
  BY MovedIs
<1>2. /\ bindings \subseteq Vars /\ dependentConditions \in Seq(Condition) /\ pending = <<>>
      /\ independentConditions \in Seq([Env -> BOOLEAN])
      /\ BoundsTyped /\ TablesAgree /\ name \in bindings
  BY DEF MeaningInv, DataInv, Fields, Staged, Removes
<1>3. /\ bindings' = bindings \ {name}
      /\ \A w \in Vars \ {name} :
           lowerBounds'[w] = lowerBounds[w] /\ upperExclusiveBounds'[w] = upperExclusiveBounds[w]
  BY <1>2, ForgetIs DEF Removes
<1>4. fits <=> \E y \in Int : InItsRange(name, env, y)
  BY RangeOfRemoved DEF MeaningInv, Removes
<1>5. added \in [Env -> BOOLEAN] /\ (added[env] <=> fits)
  <2> DEFINE max == maxBound(name).bound
             min == minBound(name).bound
  <2>1. max \in Expr /\ min \in Expr
    BY RemovedExtremes DEF MeaningInv, DataInv, Removes
  <2>2. added = [v \in Env |-> max[v] >= min[v]] /\ (fits <=> max[env] >= min[env])
    OBVIOUS
  <2> HIDE DEF added, fits, max, min
  <2>3. \A v \in Env : max[v] \in Int /\ min[v] \in Int
    BY <2>1 DEF Expr
  <2>4. added \in [Env -> BOOLEAN]
    BY <2>2, <2>3
  <2>5. added[env] <=> max[env] >= min[env]
    BY <2>2
  <2> QED
    BY <2>2, <2>4, <2>5
<1>6. independentConditions' = Append(independentConditions, added)
  BY DEF Removes
<1> HIDE DEF pt, fits, added
<1>7. (\A i \in DOMAIN independentConditions' : independentConditions'[i][env])
        <=> (\A i \in DOMAIN independentConditions : independentConditions[i][env]) /\ fits
  <2>1. \A b : b \in Range(independentConditions') <=> b \in Range(independentConditions) \/ b = added
    BY <1>2, <1>5, <1>6, RangeAppend
  <2>2. \A s : (\A i \in DOMAIN s : s[i][env]) <=> \A b \in Range(s) : b[env]
    BY DEF Range
  <2>3. (\A b \in Range(independentConditions') : b[env])
          <=> (\A b \in Range(independentConditions) : b[env]) /\ fits
    BY <1>5, <2>1
  <2> QED
    BY <2>2, <2>3
<1>8. (\A v \in Vars \ bindings' : qt[v] = 0) <=> (\A v \in Vars \ bindings : pt[v] = 0)
  BY <1>1, <1>2, <1>3
<1>9. (\A c \in Range(dependentConditions) : CondHolds(c, env, pt))
        <=> \A c \in Range(dependentConditions) : CondHolds(c, env, qt)
  <2> SUFFICES ASSUME NEW c \in Range(dependentConditions)
               PROVE  CondHolds(c, env, pt) <=> CondHolds(c, env, qt)
    OBVIOUS
  <2>1. c \in Condition
    BY <1>2, FormsAre
  <2>2. name \notin DependentMentions
    BY DEF Removes, Removable, Unmentioned
  <2>3. name \notin CondMentions(c)
    BY <2>2, OtherMentionsIs DEF UsedBy
  <2>4. CondMentions(c) \subseteq Vars
    BY <2>1, ConditionIs, SideTyped DEF CondMentions, Mentions
  <2> QED
    BY <1>1, <2>1, <2>3, <2>4, CondAgree
<1>10. InBounds(env, pt) <=> InBounds(env, qt)' /\ InItsRange(name, env, x)
  BY <1>1, <1>2, <1>3, InBoundsIs DEF InItsRange
<1>11. (\A c \in Range(pending) : CondHolds(c, env, pt))
       /\ (\A c \in Range(pending) : CondHolds(c, env, qt))
  BY <1>2, ShortRange
<1>12. pending' = pending /\ dependentConditions' = dependentConditions
  BY DEF Removes
<1>13. IsPoint(env, pt) <=> IsPoint(env, qt)' /\ InItsRange(name, env, x)
  BY <1>1, <1>4, <1>7, <1>8, <1>9, <1>10, <1>11, <1>12 DEF IsPoint
<1>14. IsPoint(env, qt)' => fits
  BY <1>7 DEF IsPoint
<1> QED
  BY <1>4, <1>13, <1>14 DEF pt

(* The accesses do not depend on the value of the binding.                 *)
LEMMA RemovedAccess ==
  ASSUME DataInv, NEW name \in Vars, name \notin BodyMentions, NEW i \in DOMAIN body,
         NEW env \in Env, NEW qt \in Valuations, NEW x \in Int
  PROVE  /\ Makes(body, env, Moved(qt, name, x), i) <=> Makes(body, env, qt, i)
         /\ Key(body, <<Moved(qt, name, x), i>>, env) = Key(body, <<qt, i>>, env)
<1> DEFINE pt == Moved(qt, name, x)
<1>1. pt \in Valuations /\ \A w \in Vars \ {name} : pt[w] = qt[w]
  BY MovedIs
<1>2. body \in Conjuncts
  BY DEF DataInv, Fields
<1>3. body[i].guard \in Seq(Condition) /\ body[i].index \in Term
      /\ \A k \in DOMAIN body[i].guard : body[i].guard[k] \in Condition
  BY <1>2, ConjunctIs
<1>4. ~UsedAt(body, i, name)
  BY BodyMentionsIs
<1> HIDE DEF pt
<1>5. ASSUME NEW k \in DOMAIN body[i].guard
      PROVE  CondHolds(body[i].guard[k], env, pt) <=> CondHolds(body[i].guard[k], env, qt)
  <2>1. body[i].guard[k] \in Condition /\ name \notin CondMentions(body[i].guard[k])
    BY <1>3, <1>4 DEF UsedAt
  <2>2. CondMentions(body[i].guard[k]) \subseteq Vars
    BY <2>1, ConditionIs, SideTyped DEF CondMentions, Mentions
  <2> QED
    BY <1>1, <2>1, <2>2, CondAgree
<1>6. TermValue(body[i].index, env, pt) = TermValue(body[i].index, env, qt)
  <2>1. body[i].index.coef[name] = 0
    BY <1>3, <1>4, TermIsSide DEF UsedAt
  <2>2. \A v \in Vars : body[i].index.coef[v] # 0 => pt[v] = qt[v]
    BY <1>1, <2>1
  <2> QED
    BY <1>1, <1>3, <2>2, TermAgree
<1>7. Makes(body, env, pt, i) <=> Makes(body, env, qt, i)
  BY <1>5 DEF Makes
<1>8. Key(body, <<pt, i>>, env) = Key(body, <<qt, i>>, env)
  BY <1>6 DEF Key
<1> QED
  BY <1>7, <1>8 DEF pt

(* An access with no value for the binding stands for one with each value  *)
(* in its range.                                                           *)
Removing(name) ==
  MeaningInv /\ name \in Vars /\ Removes(name) /\ FewBounds(name) /\ Decided(name)

LEMMA RemovedUp ==
  ASSUME Unbounded, NEW name, Removing(name), NEW env \in Env,
         NEW b \in Accesses(body', CurrentPoints(env)', env), NEW x \in Int
  PROVE  /\ InItsRange(name, env, x) =>
              /\ MovedAccess(b, name, x) \in Accesses(body, CurrentPoints(env), env)
              /\ MovedAccess(b, name, x)[1][name] = x
         /\ Key(body, MovedAccess(b, name, x), env) = Key(body', b, env)
         /\ MovedAccess(MovedAccess(b, name, x), name, 0) = b
         /\ \E y \in Int : InItsRange(name, env, y)
<1> DEFINE qt == b[1]
           i == b[2]
           pt == Moved(qt, name, x)
<1>1. (b \in (CurrentPoints(env)') \X DOMAIN body') /\ Makes(body', env, b[1], b[2])
  BY AccessIs
<1>2. b = <<qt, i>> /\ (qt \in CurrentPoints(env)') /\ i \in DOMAIN body' /\ Makes(body', env, qt, i)
  BY <1>1
<1>3. /\ name \in Vars /\ body' = body /\ MeaningInv /\ DataInv /\ name \notin BodyMentions
      /\ name \in bindings /\ bindings' = bindings \ {name}
      /\ Removes(name) /\ FewBounds(name) /\ Decided(name)
  BY DEF Removing, MeaningInv, Removes, Removable, Unmentioned, DataInv, Staged, Forget
<1> HIDE DEF qt, i
<1>4. IsPoint(env, qt)'
  BY <1>2, PointIsNext
<1>5. qt \in Valuations /\ qt[name] = 0
  BY <1>3, <1>4 DEF IsPoint
<1>6. /\ IsPoint(env, pt) <=> IsPoint(env, qt)' /\ InItsRange(name, env, x)
      /\ \E y \in Int : InItsRange(name, env, y)
  BY <1>3, <1>4, <1>5, RemovedPoint
<1>7. /\ Makes(body, env, pt, i) <=> Makes(body, env, qt, i)
      /\ Key(body, <<pt, i>>, env) = Key(body, <<qt, i>>, env)
  BY <1>2, <1>3, <1>5, RemovedAccess
<1>8. Moved(pt, name, 0) = qt /\ pt[name] = x
  BY <1>3, <1>5 DEF Moved, Valuations
<1> HIDE DEF pt
<1>9. MovedAccess(b, name, x) = <<pt, i>>
  BY DEF MovedAccess, pt, qt, i
<1>10. InItsRange(name, env, x) => <<pt, i>> \in Accesses(body, CurrentPoints(env), env)
  <2> SUFFICES ASSUME InItsRange(name, env, x)
               PROVE  <<pt, i>> \in Accesses(body, CurrentPoints(env), env)
    OBVIOUS
  <2>1. pt \in CurrentPoints(env)
    BY <1>4, <1>6, PointIs
  <2> QED
    BY <1>2, <1>3, <1>7, <2>1, AccessIs
<1>11. MovedAccess(<<pt, i>>, name, 0) = b
  BY <1>2, <1>8 DEF MovedAccess
<1> QED
  BY <1>2, <1>3, <1>6, <1>7, <1>8, <1>9, <1>10, <1>11

LEMMA RemovedDown ==
  ASSUME Unbounded, NEW name, Removing(name), NEW env \in Env,
         NEW a \in Accesses(body, CurrentPoints(env), env)
  PROVE  /\ a[1][name] \in Int /\ InItsRange(name, env, a[1][name])
         /\ MovedAccess(a, name, 0) \in Accesses(body', CurrentPoints(env)', env)
         /\ Key(body', MovedAccess(a, name, 0), env) = Key(body, a, env)
         /\ MovedAccess(MovedAccess(a, name, 0), name, a[1][name]) = a
<1> DEFINE pt == a[1]
           i == a[2]
           x == pt[name]
           qt == Moved(pt, name, 0)
<1>1. a \in CurrentPoints(env) \X DOMAIN body /\ Makes(body, env, a[1], a[2])
  BY AccessIs
<1>2. a = <<pt, i>> /\ pt \in CurrentPoints(env) /\ i \in DOMAIN body /\ Makes(body, env, pt, i)
  BY <1>1
<1>3. /\ name \in Vars /\ body' = body /\ MeaningInv /\ DataInv /\ name \notin BodyMentions
      /\ Removes(name) /\ FewBounds(name) /\ Decided(name)
  BY DEF Removing, MeaningInv, Removes, Removable, Unmentioned
<1> HIDE DEF pt, i
<1>4. IsPoint(env, pt)
  BY <1>2, PointIs
<1>5. pt \in Valuations /\ x \in Int
  BY <1>3, <1>4 DEF IsPoint, Valuations
<1>6. qt \in Valuations /\ qt[name] = 0
  BY <1>3, <1>5, MovedIs
<1>7. Moved(qt, name, x) = pt
  BY <1>3, <1>5 DEF Moved, Valuations
<1> HIDE DEF qt
<1>8. IsPoint(env, qt)' /\ InItsRange(name, env, x)
  <2>1. IsPoint(env, Moved(qt, name, x)) <=> IsPoint(env, qt)' /\ InItsRange(name, env, x)
    BY <1>3, <1>5, <1>6, RemovedPoint
  <2> QED
    BY <1>4, <1>7, <2>1
<1>9. qt \in CurrentPoints(env)'
  BY <1>8, PointIsNext
<1>10. /\ Makes(body, env, pt, i) <=> Makes(body, env, qt, i)
       /\ Key(body, <<pt, i>>, env) = Key(body, <<qt, i>>, env)
  BY <1>2, <1>3, <1>5, <1>6, <1>7, RemovedAccess
<1>11. MovedAccess(a, name, 0) = <<qt, i>>
  BY DEF MovedAccess, pt, qt, i
<1>12. <<qt, i>> \in Accesses(body', CurrentPoints(env)', env)
  BY <1>2, <1>3, <1>9, <1>10, AccessIs
<1>13. MovedAccess(<<qt, i>>, name, x) = a
  BY <1>2, <1>7 DEF MovedAccess
<1> QED
  BY <1>2, <1>3, <1>5, <1>8, <1>10, <1>11, <1>12, <1>13 DEF pt

(* A Starall makes each access of them as often as there are values.       *)
LEMMA RemovedCount ==
  ASSUME Unbounded, NEW name, Removing(name), BothExact(name), NEW env \in Env, NEW key,
         IsFiniteSet(Keyed(body, Accesses(body, CurrentPoints(env), env), env, key))
  PROVE  LET max == maxBound(name).bound[env]
             min == minBound(name).bound[env]
             KA == Keyed(body, Accesses(body, CurrentPoints(env), env), env, key)
             KB == Keyed(body', Accesses(body', CurrentPoints(env)', env), env, key)
         IN /\ max \in Int /\ min \in Int
            /\ IsFiniteSet(KB)
            /\ KA # {} => Cardinality(KA) = (1 + max - min) * Cardinality(KB)
<1> DEFINE max == maxBound(name).bound[env]
           min == minBound(name).bound[env]
           A == Accesses(body, CurrentPoints(env), env)
           B == Accesses(body', CurrentPoints(env)', env)
           KA == Keyed(body, A, env, key)
           KB == Keyed(body', B, env, key)
           down == [a \in KA |-> MovedAccess(a, name, 0)]
           f == [a \in KA |-> <<a[1][name], MovedAccess(a, name, 0)>>]
           g == [p \in (min .. max) \X KB |-> MovedAccess(p[2], name, p[1])]
<1>1. /\ max \in Int /\ min \in Int
      /\ \A x \in Int : InItsRange(name, env, x) <=> min <= x /\ x <= max
  BY RangeOfRemoved DEF Removing, MeaningInv, Removes
<1>2. \A a \in A : /\ a[1][name] \in min .. max
                   /\ MovedAccess(a, name, 0) \in B
                   /\ Key(body', MovedAccess(a, name, 0), env) = Key(body, a, env)
                   /\ MovedAccess(MovedAccess(a, name, 0), name, a[1][name]) = a
  BY <1>1, RemovedDown
<1>3. \A b \in B, x \in min .. max :
        /\ MovedAccess(b, name, x) \in A
        /\ MovedAccess(b, name, x)[1][name] = x
        /\ Key(body, MovedAccess(b, name, x), env) = Key(body', b, env)
        /\ MovedAccess(MovedAccess(b, name, x), name, 0) = b
  BY <1>1, RemovedUp
<1>4. \A b \in B : min .. max # {}
  <2> SUFFICES ASSUME NEW b \in B PROVE min .. max # {}
    OBVIOUS
  <2>1. 0 \in Int
    OBVIOUS
  <2>2. \E y \in Int : InItsRange(name, env, y)
    BY <2>1, RemovedUp
  <2> QED
    BY <1>1, <2>2
<1> HIDE DEF max, min, A, B
<1>5. \A a \in KA : /\ a[1][name] \in min .. max
                    /\ MovedAccess(a, name, 0) \in KB
                    /\ MovedAccess(MovedAccess(a, name, 0), name, a[1][name]) = a
  BY <1>2 DEF Keyed
<1>6. \A b \in KB, x \in min .. max :
        /\ MovedAccess(b, name, x) \in KA
        /\ MovedAccess(b, name, x)[1][name] = x
        /\ MovedAccess(MovedAccess(b, name, x), name, 0) = b
  BY <1>3 DEF Keyed
<1>7. \A b \in KB : min .. max # {}
  BY <1>4 DEF Keyed
<1>8. IsFiniteSet(KA)
  BY DEF A
<1> HIDE DEF KA, KB
<1>9. IsFiniteSet(KB)
  <2>1. down \in [KA -> KB]
    BY <1>5
  <2>2. \A b \in KB : \E a \in KA : down[a] = b
    BY <1>6, <1>7
  <2>3. down \in Surjection(KA, KB)
    BY <2>1, <2>2 DEF Surjection
  <2> QED
    BY <1>8, <2>3, FS_Surjection
<1>10. ASSUME KA # {} PROVE Cardinality(KA) = (1 + max - min) * Cardinality(KB)
  <2> DEFINE P == (min .. max) \X KB
  <2>1. f \in [KA -> P] /\ g \in [P -> KA]
    BY <1>5, <1>6
  <2>2. \A a \in KA : g[f[a]] = a
    BY <1>5
  <2>3. \A p \in P : f[g[p]] = p
    <3> SUFFICES ASSUME NEW p \in P PROVE f[g[p]] = p
      OBVIOUS
    <3>1. p = <<p[1], p[2]>> /\ p[1] \in min .. max /\ p[2] \in KB
      OBVIOUS
    <3>2. g[p] = MovedAccess(p[2], name, p[1]) /\ g[p] \in KA
      BY <2>1
    <3> QED
      BY <1>6, <3>1, <3>2
  <2> HIDE DEF f, g, P
  <2>4. Cardinality(P) = Cardinality(KA)
    BY <1>8, <2>1, <2>2, <2>3, Correspond
  <2>5. IsFiniteSet(min .. max)
        /\ Cardinality(min .. max) = IF min > max THEN 0 ELSE max - min + 1
    BY <1>1, FS_Interval
  <2>6. Cardinality(P) = Cardinality(min .. max) * Cardinality(KB)
    BY <1>9, <2>5, FS_Product DEF P
  <2>7. min <= max
    BY <1>1, <1>5, <1>10
  <2>8. Cardinality(min .. max) = 1 + max - min
    BY <1>1, <2>5, <2>7
  <2> QED
    BY <2>4, <2>6, <2>8
<1> QED
  BY <1>1, <1>9, <1>10 DEF max, min, A, B, KA, KB

LEMMA MeaningRemoved ==
  ASSUME Unbounded, MeaningInv, Ordinary, RemoveIndependent
  PROVE  AllSplit' /\ Faithful'
<1>1. PICK name \in visit : Removes(name)
  BY RemovesOne
<1>2. /\ quantifier \in Quantifiers /\ name \in Vars /\ scale \in Expr
      /\ quantifier' = quantifier /\ pending' = pending /\ Removable(name) /\ Unmentioned(name)
  BY <1>1 DEF MeaningInv, DataInv, Fields, Removes, Removable
<1>3. Removing(name)
  BY <1>1, <1>2 DEF Ordinary, Removing, Removes
<1>4. quantifier.kind \in {"forall", "starall"}
  BY <1>2, QuantifiersAssumption
<1>5. AllSplit'
  BY <1>2 DEF MeaningInv, AllSplit
<1>6. ASSUME NEW env \in Env
      PROVE  /\ CurrentMeaning(env)' = CurrentMeaning(env)
             /\ quantifier.kind = "starall" => \A key :
                  IsFiniteSet(Keyed(body', Accesses(body', CurrentPoints(env)', env), env, key))
  <2> DEFINE A == Accesses(body, CurrentPoints(env), env)
             B == Accesses(body', CurrentPoints(env)', env)
             max == maxBound(name).bound[env]
             min == minBound(name).bound[env]
  <2>1. \A a \in A : \E b \in B : Key(body', b, env) = Key(body, a, env)
    BY <1>3, RemovedDown
  <2>2. \A b \in B : \E a \in A : Key(body, a, env) = Key(body', b, env)
    <3> SUFFICES ASSUME NEW b \in B PROVE \E a \in A : Key(body, a, env) = Key(body', b, env)
      OBVIOUS
    <3>1. 0 \in Int
      OBVIOUS
    <3>2. PICK x \in Int : InItsRange(name, env, x)
      BY <1>3, <3>1, RemovedUp
    <3> QED
      BY <1>3, <3>2, RemovedUp
  <2>3. quantifier.kind = "starall" =>
          /\ max \in Int /\ min \in Int
          /\ \A key : /\ IsFiniteSet(Keyed(body, A, env, key))
                      /\ IsFiniteSet(Keyed(body', B, env, key))
                      /\ Keyed(body, A, env, key) # {} =>
                           Cardinality(Keyed(body, A, env, key))
                             = (1 + max - min) * Cardinality(Keyed(body', B, env, key))
    <3> SUFFICES ASSUME quantifier.kind = "starall", NEW key
                 PROVE  /\ max \in Int /\ min \in Int
                        /\ IsFiniteSet(Keyed(body, A, env, key))
                        /\ IsFiniteSet(Keyed(body', B, env, key))
                        /\ Keyed(body, A, env, key) # {} =>
                             Cardinality(Keyed(body, A, env, key))
                               = (1 + max - min) * Cardinality(Keyed(body', B, env, key))
      OBVIOUS
    <3>1. BothExact(name)
      BY <1>2 DEF Removable, BothExact
    <3>2. IsFiniteSet(Keyed(body, A, env, key))
      BY DEF MeaningInv, Faithful, Counted
    <3> QED
      BY <1>3, <3>1, <3>2, RemovedCount
  <2>4. quantifier.kind = "starall" => scale'[env] = (1 + max - min) * scale[env]
    BY <1>1 DEF Removes
  <2>5. scale[env] \in Int
    BY <1>2 DEF Expr
  <2>6. quantifier.kind # "starall" => scale' = scale
    BY <1>1 DEF Removes
  <2>7. A = Accesses(body, CurrentPoints(env), env) /\ B = Accesses(body', CurrentPoints(env)', env)
    OBVIOUS
  <2> HIDE DEF A, B, max, min
  <2>8. quantifier.kind # "forall" =>
          \A a \in A : scale[env] * Cardinality(Keyed(body, A, env, Key(body, a, env)))
                         = scale'[env] * Cardinality(Keyed(body', B, env, Key(body, a, env)))
    <3> SUFFICES ASSUME quantifier.kind = "starall", NEW a \in A
                 PROVE  scale[env] * Cardinality(Keyed(body, A, env, Key(body, a, env)))
                          = scale'[env] * Cardinality(Keyed(body', B, env, Key(body, a, env)))
      BY <1>4
    <3> DEFINE KA == Keyed(body, A, env, Key(body, a, env))
               KB == Keyed(body', B, env, Key(body, a, env))
               s == scale[env]
               d == 1 + max - min
               n == Cardinality(KB)
    <3>1. a \in KA
      BY DEF Keyed
    <3>2. IsFiniteSet(KB) /\ Cardinality(KA) = d * n /\ max \in Int /\ min \in Int
      BY <2>3, <3>1
    <3>3. n \in Int /\ d \in Int /\ s \in Int
      BY <2>5, <3>2, FS_CardinalityType
    <3>4. scale'[env] = d * s
      BY <2>4
    <3> HIDE DEF KA, KB, s, d, n
    <3>5. s * (d * n) = (d * s) * n
      BY <3>3
    <3> QED
      BY <3>2, <3>4, <3>5 DEF KA, KB, s, n
  <2>9. MeaningOf(quantifier.kind, body, scale[env], CurrentPoints(env), env)
          = MeaningOf(quantifier.kind, body', scale'[env], CurrentPoints(env)', env)
    BY <2>1, <2>2, <2>7, <2>8, MeaningsEqual
  <2>10. CurrentMeaning(env)' = CurrentMeaning(env)
    BY <1>2, <2>9, MeaningIs DEF Meant
  <2> QED
    BY <2>3, <2>7, <2>10
<1>7. SameMeaning'
  BY <1>2, <1>6 DEF MeaningInv, Faithful, SameMeaning
<1>8. Counted'
  BY <1>2, <1>6 DEF Counted
<1> QED
  BY <1>5, <1>7, <1>8 DEF Faithful

LEMMA MeaningKeeps ==
  ASSUME Unbounded, Merged, SelectsSplit, MeaningInv, Ordinary, [Next]_vars
  PROVE  MeaningInv'
<1>1. DataInv'
  BY DataKeeps DEF MeaningInv
<1>2. AllSplit' /\ Faithful'
  <2>1. CASE UNCHANGED vars
    <3>1. \A env \in Env, pt \in Valuations : IsPoint(env, pt)' <=> IsPoint(env, pt)
      BY <2>1 DEF vars, IsPoint, InBounds
    <3>2. Faithful'
      BY <2>1, <3>1, FaithfulKept DEF MeaningInv, vars
    <3> QED
      BY <2>1, <3>2 DEF MeaningInv, AllSplit, vars
  <2>2. CASE setData
    BY <2>2, MeaningSet
  <2>3. CASE SplitSelect
    BY <2>3, MeaningSplitSelect
  <2>4. CASE AddBound
    BY <2>4, MeaningAddBound
  <2>5. CASE KeepDependent
    BY <2>5, MeaningKept
  <2>6. CASE AddRange
    BY <2>6, MeaningAddRange
  <2>7. CASE SplitRange
    BY <2>7, MeaningSplitRange
  <2>8. CASE EndBounds \/ KeepBinding \/ EndIndependent \/ EndSingle
    BY <2>8, MeaningMovesOn
  <2>9. CASE RemoveIndependent
    BY <2>9, MeaningRemoved
  <2>10. CASE SubstituteSingle
    BY <2>10, MeaningSubstitute
  <2> QED
    BY <2>1, <2>2, <2>3, <2>4, <2>5, <2>6, <2>7, <2>8, <2>9, <2>10 DEF Next
<1> QED
  BY <1>1, <1>2 DEF MeaningInv

(* Extremes of at most two bounds that are called exact are.               *)
LEMMA ExtremesAreExact ==
  ASSUME DataInv, Ordinary
  PROVE  ExactExtremes
<1> SUFFICES ASSUME stage = "independent", NEW v \in visit, NEW maximizing \in BOOLEAN, Unmentioned(v)
             PROVE  LET bounds == IF maximizing THEN upperBounds[v] ELSE lowerBounds[v]
                        extreme == extremes(bounds, maximizing)
                    IN (bounds # <<>> /\ extreme.exact) =>
                         \A env \in Env, i \in DOMAIN bounds :
                           IF maximizing THEN extreme.bound[env] <= bounds[i][env]
                                         ELSE extreme.bound[env] >= bounds[i][env]
  BY DEF ExactExtremes
<1> DEFINE bounds == IF maximizing THEN upperBounds[v] ELSE lowerBounds[v]
<1>1. bounds \in Seq(Expr) /\ Len(bounds) <= 2
  <2>1. v \in Vars /\ lowerBounds[v] \in Seq(Expr) /\ upperBounds[v] \in Seq(Expr)
    BY DEF DataInv, Fields, BoundsTyped, Tables
  <2> QED
    BY <2>1 DEF Ordinary, FewBounds
<1> HIDE DEF bounds
<1>2. bounds # <<>> => IsExtreme(extremes(bounds, maximizing), bounds, maximizing)
  BY <1>1, FewExtremes DEF Lists
<1>3. (bounds # <<>> /\ extremes(bounds, maximizing).exact) =>
        \A env \in Env, i \in DOMAIN bounds :
          IF maximizing THEN extremes(bounds, maximizing).bound[env] <= bounds[i][env]
                        ELSE extremes(bounds, maximizing).bound[env] >= bounds[i][env]
  BY <1>2 DEF IsExtreme
<1> QED
  BY <1>3 DEF bounds

(* The data of RewriteQuantifierData stand for the original quantifier at  *)
(* every step, so that result() returns an equivalent one: for every       *)
(* number of bindings, which range over all integers, and every set of     *)
(* quantifiers of which toOneImplies keeps every conjunct, whose Selects   *)
(* are extremes, and of which a Starall accesses no location infinitely    *)
(* often, as long as each binding that is a candidate for removal has at   *)
(* most two bounds of a kind and, where the checker cannot compare them,   *)
(* is never without a value.                                               *)
THEOREM QuantifierStaysSame ==
  ASSUME Unbounded, Merged, SelectsSplit, Countable
  PROVE  Spec /\ []Ordinary => []QuantifierIsKept
<1>1. Init => MeaningInv
  BY MeaningStarts
<1>2. MeaningInv /\ Ordinary /\ [Next]_vars => MeaningInv'
  BY MeaningKeeps
<1>3. MeaningInv /\ Ordinary => QuantifierIsKept
  BY DataInvShows, ExtremesAreExact DEF MeaningInv, Faithful, QuantifierIsKept
<1> QED
  BY <1>1, <1>2, <1>3, PTL DEF Spec
=============================================================================
