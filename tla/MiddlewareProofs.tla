-------------------------- MODULE MiddlewareProofs --------------------------
(***************************************************************************)
(* Proofs about the middlewares, for any two lists of them and any choice  *)
(* of those that throw: the list which the main thread and the shutdown    *)
(* hook share is right at every moment, and the main thread uninstalls in  *)
(* reverse order.                                                          *)
(*                                                                         *)
(* The argument.  What is installed was installed in the order of the two  *)
(* lists, so that the list never holds a middleware twice (InOrder), and   *)
(* how far it can reach is told by where the main thread is (Reach): the   *)
(* middleware about to be installed is beyond everything on the list, and  *)
(* when the main thread unwinds without an exception nothing is beyond the *)
(* one about to be uninstalled.  The hook empties the list at any time,    *)
(* and what is pushed after that is in order again.                        *)
(***************************************************************************)
EXTENDS Middleware, SequenceTheorems, TLAPS

(* The place of a middleware in the order of installation.                 *)
Order == Outer \o Inner
Position(m) == CHOOSE i \in DOMAIN Order : Order[i] = m

InOrder ==
  \A i, j \in DOMAIN installed :
    i < j => Position(installed[j]) < Position(installed[i])

(* No middleware that is installed is beyond the n-th.                     *)
Within(n) == \A i \in DOMAIN installed : Position(installed[i]) <= n

Reach ==
  /\ phase = "install" => next >= 1
  /\ level = 1 /\ phase = "install" => Within(next - 1)
  /\ level = 2 /\ phase = "install" => Within(Len(Outer) + next - 1)
  /\ level = 2 /\ phase = "unwind" => Within(Len(Outer) + next)
  /\ level = 1 /\ phase = "body" /\ thrown = "none" => Within(Len(Outer))
  /\ level = 1 /\ phase = "unwind" /\ thrown = "none" => Within(next)
  /\ phase = "exit" /\ thrown = "none" => installed = <<>>

Inv == TypeOK /\ NeverForgotten /\ InOrder /\ Reach

-----------------------------------------------------------------------------
(* A middleware has one place in the order, and the one that the main      *)
(* thread turns to has the place its `using' and its index say.            *)

LEMMA OrderFacts ==
  /\ Len(Outer) \in Nat /\ Len(Inner) \in Nat
  /\ DOMAIN Order = 1 .. Len(Outer) + Len(Inner)
  /\ \A i \in 1 .. Len(Outer) : Order[i] = Outer[i]
  /\ \A i \in 1 .. Len(Inner) : Order[Len(Outer) + i] = Inner[i]
BY SequencesAssumption DEF Order

LEMMA PositionFacts ==
  /\ \A i \in DOMAIN Order : Position(Order[i]) = i
  /\ \A m \in Middlewares : Position(m) \in DOMAIN Order /\ Order[Position(m)] = m
<1>1. \A m \in Middlewares : \E i \in DOMAIN Order : Order[i] = m
  <2> SUFFICES ASSUME NEW m \in Middlewares
               PROVE  \E i \in DOMAIN Order : Order[i] = m
    OBVIOUS
  <2>1. CASE m \in Range(Outer)
    <3>1. PICK i \in 1 .. Len(Outer) : Outer[i] = m
      BY <2>1, SequencesAssumption DEF Range
    <3> QED
      BY <3>1, OrderFacts
  <2>2. CASE m \in Range(Inner)
    <3>1. PICK i \in 1 .. Len(Inner) : Inner[i] = m
      BY <2>2, SequencesAssumption DEF Range
    <3>2. Len(Outer) + i \in DOMAIN Order
      BY OrderFacts
    <3> QED
      BY <3>1, <3>2, OrderFacts
  <2> QED
    BY <2>1, <2>2 DEF Middlewares
<1>2. \A m \in Middlewares : Position(m) \in DOMAIN Order /\ Order[Position(m)] = m
  BY <1>1 DEF Position
<1>3. ASSUME NEW i \in DOMAIN Order PROVE Position(Order[i]) = i
  <2>1. Position(Order[i]) \in DOMAIN Order /\ Order[Position(Order[i])] = Order[i]
    BY DEF Position
  <2> QED
    BY <2>1, DistinctAssumption DEF IsInjective, Order
<1> QED
  BY <1>2, <1>3

(* How many middlewares come before those of the `using' at hand.          *)
Base == IF level = 1 THEN 0 ELSE Len(Outer)

LEMMA TurnsTo ==
  ASSUME TypeOK, next \in 1 .. Len(middlewares)
  PROVE  /\ middlewares[next] \in Middlewares
         /\ Position(middlewares[next]) = Base + next
         /\ Base \in Nat /\ Base + next \in Nat
<1>1. CASE level = 1
  <2>1. next \in DOMAIN Order /\ Order[next] = Outer[next]
    BY <1>1, OrderFacts DEF middlewares
  <2> QED
    BY <1>1, <2>1, PositionFacts, SequencesAssumption DEF middlewares, Base
<1>2. CASE level = 2
  <2>1. Len(Outer) + next \in DOMAIN Order /\ Order[Len(Outer) + next] = Inner[next]
    BY <1>2, OrderFacts DEF middlewares
  <2>2. middlewares = Inner /\ Base = Len(Outer) /\ next \in Nat
    BY <1>2 DEF middlewares, Base, TypeOK
  <2>3. Position(middlewares[next]) = Base + next
    BY <2>1, <2>2, PositionFacts
  <2>4. middlewares[next] \in Middlewares
    BY <2>2, SequencesAssumption
  <2> QED
    BY <2>2, <2>3, <2>4, OrderFacts
<1> QED
  BY <1>1, <1>2 DEF TypeOK

-----------------------------------------------------------------------------
(* The list: what a push adds, a pop takes away, and no name occurs twice. *)

LEMMA Push ==
  ASSUME NEW s \in Seq(Middlewares), NEW m \in Middlewares
  PROVE  /\ <<m>> \o s \in Seq(Middlewares)
         /\ Len(<<m>> \o s) = Len(s) + 1
         /\ (<<m>> \o s)[1] = m
         /\ \A i \in 2 .. Len(s) + 1 : (<<m>> \o s)[i] = s[i - 1]
         /\ Range(<<m>> \o s) = Range(s) \cup {m}
<1> DEFINE t == <<m>> \o s
<1>1. /\ t \in Seq(Middlewares) /\ Len(t) = Len(s) + 1 /\ t[1] = m
      /\ \A i \in 2 .. Len(s) + 1 : t[i] = s[i - 1]
  OBVIOUS
<1> HIDE DEF t
<1>2. Range(t) \subseteq Range(s) \cup {m}
  <2> SUFFICES ASSUME NEW i \in 1 .. Len(t) PROVE t[i] \in Range(s) \cup {m}
    BY <1>1 DEF Range
  <2>1. CASE i = 1
    BY <2>1, <1>1
  <2>2. CASE i # 1
    BY <2>2, <1>1 DEF Range
  <2> QED
    BY <2>1, <2>2
<1>3. Range(s) \subseteq Range(t)
  <2> SUFFICES ASSUME NEW i \in 1 .. Len(s) PROVE s[i] \in Range(t)
    BY DEF Range
  <2>1. i + 1 \in 1 .. Len(t) /\ t[i + 1] = s[i]
    BY <1>1
  <2>2. DOMAIN t = 1 .. Len(t)
    BY <1>1
  <2> QED
    BY <2>1, <2>2 DEF Range
<1>4. m \in Range(t)
  BY <1>1 DEF Range
<1> QED
  BY <1>1, <1>2, <1>3, <1>4 DEF t

LEMMA Pop ==
  ASSUME TypeOK, InOrder, installed # <<>>
  PROVE  /\ Head(installed) = installed[1] /\ 1 \in DOMAIN installed
         /\ Tail(installed) \in Seq(Middlewares)
         /\ Len(Tail(installed)) = Len(installed) - 1
         /\ \A i \in 1 .. Len(installed) - 1 : Tail(installed)[i] = installed[i + 1]
         /\ Range(Tail(installed)) = Range(installed) \ {Head(installed)}
<1> DEFINE t == Tail(installed)
<1>0. installed \in Seq(Middlewares)
  BY DEF TypeOK
<1>1. /\ Head(installed) = installed[1] /\ Len(installed) \in Nat \ {0}
      /\ t \in Seq(Middlewares) /\ Len(t) = Len(installed) - 1
      /\ \A i \in 1 .. Len(installed) - 1 : t[i] = installed[i + 1]
  BY <1>0
<1> HIDE DEF t
<1>2. \A i \in 1 .. Len(t) : t[i] \in Range(installed) \ {Head(installed)}
  <2> SUFFICES ASSUME NEW i \in 1 .. Len(t)
               PROVE  t[i] \in Range(installed) /\ t[i] # installed[1]
    BY <1>1
  <2>1. t[i] = installed[i + 1] /\ i + 1 \in DOMAIN installed /\ 1 \in DOMAIN installed
    BY <1>0, <1>1
  <2>2. Position(installed[i + 1]) < Position(installed[1])
    BY <2>1, <1>0, <1>1 DEF InOrder
  <2>3. Position(installed[1]) \in Nat
    BY <2>1, <1>0, PositionFacts, OrderFacts
  <2> QED
    BY <2>1, <2>2, <2>3 DEF Range
<1>3. \A i \in 1 .. Len(installed) : installed[i] # Head(installed) => installed[i] \in Range(t)
  <2> SUFFICES ASSUME NEW i \in 1 .. Len(installed), installed[i] # installed[1]
               PROVE  installed[i] \in Range(t)
    BY <1>1
  <2>1. i - 1 \in 1 .. Len(t) /\ t[i - 1] = installed[i]
    BY <1>0, <1>1
  <2> QED
    BY <2>1, <1>1 DEF Range
<1>4. Range(t) = Range(installed) \ {Head(installed)}
  BY <1>0, <1>1, <1>2, <1>3 DEF Range
<1> QED
  BY <1>0, <1>1, <1>4 DEF t

LEMMA Positions ==
  ASSUME TypeOK
  PROVE  /\ Len(installed) \in Nat /\ DOMAIN installed = 1 .. Len(installed)
         /\ \A i \in DOMAIN installed :
              /\ installed[i] \in Middlewares
              /\ Position(installed[i]) \in 1 .. Len(Outer) + Len(Inner)
BY PositionFacts, OrderFacts DEF TypeOK
-----------------------------------------------------------------------------
(* The invariant is inductive: one lemma for each kind of step.            *)

(* What Leave asks of the list it leaves behind.                           *)
LEMMA LeaveKeepsReach ==
  ASSUME TypeOK, NEW e \in Exceptions, Leave(e),
         level = 2 /\ e \in {"none", "interrupted"} => Within(Len(Outer))',
         level = 1 /\ e = "none" => installed' = <<>>
  PROVE  /\ Reach'
         /\ level' \in 1 .. 2 /\ phase' \in {"body", "exit"} /\ thrown' \in Exceptions
         /\ next' \in 0 .. Len(middlewares') + 1
<1>1. level' = 1 /\ phase' \in {"body", "exit"} /\ next' = 0 /\ thrown' \in Exceptions
  BY DEF Leave, TypeOK, Exceptions
<1>2. next' \in 0 .. Len(middlewares') + 1
  BY <1>1, OrderFacts DEF middlewares
<1>3. level = 2 => phase' = "body" /\ (thrown' = "none" => e \in {"none", "interrupted"})
  BY DEF Leave
<1>4. level # 2 => phase' = "exit" /\ thrown' = e
  BY DEF Leave
<1>5. level \in {1, 2}
  BY DEF TypeOK
<1>6. Reach'
  BY <1>1, <1>3, <1>4, <1>5 DEF Reach
<1> QED
  BY <1>1, <1>2, <1>6

LEMMA WithinMore ==
  ASSUME TypeOK, NEW a \in Int, NEW b \in Int, a <= b, Within(a)
  PROVE  Within(b)
BY Positions DEF Within

LEMMA WithinBase ==
  ASSUME TypeOK, Reach, phase = "install" \/ (phase = "unwind" /\ (thrown = "none" \/ level = 2))
  PROVE  Within(IF phase = "install" THEN Base + next - 1 ELSE Base + next)
<1>1. next \in Int /\ level \in {1, 2}
  BY DEF TypeOK
<1>2. CASE level = 1
  <2>1. 0 + next - 1 = next - 1 /\ 0 + next = next
    BY <1>1
  <2> QED
    BY <1>2, <2>1 DEF Reach, Base
<1>3. CASE level = 2
  BY <1>3 DEF Reach, Base
<1> QED
  BY <1>1, <1>2, <1>3

LEMMA InstallStep ==
  ASSUME Inv, Install
  PROVE  Inv'
<1> DEFINE m == middlewares[next]
<1>1. phase = "install" /\ next \in 1 .. Len(middlewares) /\ hook' = hook
      /\ Len(middlewares) \in Nat
  BY OrderFacts DEF Install, Inv, TypeOK, Reach, middlewares
<1>2. m \in Middlewares /\ Position(m) = Base + next /\ Base \in Nat
  BY <1>1, TurnsTo DEF Inv
<1>3. Within(Base + next - 1)
  BY <1>1, WithinBase DEF Inv
<1>4. PICK e \in Outcomes(m) :
        IF e = "none"
          THEN /\ installed' = <<m>> \o installed
               /\ active' = active \cup {m}
               /\ next' = next + 1
               /\ UNCHANGED <<level, phase, thrown>>
          ELSE Leave(e) /\ UNCHANGED <<installed, active>>
  BY DEF Install
<1> HIDE DEF m
<1>5. CASE e = "none"
  <2>1. /\ installed' = <<m>> \o installed /\ active' = active \cup {m}
        /\ next' = next + 1 /\ UNCHANGED <<level, phase, thrown>>
    BY <1>4, <1>5
  <2>2. installed \in Seq(Middlewares)
    BY DEF Inv, TypeOK
  <2>3. /\ installed' \in Seq(Middlewares) /\ Len(installed') = Len(installed) + 1
        /\ installed'[1] = m
        /\ \A i \in 2 .. Len(installed) + 1 : installed'[i] = installed[i - 1]
        /\ Range(installed') = Range(installed) \cup {m}
    BY <2>1, <2>2, <1>2, Push
  <2>4. TypeOK'
    BY <2>1, <2>3, <1>1, <1>2 DEF Inv, TypeOK, middlewares
  <2>5. NeverForgotten'
    BY <2>1, <2>3, <1>1 DEF Inv, NeverForgotten
  <2>6. \A i \in DOMAIN installed' : i = 1 \/ (i # 1 /\ i - 1 \in DOMAIN installed
                                              /\ installed'[i] = installed[i - 1])
    BY <2>2, <2>3
  <2>7. \A i \in DOMAIN installed : Position(installed[i]) < Position(m)
                                   /\ Position(installed[i]) \in Nat
    <3> SUFFICES ASSUME NEW i \in DOMAIN installed
                 PROVE  Position(installed[i]) < Position(m) /\ Position(installed[i]) \in Nat
      OBVIOUS
    <3>1. Position(installed[i]) \in Nat
      BY Positions, OrderFacts DEF Inv
    <3>2. Position(installed[i]) <= Base + next - 1
      BY <1>3 DEF Within
    <3> QED
      BY <3>1, <3>2, <1>1, <1>2
  <2>8. InOrder'
    <3> SUFFICES ASSUME NEW i \in DOMAIN installed', NEW j \in DOMAIN installed', i < j
                 PROVE  Position(installed'[j]) < Position(installed'[i])
      BY DEF InOrder
    <3>0. i \in Nat \ {0} /\ j \in Nat \ {0}
      BY <2>3
    <3>1. j # 1 /\ j - 1 \in DOMAIN installed /\ installed'[j] = installed[j - 1]
      BY <2>6, <3>0
    <3>2. CASE i = 1
      BY <3>1, <3>2, <2>3, <2>7
    <3>3. CASE i # 1
      <4>1. i - 1 \in DOMAIN installed /\ installed'[i] = installed[i - 1] /\ i - 1 < j - 1
        BY <3>0, <3>3, <2>6
      <4> QED
        BY <4>1, <3>1 DEF Inv, InOrder
    <3> QED
      BY <3>2, <3>3
  <2>9. \A i \in DOMAIN installed' : Position(installed'[i]) <= Base + next
    <3> SUFFICES ASSUME NEW i \in DOMAIN installed'
                 PROVE  Position(installed'[i]) <= Base + next
      OBVIOUS
    <3>1. CASE i = 1
      BY <3>1, <2>3, <1>1, <1>2
    <3>2. CASE i # 1
      <4>1. Position(installed'[i]) < Position(m) /\ Position(installed'[i]) \in Nat
        BY <3>2, <2>6, <2>7
      <4> QED
        BY <4>1, <1>1, <1>2
    <3> QED
      BY <3>1, <3>2
  <2>10. Reach'
    <3>1. phase' = "install" /\ next' - 1 = next /\ next' >= 1 /\ level' = level
      BY <1>1, <2>1
    <3>2. Len(Outer) + next' - 1 = Len(Outer) + next /\ 0 + next = next
      BY <1>1, <2>1, OrderFacts
    <3> QED
      BY <2>9, <3>1, <3>2 DEF Reach, Within, Base
  <2> QED
    BY <2>4, <2>5, <2>8, <2>10 DEF Inv
<1>6. CASE e # "none"
  <2>1. Leave(e) /\ UNCHANGED <<installed, active>>
    BY <1>4, <1>6
  <2>2. e \in Exceptions /\ (e = "interrupted" => m \in Interruptible)
    BY <1>4 DEF Outcomes, Exceptions
  <2>3. level = 2 /\ e \in {"none", "interrupted"} => Within(Len(Outer))'
    <3> SUFFICES ASSUME level = 2, m \in Interruptible PROVE Within(Len(Outer))'
      BY <1>6, <2>2
    <3>1. next = 1
      BY <1>1, InterruptibleAssumption, SequencesAssumption DEF middlewares, m
    <3>2. Base + next - 1 = Len(Outer)
      BY <3>1, OrderFacts DEF Base
    <3> QED
      BY <1>3, <3>2, <2>1 DEF Within
  <2>4. Reach' /\ TypeOK'
    BY <1>6, <2>1, <2>2, <2>3, <1>1, LeaveKeepsReach DEF Inv, TypeOK
  <2> QED
    BY <2>1, <2>4, <1>1 DEF Inv, NeverForgotten, InOrder
<1> QED
  BY <1>5, <1>6
LEMMA UninstallStep ==
  ASSUME Inv, Uninstall
  PROVE  Inv'
<1> DEFINE m == middlewares[next]
<1>1. phase = "unwind" /\ next \in 1 .. Len(middlewares) /\ hook' = hook
      /\ Len(middlewares) \in Nat
  BY OrderFacts DEF Uninstall, Inv, TypeOK, middlewares
<1>2. m \in Middlewares /\ Position(m) = Base + next /\ Base \in Nat
  BY <1>1, TurnsTo DEF Inv
<1>3. thrown = "none" \/ level = 2 => Within(Base + next)
  BY <1>1, WithinBase DEF Inv
<1> HIDE DEF m
<1>4. ASSUME NEW e \in {"incorrectStructure", "emptyTail"}, Leave(e),
             UNCHANGED <<installed, active>>
      PROVE  Inv'
  <2>1. e \in Exceptions /\ e \notin {"none", "interrupted"}
    BY DEF Exceptions
  <2>2. Reach' /\ TypeOK'
    BY <1>1, <1>4, <2>1, LeaveKeepsReach DEF Inv, TypeOK
  <2> QED
    BY <1>1, <1>4, <2>2 DEF Inv, NeverForgotten, InOrder
<1>5. ASSUME installed # <<>>, ~HeadIsNot(m), NEW e \in Outcomes(m),
             installed' = Tail(installed), active' = active \ {m},
             IF e = "none"
               THEN next' = next - 1 /\ UNCHANGED <<level, phase, thrown>>
               ELSE Leave(e)
      PROVE  Inv'
  <2>1. Head(installed) = m
    BY <1>5 DEF HeadIsNot
  <2>2. /\ m = installed[1] /\ 1 \in DOMAIN installed
        /\ installed' \in Seq(Middlewares)
        /\ Len(installed') = Len(installed) - 1
        /\ \A i \in 1 .. Len(installed) - 1 : installed'[i] = installed[i + 1]
        /\ Range(installed') = Range(installed) \ {m}
    BY <1>5, <2>1, Pop DEF Inv
  <2>3. NeverForgotten'
    BY <1>1, <1>5, <2>2 DEF Inv, NeverForgotten
  <2>4. Len(installed) \in Nat /\ DOMAIN installed = 1 .. Len(installed)
        /\ DOMAIN installed' = 1 .. Len(installed) - 1
    BY <2>2 DEF Inv, TypeOK
  <2>5. InOrder'
    <3> SUFFICES ASSUME NEW i \in DOMAIN installed', NEW j \in DOMAIN installed', i < j
                 PROVE  Position(installed'[j]) < Position(installed'[i])
      BY DEF InOrder
    <3>1. i + 1 \in DOMAIN installed /\ j + 1 \in DOMAIN installed /\ i + 1 < j + 1
      BY <2>4
    <3> QED
      BY <2>2, <2>4, <3>1 DEF Inv, InOrder
  <2>6. \A i \in DOMAIN installed' : Position(installed'[i]) <= Base + next - 1
    <3> SUFFICES ASSUME NEW i \in DOMAIN installed'
                 PROVE  Position(installed'[i]) <= Base + next - 1
      OBVIOUS
    <3>1. i + 1 \in DOMAIN installed /\ 1 < i + 1 /\ installed'[i] = installed[i + 1]
      BY <2>2, <2>4
    <3>2. Position(installed[i + 1]) < Position(m)
      BY <2>2, <3>1 DEF Inv, InOrder
    <3>3. Position(installed[i + 1]) \in Int
      BY <3>1, Positions, OrderFacts DEF Inv
    <3> QED
      BY <1>1, <1>2, <3>1, <3>2, <3>3
  <2>7. CASE e = "none"
    <3>1. next' = next - 1 /\ UNCHANGED <<level, phase, thrown>>
      BY <1>5, <2>7
    <3>2. TypeOK'
      BY <1>1, <1>5, <2>2, <3>1 DEF Inv, TypeOK, middlewares
    <3>3. Reach'
      <4>1. Len(Outer) + next' = Len(Outer) + next - 1 /\ 0 + next - 1 = next'
        BY <1>1, <3>1, OrderFacts
      <4> QED
        BY <1>1, <2>6, <3>1, <4>1 DEF Reach, Within, Base
    <3> QED
      BY <2>3, <2>5, <3>2, <3>3 DEF Inv
  <2>8. CASE e # "none"
    <3>1. Leave(e)
      BY <1>5, <2>8
    <3>2. e \in Exceptions /\ (e = "interrupted" => m \in Interruptible)
      BY <1>5 DEF Outcomes, Exceptions
    <3>3. level = 2 /\ e \in {"none", "interrupted"} => Within(Len(Outer))'
      <4> SUFFICES ASSUME level = 2, m \in Interruptible PROVE Within(Len(Outer))'
        BY <2>8, <3>2
      <4>1. next = 1
        BY <1>1, InterruptibleAssumption, SequencesAssumption DEF middlewares, m
      <4>2. Base + next - 1 = Len(Outer)
        BY <4>1, OrderFacts DEF Base
      <4> QED
        BY <2>6, <4>2 DEF Within
    <3>4. Reach' /\ TypeOK'
      BY <1>1, <1>5, <2>2, <2>8, <3>1, <3>2, <3>3, LeaveKeepsReach DEF Inv, TypeOK
    <3> QED
      BY <2>3, <2>5, <3>4 DEF Inv
  <2> QED
    BY <2>7, <2>8
<1>6. IF HeadIsNot(m)
        THEN Leave("incorrectStructure") /\ UNCHANGED <<installed, active>>
        ELSE IF installed = <<>>
          THEN Leave("emptyTail") /\ UNCHANGED <<installed, active>>
          ELSE \E e \in Outcomes(m) :
                 /\ installed' = Tail(installed)
                 /\ active' = active \ {m}
                 /\ IF e = "none"
                      THEN next' = next - 1 /\ UNCHANGED <<level, phase, thrown>>
                      ELSE Leave(e)
  BY DEF Uninstall, m
<1>7. CASE HeadIsNot(m)
  BY <1>4, <1>6, <1>7
<1>8. CASE ~HeadIsNot(m) /\ installed = <<>>
  BY <1>4, <1>6, <1>8
<1>9. CASE ~HeadIsNot(m) /\ installed # <<>>
  BY <1>5, <1>6, <1>9
<1> QED
  BY <1>7, <1>8, <1>9

LEMMA EndUnwindStep ==
  ASSUME Inv, EndUnwind
  PROVE  Inv'
<1>1. phase = "unwind" /\ next = 0 /\ Leave(thrown) /\ UNCHANGED <<installed, active, hook>>
      /\ thrown \in Exceptions
  BY DEF EndUnwind, Inv, TypeOK
<1>2. level = 2 => Within(Len(Outer))'
  <2> SUFFICES ASSUME level = 2 PROVE Within(Len(Outer))'
    OBVIOUS
  <2>1. Len(Outer) + next = Len(Outer)
    BY <1>1, OrderFacts
  <2> QED
    BY <1>1, <2>1 DEF Inv, Reach, Within
<1>3. level = 1 /\ thrown = "none" => installed' = <<>>
  <2> SUFFICES ASSUME level = 1, thrown = "none" PROVE installed = <<>>
    BY <1>1
  <2>1. Within(0)
    BY <1>1 DEF Inv, Reach
  <2>2. \A i \in DOMAIN installed : FALSE
    BY <2>1, Positions, OrderFacts DEF Inv, Within
  <2> QED
    BY <2>2, Positions, EmptySeq DEF Inv, TypeOK
<1>4. Reach' /\ TypeOK'
  BY <1>1, <1>2, <1>3, LeaveKeepsReach DEF Inv, TypeOK
<1> QED
  BY <1>1, <1>4 DEF Inv, NeverForgotten, InOrder

(* The steps of the main thread that leave the list alone.                 *)
LEMMA BodySteps ==
  ASSUME Inv, EnterBody \/ CallInner \/ EndBody
  PROVE  Inv'
<1>1. UNCHANGED <<installed, active, hook>>
  BY DEF EnterBody, CallInner, EndBody
<1>2. next \in Int /\ level \in {1, 2} /\ Len(Outer) \in Nat /\ Len(Inner) \in Nat
  BY OrderFacts DEF Inv, TypeOK
<1>3. CASE EnterBody
  <2>1. phase = "install" /\ phase' = "body" /\ UNCHANGED <<level, next, thrown>>
        /\ next > Len(middlewares)
    BY <1>3 DEF EnterBody
  <2>2. level = 1 => next - 1 = Len(Outer)
    BY <1>2, <2>1 DEF Inv, TypeOK, middlewares
  <2>3. Reach' /\ TypeOK'
    BY <1>1, <2>1, <2>2 DEF Inv, TypeOK, Reach, Within, middlewares
  <2> QED
    BY <1>1, <2>3 DEF Inv, NeverForgotten, InOrder
<1>4. CASE CallInner
  <2>1. /\ phase = "body" /\ level = 1 /\ thrown = "none"
        /\ level' = 2 /\ phase' = "install" /\ next' = 1 /\ thrown' = thrown
    BY <1>4 DEF CallInner
  <2>2. Len(Outer) + 1 - 1 = Len(Outer) /\ 1 \in 0 .. Len(Inner) + 1
    BY <1>2
  <2>3. Reach' /\ TypeOK'
    BY <1>1, <2>1, <2>2 DEF Inv, TypeOK, Reach, Within, middlewares
  <2> QED
    BY <1>1, <2>3 DEF Inv, NeverForgotten, InOrder
<1>5. CASE EndBody
  <2>1. /\ phase = "body" /\ phase' = "unwind" /\ next' = Len(middlewares) /\ level' = level
        /\ level = 1 => thrown' = thrown
        /\ thrown' \in Exceptions
    BY <1>5 DEF EndBody, LastIndex, Inv, TypeOK, Exceptions
  <2>2. middlewares' = middlewares /\ Len(middlewares) \in Nat
    BY <1>2, <2>1 DEF middlewares
  <2>3. TypeOK'
    BY <1>1, <2>1, <2>2 DEF Inv, TypeOK
  <2>4. level = 2 => Within(Len(Outer) + Len(Inner))'
    BY <1>1, <1>2, Positions DEF Inv, Within
  <2>5. Reach'
    BY <1>1, <1>2, <2>1, <2>4 DEF Inv, Reach, Within, middlewares
  <2> QED
    BY <1>1, <2>3, <2>5 DEF Inv, NeverForgotten, InOrder
<1> QED
  BY <1>3, <1>4, <1>5

LEMMA HookSteps ==
  ASSUME Inv, Shutdown \/ RunHook \/ Halt
  PROVE  Inv'
<1>1. CASE Shutdown
  BY <1>1 DEF Shutdown, Inv, TypeOK, NeverForgotten, InOrder, Reach, Within, middlewares
<1>2. CASE Halt
  BY <1>2 DEF Halt, Inv, TypeOK, NeverForgotten, InOrder, Reach, Within, middlewares
<1>3. CASE RunHook
  <2>1. UNCHANGED <<level, phase, next, thrown>>
    BY <1>3 DEF RunHook
  <2>2. CASE active' = active \ Range(installed) /\ installed' = <<>> /\ hook' = "done"
    <3>1. installed' \in Seq(Middlewares) /\ DOMAIN installed' = {} /\ Range(installed') = {}
      BY <2>2 DEF Range
    <3>2. active' = {}
      BY <2>2 DEF Inv, NeverForgotten
    <3> QED
      BY <2>1, <2>2, <3>1, <3>2
      DEF Inv, TypeOK, NeverForgotten, InOrder, Reach, Within, middlewares
  <2>3. CASE active' \subseteq active /\ installed' = installed /\ hook' = "failed"
    BY <2>1, <2>3 DEF Inv, TypeOK, NeverForgotten, InOrder, Reach, Within, middlewares
  <2> QED
    BY <1>3, <2>2, <2>3 DEF RunHook, AfterFailure
<1> QED
  BY <1>1, <1>2, <1>3

THEOREM InvIsInvariant == Spec => []Inv
<1>1. Init => Inv
  <2> SUFFICES ASSUME Init PROVE Inv
    OBVIOUS
  <2>1. installed = <<>> /\ DOMAIN installed = {} /\ installed \in Seq(Middlewares)
    BY DEF Init
  <2>2. Range(installed) = {}
    BY <2>1 DEF Range
  <2> QED
    BY <2>1, <2>2, OrderFacts
    DEF Init, Inv, TypeOK, NeverForgotten, InOrder, Reach, Within, middlewares, Exceptions
<1>2. Inv /\ [Next]_vars => Inv'
  <2> SUFFICES ASSUME Inv, [Next]_vars PROVE Inv'
    OBVIOUS
  <2>1. CASE UNCHANGED vars
    BY <2>1 DEF vars, Inv, TypeOK, NeverForgotten, InOrder, Reach, Within, middlewares
  <2> QED
    BY <2>1, InstallStep, UninstallStep, EndUnwindStep, BodySteps, HookSteps
    DEF Next, MainThread
<1> QED
  BY <1>1, <1>2, PTL DEF Spec

(* The list that the main thread and the shutdown hook share is right at   *)
(* every moment: what is installed is on it, nothing else unless the hook  *)
(* has failed, and `using' leaves nothing behind when it ends normally.    *)
THEOREM ListIsAlwaysRight == Spec => []ListIsRight
<1>1. Inv => ListIsRight
  <2> SUFFICES ASSUME Inv, phase = "exit", thrown = "none", hook = "idle"
               PROVE  active = {}
    BY DEF Inv, ListIsRight, NothingLeftBehind
  <2>1. Range(installed) = {}
    BY DEF Inv, Reach, Range
  <2> QED
    BY <2>1 DEF Inv, NeverForgotten
<1> QED
  BY <1>1, InvIsInvariant, PTL

(* The main thread uninstalls in reverse order of installation.            *)
THEOREM AlwaysUninstallsInReverse == Spec => UninstallsInReverse
<1>1. ASSUME Inv, [Next]_vars
      PROVE  [hook' = hook => \A m \in active \ active' : InstalledAfter(m) \cap active = {}]_vars
  <2> SUFFICES ASSUME Next, hook' = hook, NEW m \in active, m \notin active',
                      NEW k \in InstalledAfter(m), k \in active
               PROVE  FALSE
    BY <1>1
  <2>1. Uninstall
    BY DEF Next, MainThread, Install, EnterBody, CallInner, EndBody, EndUnwind,
           Shutdown, RunHook, Halt
  <2>2. m = Head(installed) /\ installed # <<>>
    BY <2>1 DEF Uninstall, HeadIsNot
  <2>3. 1 \in DOMAIN installed /\ m = installed[1]
    BY <1>1, <2>2, Pop DEF Inv
  <2>4. PICK b \in DOMAIN installed : k = installed[b]
    BY <1>1 DEF Inv, NeverForgotten, Range
  <2>5. Position(k) <= Position(m)
    <3>1. b = 1 \/ 1 < b
      BY <1>1, <2>4, Positions DEF Inv
    <3>2. Position(k) \in Int /\ Position(m) \in Int
      BY <1>1, <2>3, <2>4, Positions, OrderFacts DEF Inv
    <3> QED
      BY <1>1, <2>3, <2>4, <3>1, <3>2 DEF Inv, InOrder
  <2>6. PICK j \in DOMAIN Order : k = Order[j] /\ \E i \in 1 .. j - 1 : Order[i] = m
    BY DEF InstalledAfter, Order
  <2>7. PICK i \in 1 .. j - 1 : Order[i] = m
    BY <2>6
  <2>8. i \in DOMAIN Order /\ i < j
    BY <2>6, <2>7, OrderFacts
  <2>9. Position(k) = j /\ Position(m) = i
    BY <2>6, <2>7, <2>8, PositionFacts
  <2> QED
    BY <2>5, <2>8, <2>9, OrderFacts
<1> QED
  BY <1>1, InvIsInvariant, PTL DEF Spec, UninstallsInReverse
=============================================================================
