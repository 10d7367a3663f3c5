------------------------- MODULE ShortestPathsProofs -------------------------
(***************************************************************************)
(* Proofs about the host and the kernel of ASSSP.cu, for every graph and   *)
(* every interleaving of the threads of a round: the kernel invariant, the *)
(* costs only fall, a round relaxes every arc against the costs it started *)
(* from, and what the host gets are the costs of cheapest paths.           *)
(*                                                                         *)
(* The last goes in three parts.  A cost is at all times that of a simple  *)
(* path, since a vertex on the path to the start of an arc already costs   *)
(* less than the way through that arc (CostsOfPaths, Backed).  After n     *)
(* rounds no path of n arcs is cheaper (NoneCheaper, by one arc a round).  *)
(* And a path of as many arcs as there are vertices visits one of them     *)
(* twice, so that leaving out the loop gives a cheaper one                 *)
(* (CanBeShortened).  The induction over the arcs of a path is done with   *)
(* sets of numbers (UpwardInduction).                                      *)
(***************************************************************************)
EXTENDS ShortestPaths, WellFoundedInduction, FiniteSetTheorems, TLAPS


(* Where the host stands.                                                  *)
HostInOrder ==
  /\ host = "kernel" => counter < graph.V - 1
  /\ host # "kernel" => \A a \in ArcSet : pc[a] = "idle"
  /\ host \in {"initContrib", "toDevice"} => host_cost = host_old_cost
  /\ ~OnDevice => \A a \in ArcSet : start_cost[a] = inf

(* Between steps of the threads a cost is 0 for the source and positive or *)
(* none for the others; a thread has read such a cost.                     *)
SoundCosts ==
  OnDevice /\ StartedRight =>
    /\ \A v \in VertexSet :
         IF v = source THEN cost_of[v] = 0 ELSE cost_of[v] = inf \/ cost_of[v] > 0
    /\ \A a \in ArcSet : start_cost[a] \in Costs

(* x is a cost at least as good as y.                                      *)
AsGood(x, y) == y # inf => x # inf /\ x <= y

(* How far the round has come: costs are as good as when it began, a       *)
(* thread that has read a cost has read one as good, and the arc of a      *)
(* thread that is done is relaxed.                                         *)
Relaxed(a) ==
  LET from == old_cost_of[graph.start[a]]
      to == cost_of[graph.end[a]]
  IN  from # inf => to # inf /\ to <= from + graph.weight[a]

RoundSoFar ==
  OnDevice /\ StartedRight =>
    /\ \A v \in VertexSet : AsGood(cost_of[v], old_cost_of[v])
    /\ \A a \in ArcSet :
         /\ pc[a] = "relax" => AsGood(start_cost[a], old_cost_of[graph.start[a]])
         /\ pc[a] = "done" => Relaxed(a)

RoundInv == TypeOK /\ HostInOrder /\ SoundCosts /\ RoundSoFar

-----------------------------------------------------------------------------
LEMMA GraphFacts ==
  ASSUME TypeOK
  PROVE  /\ graph.V \in Nat \ {0} /\ graph.A \in Nat
         /\ source \in VertexSet /\ VertexSet \subseteq Int
         /\ graph.start \in [ArcSet -> VertexSet]
         /\ graph.end \in [ArcSet -> VertexSet]
         /\ graph.weight \in [ArcSet -> Nat \ {0}]
<1>1. graph.V \in Nat /\ graph.A \in Nat /\ Graph(graph)
  BY GraphsAssumption DEF TypeOK
<1>2. graph.V \in Nat \ {0}
  BY <1>1 DEF Graph
<1>3. source \in VertexSet
  BY <1>2 DEF source, VertexSet, Vertices
<1> QED BY <1>1, <1>2, <1>3 DEF Graph, VertexSet, Vertices, ArcSet

LEMMA InitRound == Init => RoundInv
<1> SUFFICES ASSUME Init PROVE RoundInv
  OBVIOUS
<1> USE DEF Init
<1>1. PICK m \in Memories :
        /\ host_old_cost = [v \in VertexSet |-> m[v]]
        /\ host_cost = [v \in VertexSet |-> m[v]]
        /\ cost_of = [v \in VertexSet |-> m[v]]
        /\ old_cost_of = [v \in VertexSet |-> m[v]]
  OBVIOUS
<1>2. \A v \in VertexSet : m[v] \in Int
  BY MemoriesAssumption DEF VertexSet
<1>3. counter \in 0 .. graph.V - 1
  BY GraphsAssumption DEF Graph
<1>4. TypeOK
  BY <1>1, <1>2, <1>3 DEF TypeOK, HostStates, inf
<1>5. HostInOrder /\ SoundCosts /\ RoundSoFar
  BY DEF HostInOrder, SoundCosts, RoundSoFar, OnDevice
<1> QED BY <1>4, <1>5 DEF RoundInv

(* The steps of the host before the first round.                           *)
LEMMA BeforeRounds ==
  RoundInv /\ (InitCost \/ CopyOldCost \/ InitContrib) => RoundInv'
<1> SUFFICES ASSUME RoundInv, InitCost \/ CopyOldCost \/ InitContrib PROVE RoundInv'
  OBVIOUS
<1> USE DEF InitCost, CopyOldCost, InitContrib, RoundInv, deviceArrays, threads
<1>1. TypeOK'
  BY DEF TypeOK, HostStates, VertexSet, ArcSet, Unreached, inf
<1>2. HostInOrder'
  BY DEF HostInOrder, TypeOK, OnDevice, VertexSet, ArcSet
<1>3. SoundCosts' /\ RoundSoFar'
  BY DEF SoundCosts, RoundSoFar, OnDevice
<1> QED BY <1>1, <1>2, <1>3

LEMMA CopyToDeviceRound == RoundInv /\ CopyToDevice => RoundInv'
<1> SUFFICES ASSUME RoundInv, CopyToDevice PROVE RoundInv'
  OBVIOUS
<1> USE DEF CopyToDevice, RoundInv, hostArrays, threads
<1>1. TypeOK'
  BY DEF TypeOK, HostStates, VertexSet, ArcSet
<1>2. HostInOrder'
  BY DEF HostInOrder, OnDevice, ArcSet
<1>3. VertexSet' = VertexSet /\ ArcSet' = ArcSet /\ source' = source
  BY DEF VertexSet, ArcSet, source
<1>4. cost_of' = host_old_cost /\ old_cost_of' = host_old_cost
  BY DEF HostInOrder
<1>5. \A a \in ArcSet : pc[a] = "idle"
  BY DEF HostInOrder
<1>6. RoundSoFar'
  <2>1. \A v \in VertexSet : host_old_cost[v] \in Int
    BY DEF TypeOK
  <2> QED BY <1>3, <1>4, <1>5, <2>1 DEF RoundSoFar, AsGood
<1>7. SoundCosts'
  <2>1. \A a \in ArcSet : start_cost[a] \in Costs
    BY DEF HostInOrder, OnDevice, Costs
  <2>2. StartedRight' => host_old_cost = Unreached
    BY <1>3 DEF StartedRight, Unreached
  <2> QED BY <1>3, <1>4, <2>1, <2>2 DEF SoundCosts, Unreached
<1> QED BY <1>1, <1>2, <1>6, <1>7

(* A round begins and ends.                                                *)
LEMMA LaunchRoundRound == RoundInv /\ LaunchRound => RoundInv'
<1> SUFFICES ASSUME RoundInv, LaunchRound PROVE RoundInv'
  OBVIOUS
<1> USE DEF LaunchRound, RoundInv, hostArrays, deviceArrays
<1>1. VertexSet' = VertexSet /\ ArcSet' = ArcSet /\ source' = source
  BY DEF VertexSet, ArcSet, source
<1>2. TypeOK'
  BY <1>1 DEF TypeOK, HostStates
<1>3. HostInOrder'
  BY <1>1 DEF HostInOrder, OnDevice
<1>4. SoundCosts' /\ RoundSoFar'
  BY <1>1 DEF SoundCosts, RoundSoFar, OnDevice, StartedRight, Unreached
<1> QED BY <1>2, <1>3, <1>4

LEMMA EndRoundRound == RoundInv /\ EndRound => RoundInv'
<1> SUFFICES ASSUME RoundInv, EndRound PROVE RoundInv'
  OBVIOUS
<1> USE DEF EndRound, RoundInv, hostArrays
<1>1. VertexSet' = VertexSet /\ ArcSet' = ArcSet /\ source' = source
  BY DEF VertexSet, ArcSet, source
<1>2. TypeOK'
  BY <1>1, GraphFacts DEF TypeOK, HostStates, HostInOrder, inf
<1>3. HostInOrder'
  BY <1>1 DEF HostInOrder, OnDevice
<1>4. SoundCosts'
  BY <1>1 DEF SoundCosts, OnDevice, StartedRight, Unreached, Costs
<1>5. RoundSoFar'
  <2>1. \A v \in VertexSet : cost_of[v] \in Int
    BY DEF TypeOK
  <2> QED BY <1>1, <2>1 DEF RoundSoFar, AsGood
<1> QED BY <1>2, <1>3, <1>4, <1>5

LEMMA CopyToHostRound == RoundInv /\ CopyToHost => RoundInv'
<1> SUFFICES ASSUME RoundInv, CopyToHost PROVE RoundInv'
  OBVIOUS
<1> USE DEF CopyToHost, RoundInv, deviceArrays, threads
<1>1. VertexSet' = VertexSet /\ ArcSet' = ArcSet /\ source' = source
  BY DEF VertexSet, ArcSet, source
<1>2. TypeOK'
  BY <1>1 DEF TypeOK, HostStates
<1>3. HostInOrder'
  BY <1>1 DEF HostInOrder, OnDevice
<1>4. SoundCosts' /\ RoundSoFar'
  BY <1>1 DEF SoundCosts, RoundSoFar, OnDevice, StartedRight, Unreached, Relaxed
<1> QED BY <1>2, <1>3, <1>4

(* A thread reads the cost of its start, which may have fallen since the   *)
(* round began.                                                            *)
LEMMA ReadStartRound == RoundInv /\ (\E a \in ArcSet : ReadStart(a)) => RoundInv'
<1> SUFFICES ASSUME RoundInv, NEW a \in ArcSet, ReadStart(a) PROVE RoundInv'
  OBVIOUS
<1> USE DEF ReadStart, RoundInv, hostArrays, deviceArrays
<1>1. VertexSet' = VertexSet /\ ArcSet' = ArcSet /\ source' = source
  BY DEF VertexSet, ArcSet, source
<1>2. /\ graph.start[a] \in VertexSet
      /\ pc'[a] = "relax" /\ start_cost'[a] = cost_of[graph.start[a]]
      /\ \A b \in ArcSet \ {a} : pc'[b] = pc[b] /\ start_cost'[b] = start_cost[b]
  BY GraphFacts DEF TypeOK
<1>3. TypeOK'
  BY <1>1, <1>2 DEF TypeOK
<1>4. HostInOrder'
  BY <1>1, <1>2 DEF HostInOrder, OnDevice
<1>5. SoundCosts'
  <2>1. OnDevice /\ StartedRight => cost_of[graph.start[a]] \in Costs
    BY <1>2 DEF SoundCosts, Costs, TypeOK
  <2> QED BY <1>1, <1>2, <2>1 DEF SoundCosts, OnDevice, StartedRight, Unreached
<1>6. RoundSoFar'
  BY <1>1, <1>2 DEF RoundSoFar, OnDevice, StartedRight, Unreached, Relaxed
<1> QED BY <1>3, <1>4, <1>5, <1>6

(* What one relaxation does to the costs.                                  *)
LEMMA RelaxLowers ==
  ASSUME RoundInv, NEW a \in ArcSet, Relax(a), OnDevice, StartedRight
  PROVE  /\ \A v \in VertexSet : AsGood(cost_of'[v], cost_of[v])
         /\ \A v \in VertexSet :
              IF v = source THEN cost_of'[v] = 0 ELSE cost_of'[v] = inf \/ cost_of'[v] > 0
         /\ start_cost[a] # inf =>
              /\ cost_of'[graph.end[a]] # inf
              /\ cost_of'[graph.end[a]] <= start_cost[a] + graph.weight[a]
<1> DEFINE to == graph.end[a]
           w == graph.weight[a]
<1>1. to \in VertexSet /\ w \in Nat \ {0} /\ cost_of \in [VertexSet -> Int]
  BY GraphFacts DEF RoundInv, TypeOK
<1>2. /\ start_cost[a] \in Nat \cup {-1}
      /\ \A v \in VertexSet :
           IF v = source THEN cost_of[v] = 0 ELSE cost_of[v] = -1 \/ cost_of[v] > 0
  BY DEF RoundInv, SoundCosts, Costs, inf
<1>3. cost_of' = IF start_cost[a] # -1 /\ (cost_of[to] = -1 \/ start_cost[a] + w <= cost_of[to])
                 THEN [cost_of EXCEPT ![to] = start_cost[a] + w] ELSE cost_of
  BY DEF Relax, compare, inf
<1> HIDE DEF to, w
<1>4. CASE start_cost[a] # -1 /\ (cost_of[to] = -1 \/ start_cost[a] + w <= cost_of[to])
  <2>1. cost_of'[to] = start_cost[a] + w /\ \A v \in VertexSet \ {to} : cost_of'[v] = cost_of[v]
    BY <1>1, <1>3, <1>4
  <2>2. to # source /\ cost_of'[to] > 0
    BY <1>1, <1>2, <1>4, <2>1
  <2> QED BY <1>1, <1>2, <1>4, <2>1, <2>2 DEF AsGood, inf, to, w
<1>5. CASE ~(start_cost[a] # -1 /\ (cost_of[to] = -1 \/ start_cost[a] + w <= cost_of[to]))
  <2>1. cost_of' = cost_of
    BY <1>3, <1>5
  <2>2. start_cost[a] # -1 => cost_of[to] # -1 /\ cost_of[to] <= start_cost[a] + w
    BY <1>1, <1>2, <1>5
  <2> QED BY <1>1, <1>2, <2>1, <2>2 DEF AsGood, inf, to, w
<1> QED BY <1>4, <1>5

LEMMA RelaxRound == RoundInv /\ (\E a \in ArcSet : Relax(a)) => RoundInv'
<1> SUFFICES ASSUME RoundInv, NEW a \in ArcSet, Relax(a) PROVE RoundInv'
  OBVIOUS
<1>1. VertexSet' = VertexSet /\ ArcSet' = ArcSet /\ source' = source /\ graph' = graph
  BY DEF Relax, VertexSet, ArcSet, source
<1>2. TypeOK'
  BY <1>1, GraphFacts DEF Relax, RoundInv, TypeOK, hostArrays, compare
<1>3. /\ pc[a] = "relax" /\ pc'[a] = "done"
      /\ \A b \in ArcSet \ {a} : pc'[b] = pc[b]
      /\ UNCHANGED <<start_cost, old_cost_of, host, host_old_cost>>
  BY DEF Relax, RoundInv, TypeOK, hostArrays
<1>4. HostInOrder'
  BY <1>1, <1>3 DEF Relax, RoundInv, HostInOrder, OnDevice, hostArrays
<1>5. ASSUME OnDevice', StartedRight' PROVE OnDevice /\ StartedRight
  BY <1>1, <1>3, <1>5 DEF OnDevice, StartedRight, Unreached
<1>6. SoundCosts'
  BY <1>1, <1>3, <1>5, RelaxLowers DEF RoundInv, SoundCosts
<1>7. RoundSoFar'
  <2> SUFFICES ASSUME OnDevice', StartedRight'
               PROVE  /\ \A v \in VertexSet : AsGood(cost_of'[v], old_cost_of[v])
                      /\ \A b \in ArcSet :
                           /\ pc'[b] = "relax" => AsGood(start_cost[b], old_cost_of[graph.start[b]])
                           /\ pc'[b] = "done" => Relaxed(b)'
    BY <1>1, <1>3 DEF RoundSoFar, AsGood
  <2>1. /\ \A v \in VertexSet :
              AsGood(cost_of'[v], cost_of[v]) /\ AsGood(cost_of[v], old_cost_of[v])
        /\ start_cost[a] # inf =>
              /\ cost_of'[graph.end[a]] # inf
              /\ cost_of'[graph.end[a]] <= start_cost[a] + graph.weight[a]
    BY <1>5, RelaxLowers DEF RoundInv, RoundSoFar
  <2>2. /\ cost_of \in [VertexSet -> Int] /\ cost_of' \in [VertexSet -> Int]
        /\ old_cost_of \in [VertexSet -> Int] /\ start_cost \in [ArcSet -> Int]
    BY <1>1, <1>2 DEF RoundInv, TypeOK
  <2>3. \A v \in VertexSet : AsGood(cost_of'[v], old_cost_of[v])
    BY <2>1, <2>2 DEF AsGood
  <2>4. ASSUME NEW b \in ArcSet
        PROVE  /\ pc'[b] = "relax" => AsGood(start_cost[b], old_cost_of[graph.start[b]])
               /\ pc'[b] = "done" => Relaxed(b)'
    <3>1. graph.start[b] \in VertexSet /\ graph.end[b] \in VertexSet /\ graph.weight[b] \in Nat
      BY GraphFacts DEF RoundInv
    <3>2. CASE b = a
      <4>1. AsGood(start_cost[a], old_cost_of[graph.start[a]])
        BY <1>3, <1>5 DEF RoundInv, RoundSoFar
      <4> QED BY <1>1, <1>3, <2>1, <2>2, <3>1, <3>2, <4>1 DEF Relaxed, AsGood
    <3>3. CASE b # a
      <4>1. pc[b] = "done" => Relaxed(b)
        BY <1>5 DEF RoundInv, RoundSoFar
      <4>2. AsGood(cost_of'[graph.end[b]], cost_of[graph.end[b]])
        BY <2>1, <3>1
      <4>3. pc[b] = "done" => Relaxed(b)'
        BY <1>1, <1>3, <2>2, <3>1, <4>1, <4>2 DEF Relaxed, AsGood
      <4> QED BY <1>3, <1>5, <3>3, <4>3 DEF RoundInv, RoundSoFar
    <3> QED BY <3>2, <3>3
  <2> QED BY <2>3, <2>4
<1> QED BY <1>2, <1>4, <1>6, <1>7 DEF RoundInv

LEMMA StutterRound == RoundInv /\ UNCHANGED vars => RoundInv'
BY DEF RoundInv, vars, hostArrays, deviceArrays, threads, TypeOK, HostInOrder, SoundCosts,
       RoundSoFar, Relaxed, OnDevice, StartedRight, Unreached, VertexSet, ArcSet, source

(* The inductive invariant.                                                *)
THEOREM RoundInvariant == Spec => []RoundInv
<1>1. RoundInv /\ [Next]_vars => RoundInv'
  BY BeforeRounds, CopyToDeviceRound, LaunchRoundRound, EndRoundRound, CopyToHostRound,
     ReadStartRound, RelaxRound, StutterRound DEF Next
<1> QED BY <1>1, InitRound, PTL DEF Spec

(* Every variable keeps its type: no more than V - 1 rounds are counted.   *)
THEOREM ProgramTyped == Spec => []TypeOK
<1>1. RoundInv => TypeOK
  BY DEF RoundInv
<1> QED BY <1>1, RoundInvariant, PTL

(* The resource invariant of the kernel holds at every step of every       *)
(* thread.                                                                 *)
THEOREM KernelInvariantHolds == Spec => []KernelInvariant
<1>1. RoundInv => KernelInvariant
  BY DEF RoundInv, SoundCosts, KernelInvariant
<1> QED BY <1>1, RoundInvariant, PTL

(* No thread undoes what another has improved since it read.               *)
THEOREM NoCostRises == Spec => CostsOnlyFall
<1>1. RoundInv /\ [Next]_vars =>
        [OnDevice /\ StartedRight =>
           \A v \in VertexSet : cost_of[v] # inf => cost_of'[v] # inf /\ cost_of'[v] <= cost_of[v]]_vars
  <2> SUFFICES ASSUME RoundInv, [Next]_vars, OnDevice, StartedRight
               PROVE  \A v \in VertexSet : AsGood(cost_of'[v], cost_of[v])
    BY DEF AsGood
  <2>1. \A v \in VertexSet : cost_of[v] \in Int
    BY DEF RoundInv, TypeOK
  <2>2. CASE UNCHANGED cost_of
    BY <2>1, <2>2 DEF AsGood
  <2>3. CASE \E a \in ArcSet : Relax(a)
    BY <2>3, RelaxLowers
  <2>4. (\E a \in ArcSet : Relax(a)) \/ UNCHANGED cost_of
    BY DEF Next, InitCost, CopyOldCost, InitContrib, CopyToDevice, LaunchRound, EndRound,
           CopyToHost, ReadStart, OnDevice, vars, deviceArrays
  <2> QED BY <2>2, <2>3, <2>4
<1> QED BY <1>1, RoundInvariant, PTL DEF Spec, CostsOnlyFall

(* A round relaxes every arc against the costs it began with, whatever the *)
(* order of its threads and whatever they read from each other.            *)
RoundRelaxesAll ==
  host = "kernel" /\ (\A a \in ArcSet : pc[a] = "done") /\ StartedRight =>
    /\ \A a \in ArcSet : Relaxed(a)
    /\ \A v \in VertexSet : AsGood(cost_of[v], old_cost_of[v])

THEOREM RoundsRelax == Spec => []RoundRelaxesAll
<1>1. RoundInv => RoundRelaxesAll
  BY DEF RoundInv, RoundSoFar, RoundRelaxesAll, OnDevice
<1> QED BY <1>1, RoundInvariant, PTL

-----------------------------------------------------------------------------
(* Induction over the natural numbers, for sets of numbers.                *)

LEMMA LeastNumber ==
  ASSUME NEW T, T \subseteq Nat, T # {}
  PROVE  \E x \in T : \A y \in T : x <= y
<1>1. IsWellFoundedOn(OpToRel(<, Nat), Nat)
  BY NatLessThanWellFounded
<1>2. PICK x \in T : \A y \in T : ~(<<y, x>> \in OpToRel(<, Nat))
  BY <1>1, WFMin
<1>3. \A y \in T : ~(y < x)
  BY <1>2 DEF OpToRel
<1> QED
  BY <1>3

LEMMA UpwardInduction ==
  ASSUME NEW T, 0 \in T, \A n \in Nat : n \in T => n + 1 \in T
  PROVE  Nat \subseteq T
<1> DEFINE U == Nat \ T
<1>1. SUFFICES ASSUME U # {} PROVE FALSE
  OBVIOUS
<1>2. PICK x \in U : \A y \in U : x <= y
  BY <1>1, LeastNumber
<1>3. x # 0 /\ x - 1 \in Nat /\ x - 1 \notin U
  BY <1>2
<1> QED
  BY <1>2, <1>3

-----------------------------------------------------------------------------
(* What a path costs. *)

(* f counts what the first arcs of P cost, which is what cost(g, P) is     *)
(* defined from.                                                           *)
Tally(g, P, f) ==
  /\ f \in [0 .. Len(P) -> Nat] /\ f[0] = 0
  /\ \A n \in 1 .. Len(P) : f[n] = f[n - 1] + g.weight[P[n]]

WellFormed(g) == g.V \in Nat /\ g.A \in Nat /\ Graph(g)

LEMMA TallyExists ==
  ASSUME NEW g, WellFormed(g), NEW P \in Seq(Arcs(g))
  PROVE  \E f : Tally(g, P, f)
<1> DEFINE w == g.weight
           Upto(n, f) == /\ f \in [0 .. n -> Nat] /\ f[0] = 0
                         /\ \A m \in 1 .. n : f[m] = f[m - 1] + w[P[m]]
           T == {n \in Nat : n <= Len(P) => \E f : Upto(n, f)}
<1>1. Len(P) \in Nat /\ \A m \in 1 .. Len(P) : w[P[m]] \in Nat
  BY DEF WellFormed, Graph
<1>2. 0 \in T
  <2>1. Upto(0, [k \in 0 .. 0 |-> 0])
    OBVIOUS
  <2> QED
    BY <2>1
<1>3. ASSUME NEW n \in Nat, n \in T, n + 1 <= Len(P)
      PROVE  \E f : Upto(n + 1, f)
  <2>1. PICK f : Upto(n, f)
    BY <1>1, <1>3
  <2> DEFINE h == [k \in 0 .. n + 1 |-> IF k <= n THEN f[k] ELSE f[n] + w[P[n + 1]]]
  <2>2. n \in 0 .. n /\ f[n] \in Nat /\ w[P[n + 1]] \in Nat /\ n + 1 \in 1 .. Len(P)
    BY <1>1, <1>3, <2>1
  <2>3. h \in [0 .. n + 1 -> Nat] /\ h[0] = 0
    BY <2>1, <2>2
  <2>4. ASSUME NEW m \in 1 .. n + 1
        PROVE  h[m] = h[m - 1] + w[P[m]]
    <3>1. CASE m = n + 1
      BY <2>2, <3>1
    <3>2. CASE m \in 1 .. n
      BY <2>1, <3>2
    <3> QED
      BY <3>1, <3>2
  <2>5. Upto(n + 1, h)
    BY <2>3, <2>4
  <2> HIDE DEF h
  <2> QED
    BY <2>5
<1> HIDE DEF Upto
<1>4. \A n \in Nat : n \in T => n + 1 \in T
  BY <1>3
<1> HIDE DEF T
<1>5. Len(P) \in T
  BY <1>1, <1>2, <1>4, UpwardInduction
<1>6. \E f : Upto(Len(P), f)
  BY <1>5 DEF T
<1> QED
  BY <1>6 DEF Tally, Upto

LEMMA TallyIsCost ==
  ASSUME NEW g, WellFormed(g), NEW P \in Seq(Arcs(g)), NEW f, Tally(g, P, f)
  PROVE  cost(g, P) = f[Len(P)]
<1> DEFINE Is(C) == C = [n \in 0 .. Len(P) |-> IF n = 0 THEN 0 ELSE C[n - 1] + g.weight[P[n]]]
           C == CHOOSE C : Is(C)
           T == {n \in Nat : n <= Len(P) => C[n] = f[n]}
<1>1. Is(f)
  BY DEF Tally
<1>2. Is(C)
  BY <1>1
<1>3. cost(g, P) = C[Len(P)]
  BY DEF cost
<1> HIDE DEF C
<1>4. Len(P) \in Nat
  OBVIOUS
<1>5. 0 \in T
  BY <1>2, <1>4 DEF Tally
<1>6. ASSUME NEW n \in Nat, n \in T, n + 1 <= Len(P)
      PROVE  C[n + 1] = f[n + 1]
  BY <1>2, <1>4, <1>6 DEF Tally
<1>7. ASSUME NEW n \in Nat, n \in T
      PROVE  n + 1 \in T
  <2> SUFFICES ASSUME n + 1 <= Len(P) PROVE C[n + 1] = f[n + 1]
    OBVIOUS
  <2> HIDE DEF T
  <2> QED
    BY <1>6, <1>7
<1> HIDE DEF T
<1>8. Len(P) \in T
  BY <1>4, <1>5, <1>7, UpwardInduction
<1> QED
  BY <1>3, <1>4, <1>8 DEF T

-----------------------------------------------------------------------------
(* Paths and the vertices on them. *)

(* P is one of the paths of PathsFrom.                                     *)
StartsAt(g, x, P) == P = <<>> \/ Path(g, x, g.end[P[Len(P)]], P)

(* All but the last arc of a path.                                         *)
LEMMA WithoutLast ==
  ASSUME NEW g, WellFormed(g), NEW x \in Vertices(g), NEW P \in Seq(Arcs(g)), P # <<>>,
         StartsAt(g, x, P)
  PROVE  \E Q \in Seq(Arcs(g)) :
           /\ StartsAt(g, x, Q) /\ Len(Q) = Len(P) - 1 /\ P = Append(Q, P[Len(P)])
           /\ \A k \in 1 .. Len(P) - 1 : Q[k] = P[k]
<1> DEFINE n == Len(P)
           Q == [k \in 1 .. n - 1 |-> P[k]]
<1>1. n \in Nat \ {0} /\ \A k \in 1 .. n : P[k] \in Arcs(g)
  OBVIOUS
<1>2. Q \in Seq(Arcs(g)) /\ Len(Q) = n - 1 /\ \A k \in 1 .. n - 1 : Q[k] = P[k]
  BY <1>1
<1>3. Append(Q, P[n]) = P
  BY <1>1, <1>2
<1>4. StartsAt(g, x, Q)
  <2>1. CASE n = 1
    BY <1>2, <2>1 DEF StartsAt
  <2>2. CASE n > 1
    <3>1. g.end[Q[n - 1]] \in Vertices(g)
      BY <1>1, <1>2, <2>2 DEF WellFormed, Graph
    <3>2. Path(g, x, g.end[P[n]], P)
      BY <2>2 DEF StartsAt
    <3>3. \A i \in 1 .. n - 1 : g.end[P[i]] = g.start[P[i + 1]]
      BY <3>2 DEF Path
    <3>4. Path(g, x, g.end[Q[n - 1]], Q)
      <4> HIDE DEF Q
      <4>1. g.start[Q[1]] = x
        BY <1>2, <2>2, <3>2 DEF Path
      <4>2. \A i \in 1 .. Len(Q) - 1 : g.end[Q[i]] = g.start[Q[i + 1]]
        BY <1>1, <1>2, <3>3
      <4>3. \A i \in 1 .. Len(Q) : Q[i] \in Arcs(g)
        BY <1>2
      <4> QED
        BY <1>1, <1>2, <2>2, <3>1, <4>1, <4>2, <4>3 DEF Path
    <3>5. Len(Q) = n - 1
      BY <1>2
    <3> HIDE DEF Q
    <3> QED
      BY <3>4, <3>5 DEF StartsAt
  <2>3. n \in Nat /\ n # 0
    BY <1>1
  <2> HIDE DEF Q, n
  <2> QED
    BY <2>1, <2>2, <2>3
<1> QED
  BY <1>2, <1>3, <1>4

(* PathsFrom finds the paths of at most n arcs, and nothing else.          *)
LEMMA PathsFromIs ==
  ASSUME NEW g, WellFormed(g), NEW x \in Vertices(g), NEW n \in Nat
  PROVE  PathsFrom(g, x, n) = {P \in Seq(Arcs(g)) : Len(P) <= n /\ StartsAt(g, x, P)}
<1> DEFINE More(X) == {P \in {Append(Q, a) : Q \in X, a \in Arcs(g)} :
                         Path(g, x, g.end[P[Len(P)]], P)}
           Is(S) == S = [m \in 0 .. n |-> IF m = 0 THEN {<<>>} ELSE S[m - 1] \cup More(S[m - 1])]
           Paths(m) == {P \in Seq(Arcs(g)) : Len(P) <= m /\ StartsAt(g, x, P)}
           W == [m \in 0 .. n |-> Paths(m)]
           S == CHOOSE S : Is(S)
           T == {m \in Nat : m <= n => S[m] = W[m]}
<1>1. PathsFrom(g, x, n) = S[n]
  BY DEF PathsFrom
<1>2. Paths(0) = {<<>>}
  <2>1. <<>> \in Seq(Arcs(g)) /\ Len(<<>>) <= 0 /\ StartsAt(g, x, <<>>)
    BY DEF StartsAt
  <2>2. ASSUME NEW P \in Seq(Arcs(g)), Len(P) <= 0
        PROVE  P = <<>>
    BY <2>2
  <2> QED
    BY <2>1, <2>2
<1>3. ASSUME NEW m \in 1 .. n
      PROVE  Paths(m) = Paths(m - 1) \cup More(Paths(m - 1))
  <2>1. ASSUME NEW P \in Paths(m)
        PROVE  P \in Paths(m - 1) \cup More(Paths(m - 1))
    <3>1. CASE Len(P) <= m - 1
      BY <2>1, <3>1
    <3>2. CASE Len(P) > m - 1
      <4>1. P # <<>> /\ Len(P) = m
        BY <2>1, <3>2
      <4>2. PICK Q \in Seq(Arcs(g)) : StartsAt(g, x, Q) /\ Len(Q) = m - 1 /\ P = Append(Q, P[m])
        BY <2>1, <4>1, WithoutLast
      <4>3. Q \in Paths(m - 1) /\ P[m] \in Arcs(g)
        BY <2>1, <4>1, <4>2
      <4>4. Path(g, x, g.end[P[Len(P)]], P)
        BY <2>1, <4>1 DEF StartsAt
      <4> QED
        BY <4>2, <4>3, <4>4
    <3> QED
      BY <2>1, <3>1, <3>2
  <2>2. ASSUME NEW P \in More(Paths(m - 1))
        PROVE  P \in Paths(m)
    <3>1. PICK Q \in Paths(m - 1), a \in Arcs(g) : P = Append(Q, a)
      BY <2>2
    <3>2. P \in Seq(Arcs(g)) /\ Len(P) <= m
      BY <3>1
    <3> QED
      BY <2>2, <3>2 DEF StartsAt
  <2>3. Paths(m - 1) \subseteq Paths(m)
    OBVIOUS
  <2> QED
    BY <2>1, <2>2, <2>3
<1> HIDE DEF Paths, More
<1>4. Is(W)
  BY <1>2, <1>3
<1>5. Is(S)
  BY <1>4
<1> HIDE DEF S
<1>6. 0 \in T
  BY <1>2, <1>5
<1>7. ASSUME NEW k \in 1 .. n, k - 1 \in T
      PROVE  S[k] = W[k]
  <2>1. S[k] = S[k - 1] \cup More(S[k - 1])
    <3>1. k \in 0 .. n /\ k # 0
      OBVIOUS
    <3>2. S = [m \in 0 .. n |-> IF m = 0 THEN {<<>>} ELSE S[m - 1] \cup More(S[m - 1])]
      BY <1>5
    <3> QED
      BY <3>1, <3>2, Zenon
  <2>2. S[k - 1] = Paths(k - 1)
    BY <1>7
  <2>3. Paths(k) = Paths(k - 1) \cup More(Paths(k - 1))
    BY <1>3
  <2> QED
    BY <2>1, <2>2, <2>3
<1>8. ASSUME NEW m \in Nat, m \in T
      PROVE  m + 1 \in T
  <2> SUFFICES ASSUME m + 1 <= n PROVE S[m + 1] = W[m + 1]
    OBVIOUS
  <2>1. m + 1 \in 1 .. n /\ (m + 1) - 1 \in T
    BY <1>8
  <2> HIDE DEF T
  <2> QED
    BY <1>7, <2>1
<1> HIDE DEF T
<1>9. n \in T
  BY <1>6, <1>8, UpwardInduction
<1> QED
  BY <1>1, <1>9 DEF T, Paths

(* The vertex a path has come to after k arcs.                             *)
VertexAt(g, x, P, k) == IF k = 0 THEN x ELSE g.end[P[k]]

(* A path of as many arcs as there are vertices visits one of them twice.  *)
LEMMA VisitsTwice ==
  ASSUME NEW g, WellFormed(g), NEW x, NEW y, NEW P \in Seq(Arcs(g)), Path(g, x, y, P), Len(P) >= g.V
  PROVE  \E i, j \in 0 .. Len(P) : i < j /\ VertexAt(g, x, P, i) = VertexAt(g, x, P, j)
<1> DEFINE f == [k \in 0 .. Len(P) |-> VertexAt(g, x, P, k)]
<1>1. Len(P) \in Nat /\ g.V \in Nat /\ \A k \in 1 .. Len(P) : g.end[P[k]] \in Vertices(g)
  BY DEF WellFormed, Graph
<1>2. f \in [0 .. Len(P) -> Vertices(g)]
  BY <1>1 DEF Path, VertexAt
<1>3. IsFiniteSet(0 .. Len(P)) /\ Cardinality(0 .. Len(P)) = Len(P) + 1
  BY <1>1, FS_Interval
<1>4. IsFiniteSet(Vertices(g)) /\ Cardinality(Vertices(g)) = g.V
  <2>1. IsFiniteSet(0 .. g.V - 1) /\ Cardinality(0 .. g.V - 1) = g.V
    <3> DEFINE z == g.V - 1
    <3>1. z \in Nat /\ z + 1 = g.V
      BY <1>1 DEF WellFormed, Graph
    <3> HIDE DEF z
    <3>2. IsFiniteSet(0 .. z) /\ Cardinality(0 .. z) = z + 1
      BY <3>1, FS_Interval
    <3> QED
      BY <3>1, <3>2 DEF z
  <2> QED
    BY <2>1 DEF Vertices
<1>5. \E i, j \in 0 .. Len(P) : i # j /\ f[i] = f[j]
  <2> HIDE DEF f
  <2> QED
    BY <1>1, <1>2, <1>3, <1>4, FS_PigeonHole
<1>6. PICK i, j \in 0 .. Len(P) : i # j /\ VertexAt(g, x, P, i) = VertexAt(g, x, P, j)
  BY <1>5
<1> QED
  BY <1>1, <1>6

LEMMA SimplePathsAreShort ==
  ASSUME NEW g, WellFormed(g), NEW x, NEW y, NEW P \in Seq(Arcs(g)), SimplePath(g, x, y, P)
  PROVE  Len(P) < g.V
<1> SUFFICES ASSUME Len(P) >= g.V PROVE FALSE
  BY DEF WellFormed
<1>1. PICK i, j \in 0 .. Len(P) : i < j /\ VertexAt(g, x, P, i) = VertexAt(g, x, P, j)
  BY VisitsTwice DEF SimplePath
<1>2. i + 1 \in 1 .. Len(P) /\ j \in 1 .. Len(P) /\ Len(P) \in Nat
  BY <1>1
<1>3. g.start[P[i + 1]] = VertexAt(g, x, P, i)
  BY <1>1, <1>2 DEF SimplePath, Path, VertexAt
<1>4. g.start[P[i + 1]] = g.end[P[j]]
  BY <1>1, <1>2, <1>3 DEF VertexAt
<1>5. CASE i + 1 < j
  BY <1>2, <1>4, <1>5 DEF SimplePath
<1>6. CASE i + 1 = j
  BY <1>2, <1>4, <1>6 DEF WellFormed, Graph
<1> QED
  BY <1>1, <1>2, <1>5, <1>6

(* A path goes on from the vertex it has come to.                          *)
LEMMA PathByVertices ==
  ASSUME NEW g, WellFormed(g), NEW P \in Seq(Arcs(g)), NEW x \in Vertices(g), NEW y \in Vertices(g)
  PROVE  Path(g, x, y, P) <=>
           /\ VertexAt(g, x, P, Len(P)) = y
           /\ \A k \in 1 .. Len(P) : g.start[P[k]] = VertexAt(g, x, P, k - 1)
<1>1. Len(P) \in Nat /\ \A k \in 1 .. Len(P) : P[k] \in Arcs(g)
  OBVIOUS
<1>2. ASSUME Path(g, x, y, P), NEW k \in 1 .. Len(P)
      PROVE  g.start[P[k]] = VertexAt(g, x, P, k - 1)
  <2>1. CASE k = 1
    BY <1>1, <1>2, <2>1 DEF Path, VertexAt
  <2>2. CASE k # 1
    <3>1. k - 1 \in 1 .. Len(P) - 1 /\ k - 1 # 0 /\ (k - 1) + 1 = k
      BY <1>1, <2>2
    <3> QED
      BY <1>2, <3>1 DEF Path, VertexAt
  <2> QED
    BY <2>1, <2>2
<1>3. ASSUME Path(g, x, y, P)
      PROVE  VertexAt(g, x, P, Len(P)) = y
  BY <1>1, <1>3 DEF Path, VertexAt
<1>4. ASSUME VertexAt(g, x, P, Len(P)) = y,
             \A k \in 1 .. Len(P) : g.start[P[k]] = VertexAt(g, x, P, k - 1)
      PROVE  Path(g, x, y, P)
  <2>1. Len(P) > 0 => g.start[P[1]] = x /\ g.end[P[Len(P)]] = y
    BY <1>1, <1>4 DEF VertexAt
  <2>2. ASSUME NEW i \in 1 .. Len(P) - 1
        PROVE  g.end[P[i]] = g.start[P[i + 1]]
    <3>1. i + 1 \in 1 .. Len(P) /\ (i + 1) - 1 = i /\ i # 0
      BY <1>1
    <3> QED
      BY <1>4, <3>1 DEF VertexAt
  <2> QED
    BY <1>1, <1>4, <2>1, <2>2 DEF Path, VertexAt
<1> QED
  BY <1>2, <1>3, <1>4

LEMMA TallyGrows ==
  ASSUME NEW g, WellFormed(g), NEW P \in Seq(Arcs(g)), NEW f, Tally(g, P, f),
         NEW i \in 0 .. Len(P), NEW j \in i .. Len(P)
  PROVE  f[i] <= f[j]
<1> DEFINE T == {k \in Nat : i + k <= Len(P) => f[i] <= f[i + k]}
<1>1. Len(P) \in Nat /\ i \in Nat /\ j - i \in Nat /\ i + (j - i) = j
  OBVIOUS
<1>2. \A n \in 1 .. Len(P) : f[n] \in Nat /\ f[n - 1] \in Nat /\ f[n - 1] <= f[n]
  <2> SUFFICES ASSUME NEW n \in 1 .. Len(P)
               PROVE  f[n] \in Nat /\ f[n - 1] \in Nat /\ f[n - 1] <= f[n]
    OBVIOUS
  <2>1. g.weight[P[n]] \in Nat
    BY DEF WellFormed, Graph
  <2>2. n \in 0 .. Len(P) /\ n - 1 \in 0 .. Len(P)
    BY <1>1
  <2>3. f[n] \in Nat /\ f[n - 1] \in Nat /\ f[n] = f[n - 1] + g.weight[P[n]]
    BY <2>2 DEF Tally
  <2> QED
    BY <2>1, <2>3
<1>3. f[i] \in Nat
  BY DEF Tally
<1>4. 0 \in T
  BY <1>1, <1>3
<1>5. ASSUME NEW k \in Nat, k \in T
      PROVE  k + 1 \in T
  <2> SUFFICES ASSUME i + (k + 1) <= Len(P) PROVE f[i] <= f[i + (k + 1)]
    OBVIOUS
  <2>1. i + (k + 1) \in 1 .. Len(P) /\ (i + (k + 1)) - 1 = i + k
    BY <1>1
  <2>2. f[i] <= f[i + k]
    BY <1>1, <1>5
  <2> QED
    BY <1>2, <1>3, <2>1, <2>2
<1> HIDE DEF T
<1>6. j - i \in T
  BY <1>1, <1>4, <1>5, UpwardInduction
<1> QED
  BY <1>1, <1>6 DEF T

(* A path of as many arcs as there are vertices has a shorter one beside   *)
(* it that costs no more.                                                  *)
LEMMA CanBeShortened ==
  ASSUME NEW g, WellFormed(g), NEW x, NEW y, NEW P \in Seq(Arcs(g)), Path(g, x, y, P),
         Len(P) >= g.V, NEW f, Tally(g, P, f)
  PROVE  \E Q \in Seq(Arcs(g)) : \E h :
           /\ Path(g, x, y, Q) /\ Len(Q) < Len(P)
           /\ Tally(g, Q, h) /\ h[Len(Q)] <= f[Len(P)]
<1>1. PICK i, j \in 0 .. Len(P) : i < j /\ VertexAt(g, x, P, i) = VertexAt(g, x, P, j)
  BY VisitsTwice
<1> DEFINE d == j - i
           n == Len(P)
           Q == [k \in 1 .. n - d |-> IF k <= i THEN P[k] ELSE P[k + d]]
           h == [k \in 0 .. n - d |-> IF k <= i THEN f[k] ELSE f[k + d] - (f[j] - f[i])]
<1>2. n \in Nat /\ d \in Nat \ {0} /\ i \in 0 .. n - d /\ i + d = j /\ n - d \in Nat /\ i < j
      /\ \A k \in 1 .. n : P[k] \in Arcs(g)
  BY <1>1
<1>3. x \in Vertices(g) /\ y \in Vertices(g)
  BY DEF Path
<1>4. Q \in Seq(Arcs(g)) /\ Len(Q) = n - d
      /\ \A k \in 1 .. n - d : Q[k] = IF k <= i THEN P[k] ELSE P[k + d]
  BY <1>2
<1>5. VertexAt(g, x, P, n) = y /\ \A k \in 1 .. n : g.start[P[k]] = VertexAt(g, x, P, k - 1)
  BY <1>3, PathByVertices
<1>6. /\ h \in [0 .. n - d -> Nat] /\ h[0] = 0 /\ h[n - d] <= f[n]
      /\ \A k \in 1 .. n - d : h[k] = h[k - 1] + g.weight[Q[k]]
  <2>1. /\ \A k \in 0 .. n : f[k] \in Nat
        /\ f[0] = 0 /\ \A k \in 1 .. n : f[k] = f[k - 1] + g.weight[P[k]]
        /\ \A k \in 1 .. n : g.weight[P[k]] \in Nat
    <3>1. \A a \in Arcs(g) : g.weight[a] \in Nat
      BY DEF WellFormed, Graph
    <3> QED
      BY <1>2, <3>1 DEF Tally
  <2>2. f[i] <= f[j] /\ f[i] \in Nat /\ f[j] \in Nat
    BY <1>1, <1>2, <2>1, TallyGrows
  <2>3. \A k \in i .. n - d : f[j] <= f[k + d] /\ f[k + d] \in Nat
    <3> SUFFICES ASSUME NEW k \in i .. n - d PROVE f[j] <= f[k + d] /\ f[k + d] \in Nat
      OBVIOUS
    <3>1. k + d \in j .. Len(P)
      BY <1>2
    <3> QED
      BY <1>1, <1>2, <2>1, <3>1, TallyGrows
  <2>4. \A k \in i .. n - d : h[k] = f[k + d] - (f[j] - f[i])
    BY <1>2, <2>2
  <2>5. \A k \in 0 .. i : h[k] = f[k]
    BY <1>2
  <2>6. h \in [0 .. n - d -> Nat]
    <3>1. ASSUME NEW k \in 0 .. n - d
          PROVE  (IF k <= i THEN f[k] ELSE f[k + d] - (f[j] - f[i])) \in Nat
      <4>1. CASE k <= i
        BY <1>2, <2>1, <4>1
      <4>2. CASE k > i
        BY <1>2, <2>2, <2>3, <4>2
      <4> QED
        BY <1>2, <4>1, <4>2
    <3> QED
      BY <3>1
  <2> HIDE DEF h, Q
  <2>7. h[n - d] <= f[n]
    <3>1. n - d \in i .. n - d /\ (n - d) + d = n
      BY <1>2
    <3>2. h[n - d] = f[n] - (f[j] - f[i]) /\ f[n] \in Nat
      BY <1>2, <2>1, <2>4, <3>1
    <3> QED
      BY <2>2, <3>2
  <2>8. ASSUME NEW k \in 1 .. n - d
        PROVE  h[k] = h[k - 1] + g.weight[Q[k]]
    <3>1. CASE k <= i
      <4>1. k \in 0 .. i /\ k - 1 \in 0 .. i /\ k \in 1 .. n /\ Q[k] = P[k]
        BY <1>2, <1>4, <3>1
      <4> QED
        BY <2>1, <2>5, <4>1
    <3>2. CASE k > i
      <4>1. /\ k \in i .. n - d /\ k - 1 \in i .. n - d /\ k + d \in 1 .. n
            /\ (k - 1) + d = (k + d) - 1 /\ Q[k] = P[k + d]
        BY <1>2, <1>4, <3>2
      <4>2. /\ h[k] = f[k + d] - (f[j] - f[i]) /\ h[k - 1] = f[(k + d) - 1] - (f[j] - f[i])
            /\ f[k + d] = f[(k + d) - 1] + g.weight[P[k + d]]
            /\ f[k + d] \in Nat /\ f[(k + d) - 1] \in Nat /\ g.weight[P[k + d]] \in Nat
        BY <2>1, <2>3, <2>4, <4>1
      <4> DEFINE u == f[(k + d) - 1]
                 w == g.weight[P[k + d]]
                 e == f[j] - f[i]
      <4>3. u \in Nat /\ w \in Nat /\ e \in Int
            /\ h[k] = (u + w) - e /\ h[k - 1] = u - e /\ g.weight[Q[k]] = w
        BY <2>2, <4>1, <4>2
      <4> HIDE DEF u, w, e
      <4> QED
        BY <4>3
    <3> QED
      BY <1>2, <3>1, <3>2
  <2> QED
    BY <1>2, <2>1, <2>5, <2>6, <2>7, <2>8
<1> HIDE DEF Q, h
<1>7. ASSUME NEW k \in 0 .. i
      PROVE  VertexAt(g, x, Q, k) = VertexAt(g, x, P, k)
  <2>1. k # 0 => Q[k] = P[k]
    BY <1>2, <1>4
  <2> QED
    BY <2>1 DEF VertexAt
<1>8. \A k \in i .. n - d : VertexAt(g, x, Q, k) = VertexAt(g, x, P, k + d)
  <2> SUFFICES ASSUME NEW k \in i .. n - d PROVE VertexAt(g, x, Q, k) = VertexAt(g, x, P, k + d)
    OBVIOUS
  <2>1. CASE k = i
    BY <1>1, <1>2, <1>7, <2>1
  <2>2. CASE k > i
    <3>1. k \in 1 .. n - d /\ ~(k <= i) /\ k # 0 /\ k + d # 0
      BY <1>2, <2>2
    <3>2. Q[k] = P[k + d]
      BY <1>4, <3>1
    <3> QED
      BY <3>1, <3>2 DEF VertexAt
  <2> QED
    BY <1>2, <2>1, <2>2
<1>9. VertexAt(g, x, Q, Len(Q)) = y
  BY <1>2, <1>4, <1>5, <1>8
<1>10. ASSUME NEW k \in 1 .. Len(Q)
       PROVE  g.start[Q[k]] = VertexAt(g, x, Q, k - 1)
  <2>1. CASE k <= i
    <3>1. k - 1 \in 0 .. i /\ k \in 1 .. n /\ Q[k] = P[k]
      BY <1>2, <1>4, <2>1
    <3> QED
      BY <1>5, <1>7, <3>1
  <2>2. CASE k > i
    <3>1. k - 1 \in i .. n - d /\ k + d \in 1 .. n /\ (k - 1) + d = (k + d) - 1 /\ Q[k] = P[k + d]
      BY <1>2, <1>4, <2>2
    <3> QED
      BY <1>5, <1>8, <3>1
  <2>3. k \in Int /\ i \in Int
    BY <1>2, <1>4
  <2> QED
    BY <2>1, <2>2, <2>3
<1>11. Path(g, x, y, Q)
  BY <1>3, <1>4, <1>9, <1>10, PathByVertices
<1>12. Tally(g, Q, h) /\ h[Len(Q)] <= f[Len(P)] /\ Len(Q) < Len(P)
  BY <1>2, <1>4, <1>6 DEF Tally
<1> QED
  BY <1>4, <1>11, <1>12

-----------------------------------------------------------------------------
(* Costs and paths. *)

(* What a vertex costs is the cost of a simple path from the source, and   *)
(* no vertex on that path costs more than the path up to it.               *)
Backed(g, x, costs, v, c) ==
  \E P \in Seq(Arcs(g)) : \E f :
    /\ SimplePath(g, x, v, P) /\ Tally(g, P, f) /\ f[Len(P)] = c
    /\ \A k \in 0 .. Len(P) : AsGood(costs[VertexAt(g, x, P, k)], f[k])

(* No path of at most n arcs is cheaper.                                   *)
NoneCheaper(g, x, costs, n) ==
  \A P \in Seq(Arcs(g)), v \in Vertices(g) : \A f :
    Tally(g, P, f) /\ Len(P) <= n /\ Path(g, x, v, P) => AsGood(costs[v], f[Len(P)])

LEMMA AtVertices ==
  ASSUME NEW g, WellFormed(g), NEW x \in Vertices(g), NEW P \in Seq(Arcs(g)), NEW k \in 0 .. Len(P)
  PROVE  VertexAt(g, x, P, k) \in Vertices(g)
<1>1. k # 0 => P[k] \in Arcs(g)
  OBVIOUS
<1> QED
  BY <1>1 DEF VertexAt, WellFormed, Graph

LEMMA StaysBacked ==
  ASSUME NEW g, WellFormed(g), NEW x \in Vertices(g), NEW costs \in [Vertices(g) -> Int],
         NEW new \in [Vertices(g) -> Int], \A v \in Vertices(g) : AsGood(new[v], costs[v]),
         NEW v, NEW c, Backed(g, x, costs, v, c)
  PROVE  Backed(g, x, new, v, c)
<1>0. PICK P \in Seq(Arcs(g)) : \E f :
         /\ SimplePath(g, x, v, P) /\ Tally(g, P, f) /\ f[Len(P)] = c
         /\ \A k \in 0 .. Len(P) : AsGood(costs[VertexAt(g, x, P, k)], f[k])
  BY DEF Backed
<1>1. PICK f :
         /\ SimplePath(g, x, v, P) /\ Tally(g, P, f) /\ f[Len(P)] = c
         /\ \A k \in 0 .. Len(P) : AsGood(costs[VertexAt(g, x, P, k)], f[k])
  BY <1>0
<1>2. ASSUME NEW k \in 0 .. Len(P)
      PROVE  AsGood(new[VertexAt(g, x, P, k)], f[k])
  <2> DEFINE z == VertexAt(g, x, P, k)
  <2>1. z \in Vertices(g) /\ f[k] \in Nat
    BY <1>1, AtVertices DEF Tally
  <2>2. AsGood(costs[z], f[k]) /\ AsGood(new[z], costs[z])
    BY <1>1, <2>1
  <2> HIDE DEF z
  <2>3. AsGood(new[z], f[k])
    BY <2>1, <2>2 DEF AsGood
  <2> QED
    BY <2>3 DEF z
<1> QED
  BY <1>1, <1>2 DEF Backed

(* A relaxed vertex is backed by the path to the start of the arc and the  *)
(* arc.  It does not lie on that path, or it would cost less already.      *)
LEMMA RelaxedIsBacked ==
  ASSUME NEW g, WellFormed(g), NEW x \in Vertices(g), NEW costs \in [Vertices(g) -> Int],
         NEW new \in [Vertices(g) -> Int], \A v \in Vertices(g) : AsGood(new[v], costs[v]),
         NEW a \in Arcs(g), NEW c, Backed(g, x, costs, g.start[a], c),
         costs[g.end[a]] = inf \/ c + g.weight[a] <= costs[g.end[a]],
         new[g.end[a]] = c + g.weight[a]
  PROVE  Backed(g, x, new, g.end[a], c + g.weight[a])
<1>0. PICK P \in Seq(Arcs(g)) : \E f :
         /\ SimplePath(g, x, g.start[a], P) /\ Tally(g, P, f) /\ f[Len(P)] = c
         /\ \A k \in 0 .. Len(P) : AsGood(costs[VertexAt(g, x, P, k)], f[k])
  BY DEF Backed
<1>1. PICK f :
         /\ SimplePath(g, x, g.start[a], P) /\ Tally(g, P, f) /\ f[Len(P)] = c
         /\ \A k \in 0 .. Len(P) : AsGood(costs[VertexAt(g, x, P, k)], f[k])
  BY <1>0
<1> DEFINE n == Len(P)
           w == g.weight[a]
           to == g.end[a]
           Q == Append(P, a)
           h == [k \in 0 .. n + 1 |-> IF k <= n THEN f[k] ELSE c + w]
<1>2. n \in Nat /\ w \in Nat \ {0} /\ to \in Vertices(g) /\ g.start[a] \in Vertices(g)
      /\ \A k \in 0 .. n : f[k] \in Nat
  <2>1. \A k \in 0 .. n : f[k] \in Nat
    BY <1>1 DEF Tally
  <2>2. n \in Nat
    OBVIOUS
  <2> QED
    BY <2>1, <2>2 DEF WellFormed, Graph
<1>3. c \in Nat
  BY <1>1, <1>2
<1>4. /\ Q \in Seq(Arcs(g)) /\ Len(Q) = n + 1 /\ Q[n + 1] = a
      /\ \A k \in 1 .. n : Q[k] = P[k]
  OBVIOUS
<1>5. \A k \in 0 .. n : VertexAt(g, x, Q, k) = VertexAt(g, x, P, k)
  BY <1>2, <1>4 DEF VertexAt
<1>6. VertexAt(g, x, Q, n + 1) = to
  BY <1>2, <1>4 DEF VertexAt
<1>7. \A k \in 0 .. n : VertexAt(g, x, P, k) # to
  <2> SUFFICES ASSUME NEW k \in 0 .. n, VertexAt(g, x, P, k) = to
               PROVE  FALSE
    OBVIOUS
  <2>1. costs[to] # inf /\ costs[to] <= f[k] /\ costs[to] \in Int /\ f[k] \in Nat
    <3>1. AsGood(costs[to], f[k]) /\ f[k] \in Nat /\ costs[to] \in Int
      BY <1>1, <1>2
    <3> QED
      BY <3>1 DEF AsGood, inf
  <2>2. f[k] <= c
    BY <1>1, <1>2, TallyGrows
  <2> QED
    BY <1>2, <1>3, <2>1, <2>2
<1>8. /\ VertexAt(g, x, P, n) = g.start[a]
      /\ \A k \in 1 .. n : g.start[P[k]] = VertexAt(g, x, P, k - 1)
  BY <1>1, <1>2, PathByVertices DEF SimplePath
<1>9. Path(g, x, to, Q)
  <2>1. ASSUME NEW k \in 1 .. Len(Q)
        PROVE  g.start[Q[k]] = VertexAt(g, x, Q, k - 1)
    <3>1. CASE k = n + 1
      BY <1>2, <1>4, <1>5, <1>8, <3>1
    <3>2. CASE k \in 1 .. n
      <4>1. k - 1 \in 0 .. n /\ Q[k] = P[k]
        BY <1>2, <1>4, <3>2
      <4> QED
        BY <1>5, <1>8, <3>2, <4>1
    <3>3. k = n + 1 \/ k \in 1 .. n
      BY <1>2, <1>4
    <3> QED
      BY <3>1, <3>2, <3>3
  <2> HIDE DEF Q, to
  <2> QED
    BY <1>2, <1>4, <1>6, <2>1, PathByVertices
<1>10. SimplePath(g, x, to, Q)
  <2>1. ASSUME NEW i \in 1 .. Len(Q), NEW j \in 1 .. Len(Q), i < j
        PROVE  g.start[Q[i]] # g.end[Q[j]]
    <3>1. i \in 1 .. n /\ Q[i] = P[i] /\ (j = n + 1 \/ j \in 1 .. n)
      BY <1>2, <1>4, <2>1
    <3>2. CASE j = n + 1
      <4>1. i - 1 \in 0 .. n /\ Q[j] = a /\ g.start[Q[i]] = VertexAt(g, x, P, i - 1)
        BY <1>2, <1>4, <1>8, <3>1, <3>2
      <4> QED
        BY <1>7, <4>1
    <3>3. CASE j \in 1 .. n
      <4>1. Q[j] = P[j]
        BY <1>4, <3>3
      <4> QED
        BY <1>1, <2>1, <3>1, <3>3, <4>1 DEF SimplePath
    <3> QED
      BY <3>1, <3>2, <3>3
  <2> QED
    BY <1>9, <2>1 DEF SimplePath
<1>11. Tally(g, Q, h) /\ h[Len(Q)] = c + w
  <2>1. h \in [0 .. n + 1 -> Nat]
    BY <1>2, <1>3
  <2>2. h[0] = 0 /\ h[n + 1] = c + w /\ \A k \in 0 .. n : h[k] = f[k]
    BY <1>1, <1>2 DEF Tally
  <2> HIDE DEF h, Q
  <2>3. ASSUME NEW k \in 1 .. n + 1
        PROVE  h[k] = h[k - 1] + g.weight[Q[k]]
    <3>1. CASE k = n + 1
      <4>1. (n + 1) - 1 = n /\ n \in 0 .. n
        BY <1>2
      <4>2. h[n] = c
        BY <1>1, <2>2, <4>1
      <4> QED
        BY <1>4, <2>2, <3>1, <4>1, <4>2
    <3>2. CASE k \in 1 .. n
      <4>1. k \in 0 .. n /\ k - 1 \in 0 .. n /\ Q[k] = P[k] /\ f[k] = f[k - 1] + g.weight[P[k]]
        BY <1>1, <1>2, <1>4, <3>2 DEF Tally
      <4> QED
        BY <2>2, <4>1
    <3>3. k = n + 1 \/ k \in 1 .. n
      BY <1>2
    <3> QED
      BY <3>1, <3>2, <3>3
  <2> QED
    BY <1>4, <2>1, <2>2, <2>3 DEF Tally
<1>12. ASSUME NEW k \in 0 .. Len(Q)
       PROVE  AsGood(new[VertexAt(g, x, Q, k)], h[k])
  <2>1. CASE k = n + 1
    BY <1>2, <1>3, <1>6, <2>1 DEF AsGood, inf
  <2>2. CASE k \in 0 .. n
    <3> DEFINE z == VertexAt(g, x, P, k)
    <3>1. z \in Vertices(g) /\ f[k] \in Nat /\ VertexAt(g, x, Q, k) = z /\ h[k] = f[k]
      BY <1>2, <1>5, <2>2, AtVertices
    <3>2. AsGood(costs[z], f[k]) /\ AsGood(new[z], costs[z])
      BY <1>1, <2>2, <3>1
    <3> HIDE DEF z, h, Q
    <3> QED
      BY <3>1, <3>2 DEF AsGood
  <2>3. k = n + 1 \/ k \in 0 .. n
    BY <1>2, <1>4
  <2> QED
    BY <2>1, <2>2, <2>3
<1> HIDE DEF Q, h
<1> QED
  BY <1>4, <1>10, <1>11, <1>12 DEF Backed

(* One more round: the arcs are relaxed against the costs it began with.   *)
LEMMA OneMoreArc ==
  ASSUME NEW g, WellFormed(g), NEW x \in Vertices(g), NEW old \in [Vertices(g) -> Int],
         NEW costs \in [Vertices(g) -> Int], costs[x] = 0, NEW m \in Nat,
         NoneCheaper(g, x, old, m),
         \A a \in Arcs(g) : old[g.start[a]] # inf =>
            costs[g.end[a]] # inf /\ costs[g.end[a]] <= old[g.start[a]] + g.weight[a]
  PROVE  NoneCheaper(g, x, costs, m + 1)
<1> SUFFICES ASSUME NEW P \in Seq(Arcs(g)), NEW v \in Vertices(g), NEW f, Tally(g, P, f),
                    Len(P) <= m + 1, Path(g, x, v, P)
             PROVE  AsGood(costs[v], f[Len(P)])
  BY DEF NoneCheaper
<1> DEFINE n == Len(P)
<1>1. n \in Nat /\ (\A k \in 0 .. n : f[k] \in Nat) /\ \A k \in 1 .. n : P[k] \in Arcs(g)
  <2>1. \A k \in 0 .. n : f[k] \in Nat
    BY DEF Tally
  <2> QED
    BY <2>1
<1>2. VertexAt(g, x, P, n) = v /\ \A k \in 1 .. n : g.start[P[k]] = VertexAt(g, x, P, k - 1)
  BY PathByVertices
<1>3. CASE n = 0
  BY <1>2, <1>3 DEF VertexAt, AsGood, Tally, inf
<1>4. CASE n # 0
  <2> DEFINE Q == [k \in 1 .. n - 1 |-> P[k]]
             h == [k \in 0 .. n - 1 |-> f[k]]
             u == VertexAt(g, x, P, n - 1)
  <2>1. n - 1 \in 0 .. n /\ u \in Vertices(g) /\ n \in 1 .. n
    <3>1. n - 1 \in 0 .. n /\ n \in 1 .. n
      BY <1>1, <1>4
    <3> QED
      BY <3>1, AtVertices
  <2>2. Q \in Seq(Arcs(g)) /\ Len(Q) = n - 1 /\ \A k \in 1 .. n - 1 : Q[k] = P[k]
    BY <1>1, <1>4
  <2>3. \A k \in 0 .. n - 1 : VertexAt(g, x, Q, k) = VertexAt(g, x, P, k)
    BY <1>1, <2>2 DEF VertexAt
  <2>4. Path(g, x, u, Q)
    <3>1. ASSUME NEW k \in 1 .. Len(Q)
          PROVE  g.start[Q[k]] = VertexAt(g, x, Q, k - 1)
      <4>1. k \in 1 .. n /\ k - 1 \in 0 .. n - 1 /\ Q[k] = P[k]
        BY <1>1, <2>1, <2>2
      <4> QED
        BY <1>2, <2>3, <4>1
    <3>2. VertexAt(g, x, Q, Len(Q)) = u
      <4>1. n - 1 \in 0 .. n - 1 /\ Len(Q) = n - 1
        BY <2>1, <2>2
      <4> HIDE DEF Q
      <4> QED
        BY <2>3, <4>1
    <3> HIDE DEF Q, u
    <3> QED
      BY <2>1, <2>2, <3>1, <3>2, PathByVertices
  <2>5. Tally(g, Q, h) /\ h[Len(Q)] = f[n - 1]
    <3>1. h \in [0 .. n - 1 -> Nat] /\ h[0] = 0 /\ h[n - 1] = f[n - 1]
      BY <1>1, <1>4, <2>1 DEF Tally
    <3>2. ASSUME NEW k \in 1 .. n - 1
          PROVE  h[k] = h[k - 1] + g.weight[Q[k]]
      <4>1. k \in 1 .. n /\ k \in 0 .. n - 1 /\ k - 1 \in 0 .. n - 1 /\ Q[k] = P[k]
        BY <1>1, <2>1, <2>2
      <4>2. f[k] = f[k - 1] + g.weight[P[k]]
        BY <4>1 DEF Tally
      <4> QED
        BY <4>1, <4>2
    <3> HIDE DEF h, Q
    <3> QED
      BY <2>2, <3>1, <3>2 DEF Tally
  <2>6. AsGood(old[u], f[n - 1])
    <3>1. Len(Q) <= m
      BY <1>1, <2>1, <2>2
    <3> HIDE DEF Q, h, u
    <3> QED
      BY <2>1, <2>2, <2>4, <2>5, <3>1 DEF NoneCheaper
  <2>7. g.start[P[n]] = u /\ g.end[P[n]] = v /\ P[n] \in Arcs(g) /\ g.weight[P[n]] \in Nat
        /\ f[n] = f[n - 1] + g.weight[P[n]]
    BY <1>1, <1>2, <1>4, <2>1 DEF VertexAt, Tally, WellFormed, Graph
  <2>8. costs[v] # inf /\ costs[v] <= old[u] + g.weight[P[n]] /\ old[u] <= f[n - 1]
    <3> HIDE DEF u
    <3>1. old[u] # inf /\ old[u] <= f[n - 1]
      BY <1>1, <2>1, <2>6 DEF AsGood, inf
    <3> QED
      BY <2>7, <3>1
  <2>9. costs[v] <= f[n]
    <3> DEFINE o == old[u]
               e == f[n - 1]
               w == g.weight[P[n]]
    <3>1. o \in Int /\ e \in Int /\ w \in Int /\ costs[v] \in Int
          /\ costs[v] <= o + w /\ o <= e /\ f[n] = e + w
      BY <1>1, <2>1, <2>7, <2>8
    <3> HIDE DEF o, e, w
    <3> QED
      BY <3>1
  <2> QED
    BY <2>8, <2>9 DEF AsGood
<1> QED
  BY <1>3, <1>4

-----------------------------------------------------------------------------
(* The threads keep it so. *)

CostsOfPaths ==
  /\ ~OnDevice => counter = 0
  /\ OnDevice /\ StartedRight =>
       /\ \A v \in VertexSet : cost_of[v] # inf => Backed(graph, source, cost_of, v, cost_of[v])
       /\ \A a \in ArcSet :
            start_cost[a] # inf => Backed(graph, source, cost_of, graph.start[a], start_cost[a])
       /\ NoneCheaper(graph, source, old_cost_of, counter)
       /\ host # "kernel" => old_cost_of = cost_of
       /\ host = "returned" => host_cost = cost_of /\ counter = graph.V - 1

LEMMA GraphIs ==
  ASSUME TypeOK
  PROVE  /\ WellFormed(graph) /\ source \in Vertices(graph)
         /\ VertexSet = Vertices(graph) /\ ArcSet = Arcs(graph)
BY GraphsAssumption, GraphFacts DEF TypeOK, WellFormed, VertexSet, ArcSet

(* The path without arcs.                                                  *)
LEMMA NoArcs ==
  ASSUME NEW g, WellFormed(g), NEW x \in Vertices(g), NEW costs, costs[x] = 0
  PROVE  Backed(g, x, costs, x, 0) /\ NoneCheaper(g, x, costs, 0)
<1>1. Backed(g, x, costs, x, 0)
  <2> DEFINE f == [k \in 0 .. 0 |-> 0]
             P == <<>>
  <2>1. P \in Seq(Arcs(g)) /\ Len(P) = 0
    OBVIOUS
  <2>2. SimplePath(g, x, x, P)
    BY <2>1 DEF SimplePath, Path
  <2>3. Tally(g, P, f) /\ f[0] = 0
    BY <2>1 DEF Tally
  <2>4. \A k \in 0 .. Len(P) : AsGood(costs[VertexAt(g, x, P, k)], f[k])
    BY <2>1 DEF VertexAt, AsGood, inf
  <2> HIDE DEF f, P
  <2> QED
    BY <2>1, <2>2, <2>3, <2>4 DEF Backed
<1>2. ASSUME NEW P \in Seq(Arcs(g)), NEW v \in Vertices(g), NEW f, Tally(g, P, f), Len(P) <= 0,
             Path(g, x, v, P)
      PROVE  AsGood(costs[v], f[Len(P)])
  <2>1. Len(P) = 0
    BY <1>2
  <2> QED
    BY <1>2, <2>1 DEF Path, Tally, AsGood, inf
<1> QED
  BY <1>1, <1>2 DEF NoneCheaper

LEMMA PathsInitially == Init => CostsOfPaths
BY DEF Init, CostsOfPaths, OnDevice

LEMMA PathsBeforeRounds ==
  CostsOfPaths /\ (InitCost \/ CopyOldCost \/ InitContrib) => CostsOfPaths'
BY DEF CostsOfPaths, InitCost, CopyOldCost, InitContrib, OnDevice

LEMMA PathsCopyToDevice ==
  RoundInv /\ CostsOfPaths /\ CopyToDevice => CostsOfPaths'
<1> SUFFICES ASSUME RoundInv, CostsOfPaths, CopyToDevice, StartedRight'
             PROVE  CostsOfPaths'
  BY DEF CopyToDevice, CostsOfPaths, OnDevice
<1>1. /\ UNCHANGED <<graph, host_old_cost, counter, start_cost>> /\ host' = "while"
      /\ cost_of' = host_old_cost /\ old_cost_of' = host_old_cost
      /\ counter = 0 /\ \A a \in ArcSet : start_cost[a] = inf
  BY DEF CopyToDevice, hostArrays, threads, RoundInv, HostInOrder, CostsOfPaths, OnDevice
<1>2. cost_of' = [v \in VertexSet |-> IF v = source THEN 0 ELSE inf]
  BY <1>1 DEF StartedRight, Unreached, VertexSet, source
<1>3. /\ WellFormed(graph) /\ source \in Vertices(graph)
      /\ VertexSet = Vertices(graph) /\ ArcSet = Arcs(graph)
  BY GraphIs DEF RoundInv
<1>4. cost_of'[source] = 0 /\ \A v \in VertexSet : v # source => cost_of'[v] = inf
  BY <1>2, <1>3
<1>5. Backed(graph, source, cost_of', source, 0) /\ NoneCheaper(graph, source, cost_of', 0)
  BY <1>3, <1>4, NoArcs
<1>6. VertexSet' = VertexSet /\ ArcSet' = ArcSet /\ source' = source
  BY <1>1 DEF VertexSet, ArcSet, source
<1> QED
  BY <1>1, <1>4, <1>5, <1>6 DEF CostsOfPaths

LEMMA PathsOfHost ==
  RoundInv /\ CostsOfPaths /\ (LaunchRound \/ CopyToHost \/ UNCHANGED vars) => CostsOfPaths'
<1> SUFFICES ASSUME RoundInv, CostsOfPaths, LaunchRound \/ CopyToHost \/ UNCHANGED vars
             PROVE  CostsOfPaths'
  OBVIOUS
<1>1. UNCHANGED <<graph, host_old_cost, cost_of, old_cost_of, counter, start_cost>>
  BY DEF LaunchRound, CopyToHost, vars, hostArrays, deviceArrays, threads
<1>2. VertexSet' = VertexSet /\ ArcSet' = ArcSet /\ source' = source
  BY <1>1 DEF VertexSet, ArcSet, source
<1>3. StartedRight' = StartedRight
  BY <1>1, <1>2 DEF StartedRight, Unreached
<1>4. counter \in 0 .. graph.V - 1 /\ graph.V \in Nat
  BY GraphFacts DEF RoundInv, TypeOK
<1>5. CASE LaunchRound
  BY <1>1, <1>2, <1>3, <1>5 DEF CostsOfPaths, LaunchRound, OnDevice
<1>6. CASE CopyToHost
  <2>1. host = "while" /\ host' = "returned" /\ host_cost' = cost_of /\ counter = graph.V - 1
    BY <1>4, <1>6 DEF CopyToHost
  <2> QED
    BY <1>1, <1>2, <1>3, <2>1 DEF CostsOfPaths, OnDevice
<1>7. CASE UNCHANGED vars
  BY <1>1, <1>2, <1>3, <1>7 DEF CostsOfPaths, OnDevice, vars, hostArrays
<1> QED
  BY <1>5, <1>6, <1>7

LEMMA PathsEndRound == RoundInv /\ CostsOfPaths /\ EndRound => CostsOfPaths'
<1> SUFFICES ASSUME RoundInv, CostsOfPaths, EndRound, StartedRight'
             PROVE  CostsOfPaths'
  BY DEF EndRound, CostsOfPaths, OnDevice
<1>1. /\ UNCHANGED <<graph, host_old_cost, cost_of>> /\ host = "kernel" /\ host' = "while"
      /\ old_cost_of' = cost_of /\ counter' = counter + 1
      /\ (\A a \in ArcSet : pc[a] = "done") /\ \A a \in ArcSet : start_cost'[a] = inf
  BY DEF EndRound, hostArrays
<1>2. VertexSet' = VertexSet /\ ArcSet' = ArcSet /\ source' = source
  BY <1>1 DEF VertexSet, ArcSet, source
<1>3. StartedRight
  BY <1>1, <1>2 DEF StartedRight, Unreached
<1>4. /\ WellFormed(graph) /\ source \in Vertices(graph)
      /\ VertexSet = Vertices(graph) /\ ArcSet = Arcs(graph)
  BY GraphIs DEF RoundInv
<1>5. /\ cost_of \in [Vertices(graph) -> Int] /\ old_cost_of \in [Vertices(graph) -> Int]
      /\ cost_of[source] = 0 /\ counter \in Nat
  BY <1>1, <1>3, <1>4, GraphFacts DEF RoundInv, TypeOK, SoundCosts, OnDevice
<1>6. \A a \in Arcs(graph) : old_cost_of[graph.start[a]] # inf =>
        /\ cost_of[graph.end[a]] # inf
        /\ cost_of[graph.end[a]] <= old_cost_of[graph.start[a]] + graph.weight[a]
  BY <1>1, <1>3, <1>4 DEF RoundInv, RoundSoFar, OnDevice, Relaxed
<1>7. NoneCheaper(graph, source, old_cost_of, counter)
  BY <1>1, <1>3 DEF CostsOfPaths, OnDevice
<1>8. NoneCheaper(graph, source, cost_of, counter + 1)
  BY <1>4, <1>5, <1>6, <1>7, OneMoreArc
<1> QED
  BY <1>1, <1>2, <1>3, <1>8 DEF CostsOfPaths, OnDevice

LEMMA PathsReadStart ==
  RoundInv /\ CostsOfPaths /\ (\E a \in ArcSet : ReadStart(a)) => CostsOfPaths'
<1> SUFFICES ASSUME RoundInv, CostsOfPaths, NEW a \in ArcSet, ReadStart(a)
             PROVE  CostsOfPaths'
  OBVIOUS
<1>1. UNCHANGED <<graph, host, host_cost, host_old_cost, cost_of, old_cost_of, counter>>
  BY DEF ReadStart, hostArrays, deviceArrays
<1>2. /\ graph.start[a] \in VertexSet /\ start_cost'[a] = cost_of[graph.start[a]]
      /\ \A b \in ArcSet \ {a} : start_cost'[b] = start_cost[b]
  BY GraphFacts DEF ReadStart, RoundInv, TypeOK
<1>3. VertexSet' = VertexSet /\ ArcSet' = ArcSet /\ source' = source
  BY <1>1 DEF VertexSet, ArcSet, source
<1>4. StartedRight' = StartedRight
  BY <1>1, <1>3 DEF StartedRight, Unreached
<1> QED
  BY <1>1, <1>2, <1>3, <1>4 DEF CostsOfPaths, OnDevice

LEMMA PathsRelax ==
  RoundInv /\ CostsOfPaths /\ (\E a \in ArcSet : Relax(a)) => CostsOfPaths'
<1> SUFFICES ASSUME RoundInv, CostsOfPaths, NEW a \in ArcSet, Relax(a)
             PROVE  CostsOfPaths'
  OBVIOUS
<1>1. UNCHANGED <<graph, host, host_cost, host_old_cost, old_cost_of, counter, start_cost>>
  BY DEF Relax, hostArrays
<1>2. VertexSet' = VertexSet /\ ArcSet' = ArcSet /\ source' = source
  BY <1>1 DEF VertexSet, ArcSet, source
<1>3. StartedRight' = StartedRight
  BY <1>1, <1>2 DEF StartedRight, Unreached
<1>4. /\ WellFormed(graph) /\ source \in Vertices(graph)
      /\ VertexSet = Vertices(graph) /\ ArcSet = Arcs(graph)
  BY GraphIs DEF RoundInv
<1>5. pc[a] = "relax" /\ host = "kernel"
  BY DEF Relax, RoundInv, HostInOrder
<1> SUFFICES ASSUME StartedRight
             PROVE  CostsOfPaths'
  BY <1>1, <1>3, <1>5 DEF CostsOfPaths, OnDevice
<1>6. /\ \A v \in Vertices(graph) : AsGood(cost_of'[v], cost_of[v])
      /\ cost_of \in [Vertices(graph) -> Int] /\ cost_of' \in [Vertices(graph) -> Int]
  <2>1. TypeOK'
    BY RelaxRound DEF RoundInv
  <2> QED
    BY <1>2, <1>4, <1>5, <2>1, RelaxLowers DEF OnDevice, RoundInv, TypeOK
<1>7. \A v, c : Backed(graph, source, cost_of, v, c) => Backed(graph, source, cost_of', v, c)
  BY <1>4, <1>6, StaysBacked
<1>8. ASSUME NEW v \in VertexSet, cost_of'[v] # inf
      PROVE  Backed(graph, source, cost_of', v, cost_of'[v])
  <2>1. CASE cost_of'[v] = cost_of[v]
    BY <1>5, <1>7, <1>8, <2>1 DEF CostsOfPaths, OnDevice
  <2>2. CASE cost_of'[v] # cost_of[v]
    <3>1. /\ v = graph.end[a] /\ compare(start_cost[a], graph.weight[a], cost_of[v])
          /\ cost_of'[v] = start_cost[a] + graph.weight[a]
      BY <1>4, <1>6, <2>2 DEF Relax
    <3>2. Backed(graph, source, cost_of, graph.start[a], start_cost[a])
      BY <1>5, <3>1 DEF CostsOfPaths, OnDevice, compare
    <3>3. cost_of[v] = inf \/ start_cost[a] + graph.weight[a] <= cost_of[v]
      BY <3>1 DEF compare
    <3> QED
      BY <1>4, <1>6, <3>1, <3>2, <3>3, RelaxedIsBacked
  <2> QED
    BY <2>1, <2>2
<1>9. \A b \in ArcSet : start_cost[b] # inf =>
        Backed(graph, source, cost_of', graph.start[b], start_cost[b])
  BY <1>5, <1>7 DEF CostsOfPaths, OnDevice
<1> QED
  BY <1>1, <1>2, <1>3, <1>5, <1>8, <1>9 DEF CostsOfPaths, OnDevice

(* The costs are those of paths, at every step of every thread; and after  *)
(* so many rounds no path of so many arcs is cheaper.                      *)
THEOREM CostsComeFromPaths == Spec => []CostsOfPaths
<1>1. RoundInv /\ CostsOfPaths /\ [Next]_vars => CostsOfPaths'
  BY PathsBeforeRounds, PathsCopyToDevice, PathsOfHost, PathsEndRound, PathsReadStart, PathsRelax
     DEF Next
<1> QED
  BY <1>1, PathsInitially, RoundInvariant, PTL DEF Spec

(* With as many rounds as there are vertices but one, no path is cheaper,  *)
(* of however many arcs.                                                   *)
LEMMA NoneCheaperAtAll ==
  ASSUME NEW g, WellFormed(g), NEW x \in Vertices(g), NEW costs \in [Vertices(g) -> Int],
         NoneCheaper(g, x, costs, g.V - 1), NEW n \in Nat
  PROVE  NoneCheaper(g, x, costs, n)
<1> DEFINE Worse(P, v, f) == /\ Tally(g, P, f) /\ Path(g, x, v, P) /\ ~AsGood(costs[v], f[Len(P)])
           T == {m \in Nat : \E P \in Seq(Arcs(g)), v \in Vertices(g) : \E f :
                               Len(P) = m /\ Worse(P, v, f)}
<1> SUFFICES T = {}
  BY DEF NoneCheaper
<1> SUFFICES ASSUME T # {} PROVE FALSE
  OBVIOUS
<1>1. PICK m \in T : \A k \in T : m <= k
  BY LeastNumber
<1>0. PICK P \in Seq(Arcs(g)), v \in Vertices(g) : \E f : Len(P) = m /\ Worse(P, v, f)
  BY <1>1
<1>2. PICK f : Len(P) = m /\ Worse(P, v, f)
  BY <1>0
<1>3. m >= g.V /\ m \in Nat
  BY <1>1, <1>2 DEF NoneCheaper, WellFormed
<1>9. PICK Q \in Seq(Arcs(g)) : \E h :
        /\ Path(g, x, v, Q) /\ Len(Q) < m /\ Tally(g, Q, h) /\ h[Len(Q)] <= f[m]
  BY <1>2, <1>3, CanBeShortened
<1>4. PICK h :
        /\ Path(g, x, v, Q) /\ Len(Q) < m /\ Tally(g, Q, h) /\ h[Len(Q)] <= f[m]
  BY <1>9
<1>5. ~AsGood(costs[v], h[Len(Q)])
  <2>1. h[Len(Q)] \in Nat /\ f[m] \in Nat
    <3>1. f \in [0 .. Len(P) -> Nat] /\ Len(P) = m
      BY <1>2 DEF Tally
    <3>2. f[m] \in Nat
      BY <1>3, <3>1
    <3>3. h \in [0 .. Len(Q) -> Nat] /\ Len(Q) \in Nat
      BY <1>4 DEF Tally
    <3> QED
      BY <3>2, <3>3
  <2> QED
    BY <1>2, <1>4, <2>1 DEF AsGood, inf
<1>6. Len(Q) \in T
  BY <1>4, <1>5
<1> QED
  BY <1>1, <1>3, <1>4, <1>6

(* When the host has its result, no path of any number of arcs is cheaper. *)
NoPathIsCheaper ==
  host = "returned" /\ StartedRight =>
    \A P \in Seq(ArcSet), v \in VertexSet :
      Path(graph, source, v, P) => host_cost[v] # inf /\ host_cost[v] <= cost(graph, P)

THEOREM NoPathIsEverCheaper == Spec => []NoPathIsCheaper
<1>1. RoundInv /\ CostsOfPaths => NoPathIsCheaper
  <2> SUFFICES ASSUME RoundInv, CostsOfPaths, host = "returned", StartedRight,
                      NEW P \in Seq(ArcSet), NEW v \in VertexSet, Path(graph, source, v, P)
               PROVE  host_cost[v] # inf /\ host_cost[v] <= cost(graph, P)
    BY DEF NoPathIsCheaper
  <2>1. /\ WellFormed(graph) /\ source \in Vertices(graph)
        /\ VertexSet = Vertices(graph) /\ ArcSet = Arcs(graph)
    BY GraphIs DEF RoundInv
  <2>2. cost_of \in [Vertices(graph) -> Int] /\ host_cost = cost_of
        /\ NoneCheaper(graph, source, cost_of, graph.V - 1)
    BY <2>1 DEF RoundInv, TypeOK, CostsOfPaths, OnDevice
  <2>3. NoneCheaper(graph, source, cost_of, Len(P)) /\ Len(P) \in Nat
    BY <2>1, <2>2, NoneCheaperAtAll
  <2>4. PICK f : Tally(graph, P, f)
    BY <2>1, TallyExists
  <2>5. cost(graph, P) = f[Len(P)] /\ f[Len(P)] \in Nat
    BY <2>1, <2>3, <2>4, TallyIsCost DEF Tally
  <2>6. AsGood(cost_of[v], f[Len(P)])
    BY <2>1, <2>3, <2>4 DEF NoneCheaper
  <2> QED
    BY <2>2, <2>5, <2>6 DEF AsGood, inf
<1> QED
  BY <1>1, RoundInvariant, CostsComeFromPaths, PTL

(* The result is the cost of a cheapest path where there is a path, and    *)
(* inf where there is none.                                                *)
THEOREM ResultIsShortest == Spec => []ShortestAtReturn
<1>1. RoundInv /\ CostsOfPaths /\ NoPathIsCheaper => ShortestAtReturn
  <2> SUFFICES ASSUME RoundInv, CostsOfPaths, NoPathIsCheaper, host = "returned", StartedRight,
                      NEW v \in VertexSet
               PROVE  LET costs == {cost(graph, P) :
                                    P \in {Q \in FromSource : Path(graph, source, v, Q)}}
                      IN  IF costs = {} THEN host_cost[v] = inf
                          ELSE host_cost[v] \in costs /\ \A c \in costs : host_cost[v] <= c
    BY DEF ShortestAtReturn
  <2> DEFINE costs == {cost(graph, P) : P \in {Q \in FromSource : Path(graph, source, v, Q)}}
  <2>1. /\ WellFormed(graph) /\ source \in Vertices(graph)
        /\ VertexSet = Vertices(graph) /\ ArcSet = Arcs(graph)
    BY GraphIs DEF RoundInv
  <2>2. FromSource = {P \in Seq(Arcs(graph)) : Len(P) <= graph.V /\ StartsAt(graph, source, P)}
    <3>1. FromSource = PathsFrom(graph, source, graph.V) /\ graph.V \in Nat
      BY <2>1 DEF FromSource, Known, PathTable, RoundInv, TypeOK, WellFormed
    <3> QED
      BY <2>1, <3>1, PathsFromIs
  <2>3. \A c \in costs : host_cost[v] # inf /\ host_cost[v] <= c
    BY <2>1, <2>2 DEF NoPathIsCheaper
  <2>4. ASSUME host_cost[v] # inf
        PROVE  host_cost[v] \in costs
    <3>1. Backed(graph, source, cost_of, v, host_cost[v])
      BY <2>4 DEF CostsOfPaths, OnDevice
    <3>0. PICK P \in Seq(Arcs(graph)) : \E f :
            SimplePath(graph, source, v, P) /\ Tally(graph, P, f) /\ f[Len(P)] = host_cost[v]
      BY <3>1 DEF Backed
    <3>2. PICK f :
            SimplePath(graph, source, v, P) /\ Tally(graph, P, f) /\ f[Len(P)] = host_cost[v]
      BY <3>0
    <3>3. cost(graph, P) = host_cost[v]
      BY <2>1, <3>2, TallyIsCost
    <3>4. Path(graph, source, v, P) /\ Len(P) < graph.V /\ graph.V \in Nat
      BY <2>1, <3>2, SimplePathsAreShort DEF SimplePath, WellFormed
    <3>5. StartsAt(graph, source, P)
      BY <3>4 DEF StartsAt, Path
    <3>6. P \in FromSource
      BY <2>2, <3>4, <3>5
    <3> QED
      BY <3>3, <3>4, <3>6
  <2> SUFFICES IF costs = {} THEN host_cost[v] = inf
               ELSE host_cost[v] \in costs /\ \A c \in costs : host_cost[v] <= c
    OBVIOUS
  <2> HIDE DEF costs
  <2>5. costs = {} => host_cost[v] = inf
    BY <2>4
  <2>6. costs # {} => host_cost[v] \in costs
    BY <2>3, <2>4
  <2> QED
    BY <2>3, <2>5, <2>6
<1> QED
  BY <1>1, RoundInvariant, CostsComeFromPaths, NoPathIsEverCheaper, PTL
=============================================================================
