---------------------------- MODULE ShortestPaths ----------------------------
(***************************************************************************)
(* The Bellman-Ford algorithm of ASSSP.cu: the host launches V - 1 rounds  *)
(* of a kernel with one thread per arc, which relaxes the cost of the end  *)
(* of its arc by an atomic operation on the shared array of costs.  The    *)
(* cost of the start is an argument of that operation.  A thread reads it  *)
(* in a step of its own: cuda.h expands the macro so that the read happens *)
(* inside the atomic block, which is the case that the two steps follow    *)
(* each other; on a device the argument is evaluated before the call.      *)
(***************************************************************************)
EXTENDS GraphPaths

CONSTANTS
  Graphs,            \* the input graphs
  Memories           \* what a newly allocated array host_old_cost may hold

ASSUME GraphsAssumption == \A g \in Graphs : g.V \in Nat /\ g.A \in Nat /\ Graph(g)
ASSUME MemoriesAssumption == \A m \in Memories, g \in Graphs : \A v \in Vertices(g) : m[v] \in Int

VARIABLES
  graph,
  host,              \* where the host program is
  host_cost, host_old_cost, host_contrib,
  cost_of, old_cost_of, contrib,   \* device_cost, device_old_cost, device_contrib
  counter,
  pc, start_cost     \* per thread

hostArrays == <<host_cost, host_old_cost, host_contrib>>
deviceArrays == <<cost_of, old_cost_of, contrib>>
threads == <<pc, start_cost>>
vars == <<graph, host, hostArrays, deviceArrays, counter, threads>>

VertexSet == Vertices(graph)
ArcSet == Arcs(graph)
source == graph.V \div 2

HostStates == {"initCost", "copyOldCost", "initContrib", "toDevice", "while", "kernel",
               "returned"}

\* What the host has in mind for the start: no vertex has a cost yet but the source.
Unreached == [v \in VertexSet |-> IF v = source THEN 0 ELSE inf]

-----------------------------------------------------------------------------
(* The host program. *)

Init ==
  /\ graph \in Graphs
  /\ host = "initCost"
  /\ \E m \in Memories :
       /\ host_old_cost = [v \in VertexSet |-> m[v]]
       /\ host_cost = [v \in VertexSet |-> m[v]]
       /\ cost_of = [v \in VertexSet |-> m[v]]
       /\ old_cost_of = [v \in VertexSet |-> m[v]]
  /\ host_contrib = [a \in ArcSet |-> 0]
  /\ contrib = [a \in ArcSet |-> 0]
  /\ counter = 0
  /\ pc = [a \in ArcSet |-> "idle"]
  /\ start_cost = [a \in ArcSet |-> inf]

InitCost ==
  /\ host = "initCost"
  /\ host_cost' = Unreached
  /\ host' = "copyOldCost"
  /\ UNCHANGED <<graph, host_old_cost, host_contrib, deviceArrays, counter, threads>>

\* host_cost[g] = host_old_cost[g]: the copy goes the wrong way.
CopyOldCost ==
  /\ host = "copyOldCost"
  /\ host_cost' = [v \in VertexSet |-> host_old_cost[v]]
  /\ host' = "initContrib"
  /\ UNCHANGED <<graph, host_old_cost, host_contrib, deviceArrays, counter, threads>>

InitContrib ==
  /\ host = "initContrib"
  /\ host_contrib' = [a \in ArcSet |-> 0]
  /\ host' = "toDevice"
  /\ UNCHANGED <<graph, host_cost, host_old_cost, deviceArrays, counter, threads>>

\* The loops that fill device_old_cost and device_contrib are overwritten by the copies.
CopyToDevice ==
  /\ host = "toDevice"
  /\ cost_of' = host_cost
  /\ old_cost_of' = host_old_cost
  /\ contrib' = host_contrib
  /\ host' = "while"
  /\ UNCHANGED <<graph, hostArrays, counter, threads>>

LaunchRound_OneMore ==
  /\ host = "while"
  /\ counter < graph.V
  /\ pc' = [a \in ArcSet |-> "read"]
  /\ host' = "kernel"
  /\ UNCHANGED <<graph, hostArrays, deviceArrays, counter, start_cost>>

LaunchRound ==
  /\ host = "while"
  /\ counter < graph.V - 1
  /\ pc' = [a \in ArcSet |-> "read"]
  /\ host' = "kernel"
  /\ UNCHANGED <<graph, hostArrays, deviceArrays, counter, start_cost>>

EndRound_KeepsContrib ==
  /\ host = "kernel"
  /\ \A a \in ArcSet : pc[a] = "done"
  /\ old_cost_of' = cost_of
  /\ counter' = counter + 1
  /\ pc' = [a \in ArcSet |-> "idle"]
  /\ start_cost' = [a \in ArcSet |-> inf]
  /\ host' = "while"
  /\ UNCHANGED <<graph, hostArrays, cost_of, contrib>>

EndRound_NotCounted ==
  /\ host = "kernel"
  /\ \A a \in ArcSet : pc[a] = "done"
  /\ old_cost_of' = cost_of
  /\ contrib' = [a \in ArcSet |-> 0]
  /\ pc' = [a \in ArcSet |-> "idle"]
  /\ start_cost' = [a \in ArcSet |-> inf]
  /\ host' = "while"
  /\ UNCHANGED <<graph, hostArrays, cost_of, counter>>

EndRound_Early ==
  /\ host = "kernel"
  /\ \E a \in ArcSet : pc[a] = "done"
  /\ old_cost_of' = cost_of
  /\ contrib' = [a \in ArcSet |-> 0]
  /\ counter' = counter + 1
  /\ pc' = [a \in ArcSet |-> "idle"]
  /\ start_cost' = [a \in ArcSet |-> inf]
  /\ host' = "while"
  /\ UNCHANGED <<graph, hostArrays, cost_of>>

\* The kernel has returned: the costs are copied, the contributions cleared.
EndRound ==
  /\ host = "kernel"
  /\ \A a \in ArcSet : pc[a] = "done"
  /\ old_cost_of' = cost_of
  /\ contrib' = [a \in ArcSet |-> 0]
  /\ counter' = counter + 1
  /\ pc' = [a \in ArcSet |-> "idle"]
  /\ start_cost' = [a \in ArcSet |-> inf]
  /\ host' = "while"
  /\ UNCHANGED <<graph, hostArrays, cost_of>>

CopyToHost ==
  /\ host = "while"
  /\ counter >= graph.V - 1
  /\ host_cost' = cost_of
  /\ host' = "returned"
  /\ UNCHANGED <<graph, host_old_cost, host_contrib, deviceArrays, counter, threads>>

-----------------------------------------------------------------------------
(* The kernel: thread a has arc a. *)

ReadStart(a) ==
  /\ pc[a] = "read"
  /\ start_cost' = [start_cost EXCEPT ![a] = cost_of[graph.start[a]]]
  /\ pc' = [pc EXCEPT ![a] = "relax"]
  /\ UNCHANGED <<graph, host, hostArrays, deviceArrays, counter>>

\* Without the comparison, as a plain store would be.
Relax_Blind(a) ==
  /\ pc[a] = "relax"
  /\ cost_of' = IF start_cost[a] # inf
                THEN [cost_of EXCEPT ![graph.end[a]] = start_cost[a] + graph.weight[a]]
                ELSE cost_of
  /\ contrib' = [contrib EXCEPT ![a] = 1]
  /\ pc' = [pc EXCEPT ![a] = "done"]
  /\ UNCHANGED <<graph, host, hostArrays, old_cost_of, counter, start_cost>>

\* Without the test for an infinite start: -1 is a number, too.
Relax_InfIsANumber(a) ==
  LET v == graph.end[a]
      w == graph.weight[a]
  IN  /\ pc[a] = "relax"
      /\ cost_of' = IF cost_of[v] = inf \/ start_cost[a] + w <= cost_of[v]
                    THEN [cost_of EXCEPT ![v] = start_cost[a] + w] ELSE cost_of
      /\ contrib' = [contrib EXCEPT ![a] = 1]
      /\ pc' = [pc EXCEPT ![a] = "done"]
      /\ UNCHANGED <<graph, host, hostArrays, old_cost_of, counter, start_cost>>

\* atomicRelax, with the ghost update of its contribution.
Relax(a) ==
  LET v == graph.end[a]
      w == graph.weight[a]
  IN  /\ pc[a] = "relax"
      /\ cost_of' = IF compare(start_cost[a], w, cost_of[v])
                    THEN [cost_of EXCEPT ![v] = start_cost[a] + w] ELSE cost_of
      /\ contrib' = [contrib EXCEPT ![a] = 1]
      /\ pc' = [pc EXCEPT ![a] = "done"]
      /\ UNCHANGED <<graph, host, hostArrays, old_cost_of, counter, start_cost>>

Next ==
  \/ InitCost \/ CopyOldCost \/ InitContrib \/ CopyToDevice
  \/ LaunchRound \/ EndRound \/ CopyToHost
  \/ \E a \in ArcSet : ReadStart(a) \/ Relax(a)

Spec == Init /\ [][Next]_vars

\* The host waits for the kernel, and the device runs every thread it was given.
FairSpec == Spec /\ WF_vars(Next)

-----------------------------------------------------------------------------
(* Properties.  Where they say StartedRight, the memory of host_old_cost happened to hold  *)
(* what host_cost was given: the copy in the wrong direction did no harm.                  *)

Costs == Nat \cup {inf}

StartedRight == host_old_cost = Unreached

OnDevice == host \in {"while", "kernel", "returned"}

TypeOK ==
  /\ graph \in Graphs
  /\ host \in HostStates
  /\ cost_of \in [VertexSet -> Int] /\ old_cost_of \in [VertexSet -> Int]
  /\ host_cost \in [VertexSet -> Int] /\ host_old_cost \in [VertexSet -> Int]
  /\ contrib \in [ArcSet -> {0, 1}] /\ host_contrib \in [ArcSet -> {0, 1}]
  /\ counter \in 0 .. graph.V - 1
  /\ pc \in [ArcSet -> {"idle", "read", "relax", "done"}]
  /\ start_cost \in [ArcSet -> Int]

\* The kernel invariant, at every step of every thread: the source costs nothing, every
\* other vertex has a positive cost or none.
KernelInvariant ==
  OnDevice /\ StartedRight =>
    \A v \in VertexSet :
      IF v = source THEN cost_of[v] = 0 ELSE cost_of[v] = inf \/ cost_of[v] > 0

\* On the device a cost is given once for good, and falls from then on; no thread undoes
\* what another has improved since it read the cost of its start.
CostsOnlyFall ==
  [][OnDevice /\ StartedRight =>
       \A v \in VertexSet : cost_of[v] # inf => cost_of'[v] # inf /\ cost_of'[v] <= cost_of[v]]_vars

\* The paths from the source with at most as many arcs as there are vertices.
PathTable == [g \in Graphs |-> [x \in Vertices(g) |-> PathsFrom(g, x, g.V)]]
Known == PathTable[graph]
FromSource == Known[source]

\* The result: the cost of a cheapest path for the vertices that a path reaches, inf for
\* the others; and it is what the host gets.
ShortestAtReturn ==
  host = "returned" /\ StartedRight =>
    \A v \in VertexSet :
      LET costs == {cost(graph, P) : P \in {Q \in FromSource : Path(graph, source, v, Q)}}
      IN  IF costs = {} THEN host_cost[v] = inf
          ELSE host_cost[v] \in costs /\ \A c \in costs : host_cost[v] <= c

Terminates == <>(host = "returned")
=============================================================================
