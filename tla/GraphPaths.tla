----------------------------- MODULE GraphPaths -----------------------------
(***************************************************************************)
(* The graphs and paths of ASSSP.cu.  A graph is a record of the number V  *)
(* of vertices, the number A of arcs, and the functions start, end and     *)
(* weight of an arc; vertices and arcs count from zero, a path is a        *)
(* sequence of arcs.                                                       *)
(***************************************************************************)
EXTENDS Integers, Sequences, FiniteSets

Vertices(g) == 0 .. g.V - 1
Arcs(g) == 0 .. g.A - 1

inf == -1

\* No loops, no two arcs between the same vertices, and weights above zero.
Graph(g) ==
  /\ g.V > 0 /\ g.A > 0
  /\ g.start \in [Arcs(g) -> Vertices(g)]
  /\ g.end \in [Arcs(g) -> Vertices(g)]
  /\ g.weight \in [Arcs(g) -> Nat \ {0}]
  /\ \A i \in Arcs(g) : g.start[i] # g.end[i]
  /\ \A i, j \in Arcs(g) : i # j /\ g.start[i] = g.start[j] => g.end[i] # g.end[j]

Path(g, x, y, P) ==
  /\ x \in Vertices(g) /\ y \in Vertices(g)
  /\ \A i \in 1 .. Len(P) : P[i] \in Arcs(g)
  /\ Len(P) = 0 => x = y
  /\ Len(P) > 0 => g.start[P[1]] = x /\ g.end[P[Len(P)]] = y
  /\ \A i \in 1 .. Len(P) - 1 : g.end[P[i]] = g.start[P[i + 1]]

\* A path that does not come back to a vertex it has left.
SimplePath(g, x, y, P) ==
  /\ Path(g, x, y, P)
  /\ \A i, j \in 1 .. Len(P) : i < j => g.start[P[i]] # g.end[P[j]]

cost(g, P) ==
  LET C[n \in 0 .. Len(P)] == IF n = 0 THEN 0 ELSE C[n - 1] + g.weight[P[n]] IN C[Len(P)]

\* The paths from x with at most n arcs.
PathsFrom(g, x, n) ==
  LET S[m \in 0 .. n] ==
        IF m = 0 THEN {<<>>}
        ELSE S[m - 1] \cup
             {P \in {Append(Q, a) : Q \in S[m - 1], a \in Arcs(g)} :
                Path(g, x, g.end[P[Len(P)]], P)}
  IN  S[n]

\* Among the paths PS there is one with at most len arcs, there is one that costs len.
ExPath(g, x, y, len, PS) == \E P \in PS : Len(P) <= len /\ Path(g, x, y, P)
ExPathEqual(g, x, y, len, PS) == \E P \in PS : Path(g, x, y, P) /\ cost(g, P) = len

\* The condition under which an arc is relaxed.
compare(start_cost, weight, end_cost) ==
  start_cost # inf /\ (end_cost = inf \/ start_cost + weight <= end_cost)
=============================================================================
