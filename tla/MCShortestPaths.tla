--------------------------- MODULE MCShortestPaths ---------------------------
(***************************************************************************)
(* Small graphs for TLC, the recursive ghost functions of ASSSP.cu and its *)
(* lemmas about paths, and the properties that speak of paths.  Each lemma *)
(* is a predicate that says what its ensures clauses promise under its     *)
(* requires clauses; PS is the set of the paths it is asked for.           *)
(***************************************************************************)
EXTENDS ShortestPaths

RECURSIVE rangeset(_), seq2set(_), collect_helper(_, _), trim(_, _, _, _, _, _), convert(_, _, _, _)

\* A graph of n vertices from a sequence of arcs <<start, end, weight>>.
GraphOf(n, arcs) ==
  [V |-> n, A |-> Len(arcs),
   start  |-> [i \in 0 .. Len(arcs) - 1 |-> arcs[i + 1][1]],
   end    |-> [i \in 0 .. Len(arcs) - 1 |-> arcs[i + 1][2]],
   weight |-> [i \in 0 .. Len(arcs) - 1 |-> arcs[i + 1][3]]]

SmallGraphs ==
  {\* a chain against the order of the arcs, where every round is needed
   GraphOf(4, << <<0, 1, 1>>, <<3, 0, 1>>, <<2, 3, 1>> >>),
   \* the direct arc is dearer than the way round, and two ways cost the same
   GraphOf(4, << <<2, 0, 5>>, <<2, 1, 1>>, <<1, 3, 1>>, <<3, 0, 2>>, <<1, 0, 3>> >>),
   \* a cycle through the source, and one beside it
   GraphOf(4, << <<2, 3, 2>>, <<3, 2, 1>>, <<3, 0, 1>>, <<0, 3, 1>>, <<0, 1, 4>> >>),
   \* five vertices, with several orders in which the costs of one vertex may fall
   GraphOf(5, << <<2, 3, 4>>, <<2, 0, 1>>, <<0, 3, 1>>, <<0, 1, 5>>, <<3, 1, 1>>, <<1, 4, 1>>,
                 <<3, 4, 3>> >>),
   \* a vertex that cannot be reached but has arcs of its own
   GraphOf(3, << <<1, 2, 1>>, <<0, 1, 1>>, <<0, 2, 1>> >>)}

\* What an array may hold before anything is stored: by luck what the program relies on, for
\* graphs of three and of more vertices, or rubbish.
SmallMemories ==
  {[v \in 0 .. 4 |-> IF v = 1 THEN 0 ELSE -1], [v \in 0 .. 4 |-> IF v = 2 THEN 0 ELSE -1],
   [v \in 0 .. 4 |-> 2 - v]}

-----------------------------------------------------------------------------
(* Appending and concatenating paths. *)

lemma_path_append(g, x, y, P, a) ==
  Path(g, x, y, P) /\ g.end[a] = x => Path(g, g.start[a], y, <<a>> \o P)

\* lemma_path_trans, lemma_cost_app, lemma_cost_path
lemma_cost_path(g, s, t, u, P, Q) ==
  Path(g, s, t, P) /\ Path(g, t, u, Q) =>
    /\ Path(g, s, u, P \o Q)
    /\ cost(g, P \o Q) = cost(g, P) + cost(g, Q)

lemma_expath_trans(g, s, t, u, P, Q) ==
  Path(g, s, t, P) /\ Path(g, t, u, Q) =>
    ExPathEqual(g, s, u, cost(g, P) + cost(g, Q), {P \o Q})

\* An arc is a path, which the contracts of Path, SimplePath and ExPathEqual promise, too.
lemma_one_path(g) ==
  \A i \in Arcs(g) : /\ SimplePath(g, g.start[i], g.end[i], <<i>>)
                     /\ cost(g, <<i>>) = g.weight[i]

\* subseq(xs, 0): all but the last.
subseq(xs) == SubSeq(xs, 1, Len(xs) - 1)

-----------------------------------------------------------------------------
(* One round.  The requires clauses that the lemmas of invariants 11 and 12 share, for the *)
(* costs before and after it.                                                              *)

CostsOfRound(g, oldcost, newcost, src) ==
  /\ \A v \in Vertices(g) :
       /\ newcost[v] = inf => oldcost[v] = newcost[v]
       /\ oldcost[v] = inf => oldcost[v] <= newcost[v]
       /\ oldcost[v] # inf => newcost[v] <= oldcost[v]
       /\ v # src => newcost[v] = inf \/ newcost[v] > 0
  /\ oldcost[src] = 0 /\ newcost[src] = 0

\* Every arc did its work, measured with the costs of the round before.
ArcsRelaxed(g, oldcost, newcost) ==
  \A a \in Arcs(g) :
    LET s == g.start[a]  e == g.end[a]
    IN  /\ oldcost[s] # inf => newcost[e] # inf
        /\ compare(oldcost[s], g.weight[a], oldcost[e]) => newcost[e] <= oldcost[s] + g.weight[a]

\* Invariant 10: a cost is the cost of a path.
Inv10(g, costs, src, PS) ==
  \A v \in Vertices(g) : costs[v] # inf => ExPathEqual(g, src, v, costs[v], PS)

\* Invariant 11: no path of at most i arcs is cheaper.
Inv11(g, costs, src, i, PS) ==
  \A v \in Vertices(g) : \A P \in PS :
    costs[v] # inf /\ Len(P) <= i /\ Path(g, src, v, P) => costs[v] <= cost(g, P)

\* Invariant 12: the vertices that a path of at most i arcs reaches have a cost.
Inv12(g, costs, src, i, PS) ==
  \A v \in Vertices(g) : ExPath(g, src, v, i, PS) => costs[v] # inf

\* lemma_inv12_helper1 to 3, for a vertex and a path to it that would contradict the lemma.
lemma_inv12_helper(g, oldcost, newcost, src, vertex, P) ==
  newcost[vertex] = inf /\ Path(g, src, vertex, P) /\ vertex # src =>
    /\ Len(P) > 0
    /\ Path(g, src, g.start[P[Len(P)]], subseq(P))
    /\ oldcost[g.start[P[Len(P)]]] = inf \/ newcost[g.end[P[Len(P)]]] # inf

lemma_inv12_preserved(g, oldcost, newcost, src, i, PS) ==
  CostsOfRound(g, oldcost, newcost, src) /\ ArcsRelaxed(g, oldcost, newcost)
    /\ Inv12(g, oldcost, src, i, PS) => Inv12(g, newcost, src, i + 1, PS)

\* lemma_inv11_helper1 to 3: a path is what comes before its last arc, and that arc.
lemma_inv11_helper(g, src, vertex, P) ==
  Path(g, src, vertex, P) /\ Len(P) > 0 =>
    /\ P = Append(subseq(P), P[Len(P)])
    /\ lemma_cost_path(g, src, g.start[P[Len(P)]], vertex, subseq(P), <<P[Len(P)]>>)

lemma_inv11_preserved(g, oldcost, newcost, src, i, PS) ==
  CostsOfRound(g, oldcost, newcost, src) /\ ArcsRelaxed(g, oldcost, newcost)
    /\ Inv10(g, oldcost, src, PS) /\ Inv11(g, oldcost, src, i, PS) /\ Inv12(g, oldcost, src, i, PS)
    => Inv11(g, newcost, src, i + 1, PS)

-----------------------------------------------------------------------------
(* Simple paths are short. *)

inbounds(xs, bound) == \A i \in DOMAIN xs : xs[i] < bound
nodupl(xs) == \A i, j \in DOMAIN xs : i < j => xs[i] # xs[j]

rangeset(max) == IF max > 0 THEN {max} \cup rangeset(max - 1) ELSE {0}
seq2set(xs) == IF Len(xs) > 0 THEN {Head(xs)} \cup seq2set(Tail(xs)) ELSE {}

\* The vertices on a path.
collect_helper(g, P) ==
  IF Len(P) > 0 THEN <<g.end[Head(P)]>> \o collect_helper(g, Tail(P)) ELSE <<>>
collect(g, x, P) == <<x>> \o collect_helper(g, P)

CollectContract(g, x, y, P) ==
  SimplePath(g, x, y, P) =>
    LET result == collect(g, x, P)
    IN  Len(result) = Len(P) + 1 /\ inbounds(result, g.V) /\ nodupl(result)

\* seq2set_nodupl
lemma_seq2set(xs) == nodupl(xs) => Cardinality(seq2set(xs)) = Len(xs)

seq_bounded_size(xs, bound) ==
  inbounds(xs, bound) /\ nodupl(xs) =>
    Cardinality(seq2set(xs) \ rangeset(bound - 1)) =
      Cardinality(seq2set(xs)) - Cardinality(seq2set(xs) \cap rangeset(bound - 1))

\* simple_path_lemma1 and its variants
simple_path_lemma1(g, x, y, P) == SimplePath(g, x, y, P) => Len(P) < g.V

-----------------------------------------------------------------------------
(* Making a path simple. *)

\* P, an (x, y)-path, followed by Q; what lies before a return to x is dropped.
trim(g, x, y, z, P, Q) ==
  IF Len(Q) = 0 THEN P
  ELSE IF g.end[Head(Q)] = x THEN trim(g, x, x, z, <<>>, Tail(Q))
       ELSE trim(g, x, g.end[Head(Q)], z, Append(P, Head(Q)), Tail(Q))

\* The arc a in front of P.
extend(g, x, y, z, a, P) == trim(g, x, y, z, <<a>>, P)

convert(g, x, y, P) ==
  IF Len(P) > 0
  THEN extend(g, x, g.end[P[1]], y, P[1], convert(g, g.end[P[1]], y, Tail(P)))
  ELSE P

\* Their contracts, and lemmas 2, 3 and 4: the result is simple, no longer and no dearer.
TrimContract(g, x, y, z, P, Q) ==
  /\ SimplePath(g, x, y, P) /\ SimplePath(g, y, z, Q)
  /\ \A i \in 2 .. Len(P), j \in 1 .. Len(Q) : g.start[P[i]] # g.end[Q[j]]
  /\ \A i \in 1 .. Len(P) : g.end[P[i]] # x
  => LET result == trim(g, x, y, z, P, Q)
     IN  /\ SimplePath(g, x, z, result)
         /\ Len(result) <= Len(P) + Len(Q)
         /\ cost(g, result) <= cost(g, P) + cost(g, Q)

ConvertContract(g, x, y, P) ==
  Path(g, x, y, P) =>
    LET result == convert(g, x, y, P)
    IN  /\ SimplePath(g, x, y, result)
        /\ Len(result) <= Len(P)
        /\ cost(g, result) <= cost(g, P)

simple_path_Part_1_lemma2(g, x, y, P) == SimplePath(g, x, y, P) => Path(g, x, y, P)

-----------------------------------------------------------------------------
\* The lemmas of the file, for the paths of a graph: PS[x] holds the paths from x.
PathLemmasHold(g, PS) ==
  /\ lemma_one_path(g)
  /\ \A x, y \in Vertices(g) : \A P \in PS[x] :
       Path(g, x, y, P) =>
         /\ simple_path_lemma1(g, x, y, P)
         /\ simple_path_Part_1_lemma2(g, x, y, P)
         /\ ConvertContract(g, x, y, P)
         /\ CollectContract(g, x, y, P)
         /\ lemma_seq2set(collect(g, x, P)) /\ seq_bounded_size(collect(g, x, P), g.V)
         /\ lemma_inv11_helper(g, x, y, P)
         /\ \A a \in Arcs(g) : lemma_path_append(g, x, y, P, a)
         /\ \A Q \in PS[y] : LET z == IF Len(Q) > 0 THEN g.end[Q[Len(Q)]] ELSE y
                             IN  /\ lemma_cost_path(g, x, y, z, P, Q)
                                 /\ lemma_expath_trans(g, x, y, z, P, Q)
                                 /\ TrimContract(g, x, y, z, P, Q)

-----------------------------------------------------------------------------
\* What ASSSP.cu states beside the kernel invariant.  A cost is at all times the cost of a
\* path (invariant 10).  Between two rounds, no path of at most counter arcs is cheaper, and
\* every vertex it reaches has a cost (invariants 11 and 12).  When a round is over, the
\* lemmas that carry the two invariants over it may be used: their requires clauses hold of
\* the costs before and after, however the threads' reads and updates were interleaved.
AnnotationsHold ==
  /\ host = "initCost" => PathLemmasHold(graph, Known)
  /\ OnDevice /\ StartedRight =>
       /\ Inv10(graph, cost_of, source, FromSource)
       /\ host = "while" =>
            /\ old_cost_of = cost_of
            /\ \A a \in ArcSet : contrib[a] = 0
            /\ Inv11(graph, cost_of, source, counter, FromSource)
            /\ Inv12(graph, cost_of, source, counter, FromSource)
       /\ host = "kernel" /\ (\A a \in ArcSet : pc[a] = "done") =>
            /\ \A a \in ArcSet : contrib[a] = 1
            /\ CostsOfRound(graph, old_cost_of, cost_of, source)
            /\ ArcsRelaxed(graph, old_cost_of, cost_of)
            /\ lemma_inv12_preserved(graph, old_cost_of, cost_of, source, counter, FromSource)
            /\ lemma_inv11_preserved(graph, old_cost_of, cost_of, source, counter, FromSource)
            /\ \A v \in VertexSet, P \in FromSource :
                 lemma_inv12_helper(graph, old_cost_of, cost_of, source, v, P)
=============================================================================
