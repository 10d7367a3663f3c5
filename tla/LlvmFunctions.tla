----------------------------- MODULE LlvmFunctions -----------------------------
(***************************************************************************)
(* LLVM functions and what Pallas asks LLVM about them: predecessors,      *)
(* dominance and natural loops (the DominatorTree and LoopInfo analyses),  *)
(* and the pass break-crit-edges that ColLLVMParser runs first.  None of   *)
(* this is code of the repository; it is modelled from how it is used.     *)
(*                                                                         *)
(* A function is a record: blocks gives each label (a natural number, 0    *)
(* the entry) its instructions, the last one a terminator with its targets *)
(* in "to"; contracts gives a label the loop contract at it; args are the  *)
(* names of the parameters; parent is the function whose contract it       *)
(* belongs to when it is a wrapper.                                        *)
(***************************************************************************)
EXTENDS LlvmInstructions, SequencesExt

Entry == 0
Labels(f) == DOMAIN f.blocks
Terminator(f, b) == Last(f.blocks[b])
Targets(f, b) == Terminator(f, b).to
Succs(f, b) == Range(Targets(f, b))
Edges(f) == {e \in Labels(f) \X Labels(f) : e[2] \in Succs(f, e[1])}

\* The labels reached from "from" without passing "avoid".
RECURSIVE Reached(_, _, _)
Reached(f, from, avoid) ==
  LET more == (from \cup UNION {Succs(f, b) : b \in from}) \ avoid
  IN  IF more = from THEN from ELSE Reached(f, more, avoid)
Reachable(f) == Reached(f, {Entry}, {})

Dominates(f, d, b) == b \notin Reached(f, {Entry} \ {d}, {d})

\* An instruction at <<block, index>> dominates another one.
DominatesAt(f, p, q) ==
  IF p[1] = q[1] THEN p[2] < q[2] ELSE Dominates(f, p[1], q[1])

\* The sources of the back edges of the loop headed by h; {} where h heads none.
Latches(f, h) ==
  {b \in Reachable(f) : h \in Succs(f, b) /\ (b = h \/ Dominates(f, h, b))}
IsLoopHeader(f, h) == h \in Reachable(f) /\ Latches(f, h) # {}
LoopBlocks(f, h) ==
  {h} \cup {b \in Reachable(f) : (b = h \/ Dominates(f, h, b))
                                 /\ Reached(f, {b}, {h} \ {b}) \cap Latches(f, h) # {}}

\* break-crit-edges: an edge from a block with several targets to a block with
\* several incoming edges gets a block of its own.
EdgeCount(f, b) == Cardinality({e \in Labels(f) \X {1, 2} :
                                  e[2] \in DOMAIN Targets(f, e[1]) /\ Targets(f, e[1])[e[2]] = b})
CriticalSlots(f) ==
  {e \in Labels(f) \X {1, 2} :
     /\ Len(Targets(f, e[1])) > 1 /\ e[2] \in DOMAIN Targets(f, e[1])
     /\ EdgeCount(f, Targets(f, e[1])[e[2]]) > 1}
NewLabel(e) == 10 + 2 * e[1] + e[2]

BreakCriticalEdges(f) ==
  LET slots == CriticalSlots(f)
      retarget(b) ==
        [Terminator(f, b) EXCEPT !.to =
           [k \in DOMAIN @ |-> IF <<b, k>> \in slots THEN NewLabel(<<b, k>>) ELSE @[k]]]
      \* one incoming pair for each edge, through its new block
      incoming(b, i) ==
        LET slotsOf(p) == SetToSortSeq({k \in DOMAIN Targets(f, p) : Targets(f, p)[k] = b},
                                       LAMBDA x, y : x < y)
            pairs(pair) == [k \in DOMAIN slotsOf(pair[1]) |->
                              LET e == <<pair[1], slotsOf(pair[1])[k]>>
                              IN  <<IF e \in slots THEN NewLabel(e) ELSE pair[1], pair[2]>>]
        IN  FlattenSeq([k \in DOMAIN i.in |-> pairs(i.in[k])])
      block(b) == [k \in DOMAIN f.blocks[b] |->
                     IF k = Len(f.blocks[b]) THEN retarget(b)
                     ELSE IF f.blocks[b][k].op = "phi"
                          THEN [f.blocks[b][k] EXCEPT !.in = incoming(b, f.blocks[b][k])]
                          ELSE f.blocks[b][k]]
      jump(e) == [Terminator(f, e[1]) EXCEPT !.op = "br", !.args = <<>>, !.spec = <<>>,
                                             !.to = <<Targets(f, e[1])[e[2]]>>]
  IN  [f EXCEPT !.blocks =
         [b \in Labels(f) \cup {NewLabel(e) : e \in slots} |->
            IF b \in Labels(f) THEN block(b)
            ELSE <<jump(CHOOSE e \in slots : NewLabel(e) = b)>>]]

================================================================================
