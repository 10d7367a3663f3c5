\* Graphs of three to five vertices, at most seven arcs.
CONSTANTS
  Graphs <- SmallGraphs
  Memories <- SmallMemories
SPECIFICATION FairSpec
INVARIANTS
  TypeOK
  KernelInvariant
  AnnotationsHold
  ShortestAtReturn
PROPERTIES
  CostsOnlyFall
  Terminates
CHECK_DEADLOCK FALSE
