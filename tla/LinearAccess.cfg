CONSTANTS
  Env <- MCEnv
  Problems <- OrdinaryProblems
  Values <- MCValues
  Indices <- MCIndices
  Nodes <- MCNodes
  NodeValue <- ValueOf
SPECIFICATION Spec
INVARIANTS NothingLost RewriteIsExact
CHECK_DEADLOCK FALSE
