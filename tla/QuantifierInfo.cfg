SPECIFICATION Spec
CONSTANTS
  Vars = {"n", "m", "j", "k"}
  HashOrder <- Four
  MaxReplaced = 2
  Programs <- ThreePrograms
  Assigned <- FewAssigned
  Domain <- Values
  Tolerated = {}
  MaxConjuncts = 3
  MaxDepth = 2
  MaxNesting = 1
  MaxClones = 1
INVARIANT KnowsWhatHolds
CHECK_DEADLOCK FALSE
