CONSTANTS
  Bindings = 2
  Env <- MCEnv
  Values <- MCValues
  Quantifiers <- OrdinaryQuantifiers
  Simples <- MCSimples
  ConstantsOnly = FALSE
SPECIFICATION Spec
INVARIANT QuantifierIsKept
PROPERTY TriggersKeepShape
CHECK_DEADLOCK FALSE
