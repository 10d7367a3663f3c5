\* Three kernels with one block of eight threads.
CONSTANTS
  Size = 8
  K = 3
  Inputs <- OneArray
  ScanInputs <- OneArray
  FlagInputs <- SomeFlags
  IntSum <- SumTo
  Nothing = Nothing
SPECIFICATION MCSpec
INVARIANTS
  TypeOK
  DataRaceFree
  PrefixSummed
  AnnotationsHold
  ScanRaceFree
  ScanResults
PROPERTY EveryKernelEnds
CHECK_DEADLOCK FALSE
