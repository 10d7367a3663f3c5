CONSTANTS
  MaxBlocks = 6
  Inputs <- RunInputs
SPECIFICATION MCSpec
INVARIANTS
  BodiesAreWhole
  NothingIsLost
  SameMeaning
  SpecsSeeTheVariable
  ContractsAreWhole
  StructsKeepTheirFields
PROPERTY TranslationAdvances
