SPECIFICATION Spec
CONSTANTS
  Names = {factory, n1, n2}
  DefaultName = factory
  GenerationModulus = 6
  WearLimit = 5
  ReadsReliable = TRUE
INVARIANTS
  RamMatchesFlash
PROPERTIES
  ImplementsDurableName
