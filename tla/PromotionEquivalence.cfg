SPECIFICATION RunSpec
CONSTANTS
  N = 5
  Allocas <- MCAllocas
  Scalars <- MCScalars
  Programs <- MCPrograms
  Tokens = 3
INVARIANTS
  NoUseOfErased
  SameObservations
PROPERTIES
  PromotionTerminates
CHECK_DEADLOCK FALSE
