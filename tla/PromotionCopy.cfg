SPECIFICATION PromotionSpec
CONSTANTS
  N = 5
  Allocas <- MCAllocas
  Scalars <- MCScalars
  Programs <- MCCopy
INVARIANTS
  ErasedAreDead
CHECK_DEADLOCK FALSE
