SPECIFICATION OptSpec
CONSTANTS
  MaxInt = 3
  Programs <- MCPrograms
  Memories <- MCMemories
INVARIANTS
  NoDanglingOperand
  NothingLeft
PROPERTIES
  OptRefines
  OptTerminates
CHECK_DEADLOCK FALSE
