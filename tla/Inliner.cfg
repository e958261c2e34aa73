SPECIFICATION InlineSpec
CONSTANTS
  F = 4
  Programs <- MCPrograms
INVARIANTS
  ExternalCallsKept
  NoNewRecursion
  InlinedExhaustively
PROPERTIES
  InlineTerminates
CHECK_DEADLOCK FALSE
