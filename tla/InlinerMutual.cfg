SPECIFICATION InlineSpec
CONSTANTS
  F = 4
  Programs <- MCMutual
PROPERTIES
  InlineAlwaysTerminates
CHECK_DEADLOCK FALSE
