SPECIFICATION ExprSpec
CONSTANTS
  MaxInt = 127
  MaxChars = 3
  Numbers = {0, 5, 127, 128, 129, 999, 1000}
  MaxParens = 1
  Bounds = {0, 2, 3}
  MaxStack = 3
INVARIANTS
  ValuesMatchTypes
  InstructionsWellTyped
  LiteralsExact
CHECK_DEADLOCK FALSE
