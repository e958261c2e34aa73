SPECIFICATION Spec
CONSTANTS
  MaxBlocks = 9
  MaxDepth = 7
CONSTRAINT Explored
INVARIANTS
  TypeOK
  WellFormed
  BuilderAtOpenBlock
  TargetsMatchLoops
  PhiMatchesPreds
  OperandsDominateUses
  LoopsAreNatural
CHECK_DEADLOCK FALSE
