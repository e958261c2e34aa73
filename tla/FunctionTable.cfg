SPECIFICATION FuncSpec
CONSTANTS
  Names = {"f", "putint"}
  Library <- MCLibrary
  Types = {"void", "int", "char"}
  Signatures <- MCSignatures
  MaxDecls = 3
INVARIANTS
  OneBody
  BodiesFit
  CallsFit
CHECK_DEADLOCK FALSE
