SPECIFICATION ScopesSpec
CONSTANTS
  Names = {"x", "y"}
  Types = {"int", "bool"}
  MaxScopes = 4
  MaxDecls = 3
  MaxRefs = 2
INVARIANTS
  LookupStable
  StorageReady
  MeansLikeInC
CHECK_DEADLOCK FALSE
