SPECIFICATION LICMSpec
CONSTANTS
  N = 7
  Programs <- MCArrayPrograms
  Graphs <- MCArrayGraphs
  Loads <- MCLoads
  Globals <- MCGlobals
  Callees <- MCCallees
  Writers <- MCWriters
INVARIANTS
  HoistUnclobbered
CHECK_DEADLOCK FALSE
