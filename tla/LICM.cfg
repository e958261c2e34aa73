SPECIFICATION LICMSpec
CONSTANTS
  N = 7
  Programs <- MCPrograms
  Graphs <- MCGraphs
  Loads <- MCLoads
  Globals <- MCGlobals
  Callees <- MCCallees
  Writers <- MCWriters
INVARIANTS
  DomsSound
  DomsComplete
  LoopClosed
  LoopMinimal
  HoistDominates
  HoistUnclobbered
  NothingLeftToHoist
PROPERTIES
  AnalysisImplemented
  NoBlockRevisited
  HoistTerminates
CHECK_DEADLOCK FALSE
