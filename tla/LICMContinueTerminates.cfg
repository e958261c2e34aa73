SPECIFICATION LICMSpec
CONSTANTS
  N = 6
  Programs <- MCContinuePrograms
  Graphs <- MCContinueGraphs
  Loads <- MCLoads
  Globals <- MCGlobals
  Callees <- MCCallees
  Writers <- MCWriters
PROPERTIES
  HoistTerminates
CHECK_DEADLOCK FALSE
