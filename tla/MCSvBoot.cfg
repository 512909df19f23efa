SPECIFICATION Spec
CONSTANTS
  N = 3
  DepsMax = 2
  Graphs <- SmallGraphs
  Bundles <- SomeBundles
  Gate <- Gates
CHECK_DEADLOCK FALSE
INVARIANTS OrderCorrect
PROPERTIES StartsBehindBarriers DependentsFirst ShutdownStops UsesSvLife
