CONSTANTS
  n = 4
  Graphs <- AllGraphs
  OldT <- Leftovers
SPECIFICATION TopoSpec
\* The workers may all wait, and the processes end.
CHECK_DEADLOCK FALSE
INVARIANT ListingComplete
PROPERTY DecidesInLayers
