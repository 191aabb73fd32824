SPECIFICATION FairSpec
CONSTANTS
  a = a  b = b  c = c  k = k  NoNode = NoNode
  Nodes = {a, b, c, k}
  ClassNodes = {k}
  Graphs <- MCGraphs
CHECK_DEADLOCK FALSE
INVARIANTS NoUseAfterFree CountersAreExact EverythingIsFreed
PROPERTIES ReleaseTerminates
