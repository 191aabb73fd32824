SPECIFICATION FairSpec
CONSTANTS
  a = a  b = b  c = c  k = k  NoNode = NoNode
  Nodes = {a, b, c, k}
  ClassNodes = {k}
  numberOfLeaks = 2
  LeakNode <- MCLeakNode
  Graphs <- TwoLeakGraphs
  Options <- SomeOptions
CHECK_DEADLOCK FALSE
INVARIANTS TypeOK VisitedMarksTheStack NoChainIsMissed ReportedChainIsReal
PROPERTIES Terminates
