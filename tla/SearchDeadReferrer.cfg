SPECIFICATION Spec
CONSTANTS
  a = a  b = b  c = c  k = k  NoNode = NoNode
  Nodes = {a, b, c, k}
  ClassNodes = {k}
  numberOfLeaks = 1
  LeakNode <- MCLeakNode
  Graphs <- SmallGraphs
  Options <- ShowOptions
CHECK_DEADLOCK FALSE
INVARIANTS DirectReferencesArePrinted
