SPECIFICATION Spec
CONSTANTS
  K = K  L = L  p = p  q = q  x = x  y = y  z = z
  Root = Root  app = app  dumper = dumper
  Objects = {p, q, x, y, z}
  Classes = {K, L}
  LateClasses = {}
  ClassOf <- MCClassOf
  HeapRoot = Root
  InitialHeaps <- ChainHeaps
  References <- ChainReferences
  LeakObject <- TwoLeaks
  LeakSize <- TwoSizes
  IgnoreRules <- NoRules
  consider_local_references = TRUE
  DumperThread = dumper
  ByteBits = 8
  MaxMutations = 0
CHECK_DEADLOCK FALSE
INVARIANTS ChainWithinLimitIsFound
