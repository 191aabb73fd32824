SPECIFICATION Spec
CONSTANTS
  K = K  L = L  p = p  q = q  x = x  y = y  z = z
  Root = Root  app = app  dumper = dumper
  Objects = {p, q, x, y, z}
  Classes = {K, L}
  LateClasses = {L}
  ClassOf <- MCClassOf
  HeapRoot = Root
  InitialHeaps <- AllHeaps
  References <- AllReferences
  LeakObject <- TwoLeaks
  LeakSize <- TwoSizes
  IgnoreRules <- Rules
  consider_local_references = TRUE
  DumperThread = dumper
  ByteBits = 8
  MaxMutations = 3
CHECK_DEADLOCK FALSE
INVARIANTS TypeOK EarlyStopMissesNothing FinishedIsFindable SizeCoversLeaks LeakBitsHaveProvenance ReferenceCountsAreExact FanInIsBounded ComparisonsStayInBounds LoneLeakIsFound
