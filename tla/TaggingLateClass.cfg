SPECIFICATION Spec
CONSTANTS
  K = K  L = L  p = p  q = q  x = x  y = y  z = z
  Root = Root  app = app  dumper = dumper
  Objects = {p, q, x, y, z}
  Classes = {K, L}
  LateClasses = {L}
  ClassOf <- MCClassOf
  HeapRoot = Root
  InitialHeaps <- LateHeaps
  References <- LateReferences
  LeakObject <- TwoLeaks
  LeakSize <- TwoSizes
  IgnoreRules <- NoRules
  consider_local_references = FALSE
  DumperThread = dumper
  ByteBits = 8
  MaxMutations = 0
CHECK_DEADLOCK FALSE
INVARIANTS NeverFatal
