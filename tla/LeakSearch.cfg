SPECIFICATION Spec
CONSTANTS
  cc = cc
  k1 = k1
  k1b = k1b
  k2 = k2
  m1 = m1
  m2 = m2
  h = h
  a1 = a1
  a2 = a2
  a3 = a3
  None = None
  Empty = Empty
  NoNumber = NoNumber
  Lines <- LinesMC
  Keys <- KeysMC
  hash <- hashMC
  Capacity = 2
  Classes <- ClassesMC
  Instances = {m1, m2, h}
  ClassClass = cc
  Late = {k2}
  name <- nameMC
  plain = {k1, k1b, k2}
  initialised = {cc, k1, k1b}
  assignable <- assignableMC
  sizeableClassesNum = 2
  ClassMaps <- ClassMapsMC
  Sizes = {0, 2}
  size_threshold = 1
  Configurations <- SomeConfigurations
  Addresses = {a1, a2, a3}
  Quiet = {TRUE, FALSE}
  MaxDumps = 2
INVARIANTS LeaksAreTheBigCollections TagsMeanTheirNodes FoundObjectIsTheNodes RulesHaveOneOwner RulesReachTheirClass
CHECK_DEADLOCK FALSE
SYMMETRY AddressSymmetry
