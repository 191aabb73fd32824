SPECIFICATION Spec
CONSTANTS
  A = A  B = B  C = C  I = I  J = J  f = f  g = g  z = z
  NoType = NoType  NoName = NoName
  Types = {A, B, C, I, J}
  Names = {f, g, z}
  Hierarchies <- MCHierarchies
CHECK_DEADLOCK FALSE
INVARIANTS RuleSelectsItsField PrintedNameIsRight
