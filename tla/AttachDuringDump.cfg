SPECIFICATION Spec
CONSTANTS
  MaxTexts = 1
  MaxAttaches = 2
  Options <- ValidOptions
  Settings <- AnyTimeOnly
CHECK_DEADLOCK FALSE
INVARIANTS RulesAreNotLost
