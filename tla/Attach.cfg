SPECIFICATION FairSpec
CONSTANTS
  MaxTexts = 1
  MaxAttaches = 3
  Options <- SomeOptions
  Settings <- AllSettings
CHECK_DEADLOCK FALSE
INVARIANTS TypeOK OneDumpAtATime MapsAreLive RulesInForce InternalErrorIsExact
PROPERTIES DumpFlagIsReleased RefusedOnlyDuringADump
