SPECIFICATION FairSpec
CONSTANTS
  Launchers = {l1, l2}
  None = None
  MaxLeaks = 1
  num_elements_to_dump = 1
  BufferSize = 3
  Patient <- BothKinds
CHECK_DEADLOCK FALSE
INVARIANTS OneReportPerLauncher TruncationMeansDeath ReportsAreAccountedFor LostReportIsNoticed OwnReport
PROPERTIES DeliversReports LauncherEnds DumpEnds
