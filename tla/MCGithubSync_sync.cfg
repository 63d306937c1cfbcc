SPECIFICATION Spec
CONSTANTS
  Files = {f1, f2}
  Main = f1
  MaxLocal = 2
  MaxRemote = 2
  MaxRuns = 2
  MaxCrashes = 1
  MaxFailures = 1
INVARIANTS
  OneOpenRun
  RemoteEditsKept
  MergeKeepsBothSides
PROPERTIES
  CompletedIsInSync
CHECK_DEADLOCK FALSE
