SPECIFICATION Spec
CONSTANTS
  Files = {f1}
  Main = f1
  MaxLocal = 2
  MaxRemote = 1
  MaxRuns = 1
  MaxCrashes = 0
  MaxFailures = 0
INVARIANTS
  WorkspaceEditsKept
CHECK_DEADLOCK FALSE
