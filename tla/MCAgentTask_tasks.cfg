SPECIFICATION FairSpec
CONSTANTS
  p1 = p1
  i1 = i1
  f1 = f1
  f2 = f2
  Plans = {p1}
  Issues = {i1}
  Files = {f1, f2}
  Handlers = {h1, h2}
  IssuesOf <- MCIssuesOf
  Affected <- MCAffected
  MaxCalls = 4
  MaxSaves = 1
  MaxCompiles = 2
  MaxCrashes = 1
  MaxSets = 2
INVARIANTS
  PlanFollowsItsChangeSet
  ReviewedAfterCompile
PROPERTIES
  GenerationEnds
CHECK_DEADLOCK FALSE
