SPECIFICATION Spec
CONSTANTS
  parse = parse
  compile = compile
  compile2 = compile2
  Jobs = {parse, compile}
  Kinds <- MCKinds
  Kind <- MCKind
  MaxAttempts <- MCMaxAttempts
  TotalLimit = 2
  KindLimit <- OnePerKind
  Autostart <- MCAutostart
  Resumed = {parse, compile}
  ProjectJobs = {parse, compile}
  ReferenceJobs = {parse}
  Workers = {w1}
  NoWorker = NoWorker
  NoJob = NoJob
  StoreMayFail = TRUE
  AdminRetries = TRUE
  MaxRestarts = 1
  MaxWrites = 1
CHECK_DEADLOCK FALSE
INVARIANTS RunningHasOwner DeletedReferenceJobsStayDeleted
PROPERTIES CancelledIsFinal
