SPECIFICATION FairSpec
CONSTANTS
  parse = parse
  compile = compile
  compile2 = compile2
  Jobs = {parse, compile, compile2}
  Kinds <- MCKinds
  Kind <- MCKind
  MaxAttempts <- MCMaxAttempts
  TotalLimit = 2
  KindLimit <- OnePerKind
  Autostart <- MCAutostart
  Resumed = {parse, compile, compile2}
  ProjectJobs = {parse, compile, compile2}
  ReferenceJobs = {parse}
  Workers = {}
  NoWorker = NoWorker
  NoJob = NoJob
  StoreMayFail = FALSE
  AdminRetries = FALSE
  MaxRestarts = 1
  MaxWrites = 0
CHECK_DEADLOCK FALSE
INVARIANTS AttemptsBounded DurableWhenDrained
PROPERTIES ActiveJobsSettle
