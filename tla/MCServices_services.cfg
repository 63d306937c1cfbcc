SPECIFICATION Spec
CONSTANTS
  None = None
  Callers = {"c1", "c2"}
  Entries = {"a", "b"}
  MaxJobs = 2
  MaxRevision = 2
  MaxSettings = 1
  MaxCrashes = 1
  MemoryTexts = {"a", "b"}
  Instructions = {"i1", "i2"}
  MaxMemories = 3
  MaxFileVersion = 2
  Befores <- SmallBefores
  Afters <- SmallAfters
  DraftTexts = {"a", "b", "c"}
  FirstText = "a"
  MaxDraftRevision = 2
  MaxDraftVersion = 3
  MaxLives = 2
  Sessions = {"s1", "s2"}
  Texts = {"a", "b"}
  MaxEdits <- EditsOf
  MaxVersion = 4
  MaxLost = 1
  Deliveries = {"d1"}
  Dispatchers = {"inline", "w1", "w2"}
  Inline = "inline"
  Budget = 2
  MaxTroubles = 2
INVARIANTS
  PapersAgree
  HunksRebuildTexts
  Truthful
  DeliveredOnce
PROPERTIES
  UsersWordsStay
  DraftsKeepText
CHECK_DEADLOCK FALSE
