SPECIFICATION EditingSpec
CONSTANTS
  Clients = {c1, c2}
  Flusher = flusher
  Paths = {p, q}
  FirstPath = p
  Edits = {e1, e2}
  DirectTexts = {x1}
  NoFile = NoFile
  CompactAfter = 2
  MaxDocs = 2
  MaxCalls = 3
  MaxDirect = 1
  MaxCrashes = 1
INVARIANTS
  NothingSkipped
  SavedEditsStay
  OneDocumentPerFile
PROPERTIES
  KeepsDirectText
  LiveTextIsSaved
  TypedTextIsSaved
CHECK_DEADLOCK FALSE
