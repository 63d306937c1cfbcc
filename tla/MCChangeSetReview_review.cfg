SPECIFICATION Spec
CONSTANTS
  intro = intro
  appendix = appendix
  i1 = i1
  a1 = a1
  Order <- TwoFiles
  Hunks = {i1, a1}
  PathOf <- MCPathOf
  Creates = {appendix}
  MaxText = 2
  Blocking = {2}
  Deletions = {}
  Modes = {TRUE, FALSE}
  Confirms = {TRUE, FALSE}
  Requests = {r1}
  MaxUserEdits = 1
  MaxVersion = 2
  UsersRestructure = FALSE
  MayFail = TRUE
  NoFile = NoFile
  Unseen = Unseen
CHECK_DEADLOCK FALSE
INVARIANTS RecordedVersionIsReviewed LinksFollow
