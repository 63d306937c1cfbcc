SPECIFICATION Spec
CONSTANTS
  intro = intro
  appendix = appendix
  i1 = i1
  a1 = a1
  Order <- OneFile
  Hunks = {i1}
  PathOf <- MCPathOf
  Creates = {}
  MaxText = 2
  Blocking = {}
  Deletions = {2}
  Modes = {TRUE}
  Confirms = {TRUE, FALSE}
  Requests = {r1, r2}
  MaxUserEdits = 2
  MaxVersion = 2
  UsersRestructure = FALSE
  MayFail = TRUE
  NoFile = NoFile
  Unseen = Unseen
SYMMETRY RequestSymmetry
CHECK_DEADLOCK FALSE
PROPERTIES OverwriteWasShown RollbackKeepsUserEdits
