SPECIFICATION Spec
CONSTANTS
  intro = intro
  appendix = appendix
  i1 = i1
  a1 = a1
  Order <- OneFile
  Hunks = {i1}
  PathOf <- MCPathOf
  Creates = {}
  MaxText = 2
  Blocking = {2}
  Deletions = {}
  Modes = {TRUE, FALSE}
  Confirms = {FALSE}
  Requests = {r1, r2}
  MaxUserEdits = 1
  MaxVersion = 2
  UsersRestructure = TRUE
  MayFail = TRUE
  NoFile = NoFile
  Unseen = Unseen
SYMMETRY RequestSymmetry
CHECK_DEADLOCK FALSE
INVARIANTS AcceptedIsJustified
PROPERTIES FinishedIsFinal EditsKeepDecisions
