SPECIFICATION Spec
CONSTANTS
  text1 = text1
  text2 = text2
  Paths = {paper, intro}
  Contents = {text1, text2}
  Clients = {c1}
  FirstMain = paper
  NoFile = NoFile
  NoView = NoView
  NoClient = NoClient
  MayFail = TRUE
  MaxFailures = 1
  MaxVersion = 4
SYMMETRY MCSymmetry
INVARIANTS
  SnapshotIdentity
PROPERTIES
  NoLostUpdate
  KeepsPromise
