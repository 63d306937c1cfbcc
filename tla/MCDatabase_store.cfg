SPECIFICATION StoreSpec
CONSTANTS
  Processes = {p1, p2}
  Mutations = {m1, m2, m3}
  Modes = {"file", "cutover"}
  NoFile = NoFile
  MaxFailures = 2
INVARIANTS
  OneWriter
  MemoryIsStore
PROPERTIES
  KeepsPromises
  EveryMutationAnswered
  EveryMailSettles
CHECK_DEADLOCK FALSE
