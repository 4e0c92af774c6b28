SPECIFICATION Spec
SYMMETRY ReaderSymmetry
CONSTANTS
  Readers = {r1, r2}
  NoMeta = NoMeta
  Faults = {}
  NodeLengths = {1}
  MaxPage = 9
  MaxNew = 1
  MaxGen = 5
  IdsPerPage = 4
  CountLimit = 3
CHECK_DEADLOCK FALSE
INVARIANTS
  CheckPasses
