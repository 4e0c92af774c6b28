SPECIFICATION Spec
SYMMETRY ReaderSymmetry
CONSTANTS
  Readers = {r1, r2}
  NoMeta = NoMeta
  Faults = {"alloc", "write", "sync", "metawrite", "power"}
  NodeLengths = {1, 2}
  MaxPage = 9
  MaxNew = 1
  MaxGen = 4
  IdsPerPage = 4
  CountLimit = 65535
CHECK_DEADLOCK FALSE
INVARIANTS
  TypeOK
  SnapshotsIntact
  SnapshotsNotAllocatable
  CheckPasses
  FreelistFits
  NoPanic
  ClosedFileIsUsable
  VisibleIsAcked

PROPERTIES
  ImplementsStore
