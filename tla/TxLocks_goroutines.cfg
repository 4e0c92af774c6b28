SPECIFICATION FairSpec
CONSTANTS
  Readers = {r1, r2}
  Writers = {w1}
  Closers = {c1}
  Depth = 1
  Free = Free
  MaxTxid = 4
INVARIANTS
  ReleaseSparesReaders
  SnapshotFresh
  ReadersMapped
  WriterMapped
  NoCircularWait
PROPERTIES
  WriterEnds
  BeginReturns
  CloseEnds
