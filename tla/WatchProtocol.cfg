CONSTANTS
  a = a
  b = b
  w1 = w1
  w2 = w2
  Line = {a, b}
  Old = {}
  InNode = {a}
  Watcher = {w1, w2}
  Faults = TRUE
  NoFile = NoFile
SPECIFICATION Spec
INVARIANT NothingMarkedUnseen
INVARIANT OwnEditNeverReported
PROPERTY EveryLineReported
PROPERTY SnapshotCatchesUp
