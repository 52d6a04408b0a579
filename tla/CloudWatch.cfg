CONSTANTS
  a = a
  b = b
  me = me
  you = you
  s = s
  t = t
  Line = {a}
  Author = {me, you}
  Stream = {s}
  Tui = {}
  Ignore = me
  InNode = {a}
  JournalKeep = 1
  PruneEvery = 2
  MaxVersion = 4
  Faults = TRUE
  InboxCap = 1
  Nobody = Nobody
SPECIFICATION Spec
INVARIANT JournalExplains
INVARIANT WakeUpOwed
PROPERTY DropsOnlyOwn
PROPERTY OthersAreRead
