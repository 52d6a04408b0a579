CONSTANTS
  a = a
  b = b
  me = me
  you = you
  s = s
  t = t
  Line = {a, b}
  Author = {you}
  Stream = {t}
  Tui = {t}
  Ignore = Nobody
  InNode = {a}
  JournalKeep = 9
  PruneEvery = 2
  MaxVersion = 3
  Faults = TRUE
  InboxCap = 1
  Nobody = Nobody
SPECIFICATION Spec
PROPERTY ScreenCatchesUp
