CONSTANTS
  s = s
  t = t
  p = p
  q = q
  Session = {s, t}
  Model = {m, n}
  Inode = {i, j, k, l}
  None = None
  Pane = {p}
  Line = {q}
  Pinned = {q}
  Wip = {q}
  Cadence = 1
  Starts <- AllStarts
  Viewed = s
SPECIFICATION Spec
CHECK_DEADLOCK FALSE
INVARIANT SidecarMerges
INVARIANT NewsIsKept
INVARIANT PinsReach
INVARIANT PaneShowsLatest
PROPERTY PageCatchesUp
