CONSTANTS
  Whole = Whole
  Original = Original
  Gone = Gone
  cli = cli
  tui = tui
  x = x
  y = y
  Caller = {cli, tui}
  Admin = {tui}
  Tui = {tui}
  Item = {x, y}
  Ops <- MCOps
  Start <- MCStart
  Grants <- MCGrants
  MaxTries = 2
  MaxCalls = 1
  MaxChanges = 1
  Faults = TRUE
SPECIFICATION Spec
PROPERTY ImplementsRemoteCall
PROPERTY WritesAreGranted
PROPERTY EveryCallEnds
CHECK_DEADLOCK FALSE
