CONSTANTS
  cli = cli
  tui = tui
  a = a
  b = b
  Proc = {cli, tui}
  Viewer = {tui}
  Line = {a, b}
  Missing = Missing
  NoProc = NoProc
  Faults = FALSE
  UndoLimit = 2
  Kinds <- JournalingKinds
SPECIFICATION Spec
SYMMETRY LineSymmetry
PROPERTY ImplementsHistory
