CONSTANTS
  cli = cli
  tui = tui
  a = a
  b = b
  Proc = {cli, tui}
  Viewer = {tui}
  Line = {a, b}
  Missing = Missing
  NoProc = NoProc
  Faults = TRUE
  UndoLimit = 2
  Kinds <- AllKinds
SPECIFICATION Spec
SYMMETRY LineSymmetry
INVARIANT Reversible
PROPERTY RestoresReal
PROPERTY LosesOnlyItsOwn
PROPERTY EditLands
