CONSTANTS
  a = a
  b = b
  Line = {a, b}
  UndoLimit = 1
  HistLimit = 2
  MaxEdits = 3
  Faults = TRUE
SYMMETRY LineSymmetry
SPECIFICATION Spec
INVARIANTS
  NothingLost
  StaleScreenIsOwedAReload
