CONSTANTS
  A = A
  B = B
  Cloud = Cloud
  None = None
  Board <- BothBoards
  Line <- OneLineEach
  Starts <- AnyStart
  UndoLimit = 1
  HistLimit = 2
  MaxEdits = 3
SPECIFICATION Spec
INVARIANTS
  NothingCrosses
  SomeoneListens
