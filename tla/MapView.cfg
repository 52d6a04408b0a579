CONSTANTS
  Section <- Titles
  Item <- Items
  Title = Title
  Log = "Log"
  Archive = "Archive"
  Nothing = Nothing
  Lines <- Wraps
  Boards <- Starts
  MaxEdits = 1
  MaxLooks <- Looking
SPECIFICATION Spec
CHECK_DEADLOCK FALSE
INVARIANT AllReachable
INVARIANT StackedInOrder
PROPERTY RemovalLands
PROPERTY MapOpensOnCursor
PROPERTY ZoomFoldKeepsPlace
