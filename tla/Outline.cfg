CONSTANTS
  Section <- Titles
  Item <- Items
  Title = Title
  Log = "Log"
  Archive = "Archive"
  Nothing = Nothing
  Boards <- Starts
  MaxSteps <- Steps
SPECIFICATION Spec
CHECK_DEADLOCK FALSE
PROPERTY EditsLand
PROPERTY FoldingKeepsCursor
PROPERTY ZoomShowsOneLevel
PROPERTY JumpLands
PROPERTY OnlyWhatWasPicked
