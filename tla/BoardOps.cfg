CONSTANTS
  Text <- Texts
  Status <- Marks
  Title <- Titles
  Log = "Log"
  Archive = "Archive"
  Ideas = "Ideas"
  Docs <- Boards
  MaxOps = 2
SPECIFICATION Spec
CHECK_DEADLOCK FALSE
PROPERTIES
  NothingVanishes
  OthersStay
  StaysInside
  RepliesLand
