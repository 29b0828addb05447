SPECIFICATION Spec
CONSTANTS
  Libraries <- Renamed
  Top <- MCTop
  Depth = 4
CHECK_DEADLOCK FALSE
INVARIANTS MessagesEnter
