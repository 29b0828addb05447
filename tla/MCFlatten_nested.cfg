SPECIFICATION Spec
CONSTANTS
  Libraries <- GoodAndBad
  Top <- MCTop
  Depth = 4
CHECK_DEADLOCK FALSE
INVARIANTS NodesAreTheAgents FlowsMeet MessagesStay NoGraphWithErrors
