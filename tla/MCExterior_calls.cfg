SPECIFICATION ClientSpec
CONSTANTS
  Sorts <- MCSorts
  input <- MCInput
  inarr <- MCInarr
  output <- MCOutput
  outarr <- MCOutarr
  Loadable <- MCLoadable
  Names = {"a", "b"}
  Places <- MCPlaces
  MaxCalls = 6
  MaxAgents = 3
CHECK_DEADLOCK FALSE
INVARIANTS TablesAgree SchemasAgree EditsSucceed Wired
