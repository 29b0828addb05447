SPECIFICATION LoaderSpec
CONSTANTS
  Sorts <- MCSorts
  input <- MCInput
  inarr <- MCInarr
  output <- MCOutput
  outarr <- MCOutarr
  Loadable <- MCSorts
  Graphs <- Mixed
  MaxMail = 3
CHECK_DEADLOCK FALSE
INVARIANTS AllOrNothing
PROPERTIES LoadedRuns
