SPECIFICATION Spec
CONSTANTS
  Names = {"a", "b", "c"}
  Ports = {"p", "q"}
  Sorts = {"", "A", "B"}
  NoSort = ""
  Graphs <- MCGraphs
CHECK_DEADLOCK FALSE
INVARIANTS TypeOK Verdict
