SPECIFICATION FairSpec
CONSTANTS
  None = None
  False = False
  Agents = {"src", "cnt", "gen", "add", "sink", "again", "end"}
  Name <- MCName
  InPorts = {"in", "opt", "acc", "a[0]", "s1", "s2", "halt"}
  OutPorts = {"src.out", "acc.out", "x", "y"}
  Owner <- MCOwner
  From <- MCFrom
  Silent = {"opt", "acc"}
  Options = {"opt"}
  Elements = {"a[0]"}
  NoInput = {"src", "gen"}
  Wired <- MCWired
  Capacity = 2
  Messages <- MCMessages
  MaxMade = 2
  Bodies <- MCBodies
  Scripts <- MCScripts
CHECK_DEADLOCK FALSE
INVARIANTS Conservation NoLostWakeup RefCounts
PROPERTIES OptionKept StopReturns StepsAreDataflow
