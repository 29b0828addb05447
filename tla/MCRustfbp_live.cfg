SPECIFICATION FairSpec
CONSTANTS
  None = None
  Agents <- LiveAgents
  Clients <- TwoClients
  InPorts = {"mid.in", "snk.in", "in[0]", "in[1]", "cnt.in", "cnt.opt", "cnt.acc"}
  OutPorts = {"src.out", "mid.out", "out[0]", "out[1]", "acc.out"}
  Owner <- LiveOwner
  From <- LiveFrom
  Silent = {"cnt.opt", "cnt.acc"}
  Elements <- ArrayElements
  Slot <- OneEach
  Wired <- StateWired
  Capacity = 1
  PoolSize = 2
  Bodies <- LiveBodies
  Scripts <- LiveScripts
INVARIANTS SchedulerSurvives
PROPERTIES HaltsQuiescent JoinReturns Drained ImplementsDataflow
