SPECIFICATION FairSpec
CONSTANTS
  None = None
  Agents <- TwoAgents
  Clients <- TwoClients
  InPorts = {"nand.a", "nand.b"}
  OutPorts = {"a.out", "b.out"}
  Owner <- TwoOwner
  From <- TwoFrom
  Silent = {}
  Elements = {}
  Slot <- OneEach
  Wired <- Unwired
  Capacity = 1
  PoolSize = 1
  Bodies <- TwoBodies
  Scripts <- TwoScripts
PROPERTY JoinReturns
CHECK_DEADLOCK FALSE
