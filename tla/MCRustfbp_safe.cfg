SPECIFICATION Spec
CONSTANTS
  None = None
  Agents <- SafeAgents
  Clients <- TwoClients
  InPorts = {"in[0]", "in[0]'", "in[0]''", "in[1]", "cnt.in", "cnt.opt", "cnt.acc", "worse.in"}
  OutPorts = {"out[0]", "out[1]", "acc.out", "bad.out"}
  Owner <- SafeOwner
  From <- SafeFrom
  Silent = {"cnt.opt", "cnt.acc"}
  Elements <- ReplaceElements
  Slot <- SafeSlot
  Wired <- StateWired
  Capacity = 2
  PoolSize = 2
  Bodies <- SafeBodies
  Scripts <- SafeScripts
CHECK_DEADLOCK FALSE
INVARIANTS TypeOK Conservation NoLostWakeup OneBox RunningCounts IInv
PROPERTIES RunsForMessage WiringIsStable
