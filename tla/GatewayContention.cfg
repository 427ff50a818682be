CONSTANTS
  HttpClients = {h1}
  Slots = {s1}
  PlcWaits = FALSE
  AlwaysOk = TRUE
  SpawnMayFail = TRUE
  PlcTasks = {"tube", "coordinate"}
  PlcValues = {0, 1, 2}
  MaxRaises = 1
  MaxCalls = 1
SPECIFICATION Spec
INVARIANTS OneExecution OneRunPerEdge CoordinatesMatchResult
CHECK_DEADLOCK FALSE
