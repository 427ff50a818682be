CONSTANTS
  HttpClients = {}
  Slots = {s1}
  PlcWaits = TRUE
  AlwaysOk = TRUE
  SpawnMayFail = FALSE
  PlcTasks = {"tube", "coordinate"}
  PlcValues = {0, 1, 2}
  MaxRaises = 2
  MaxCalls = 0
SPECIFICATION FairSpec
INVARIANTS ResultAnswersTrigger
PROPERTIES ImplementsProtocol TriggerAnswered ResultCleared
CHECK_DEADLOCK FALSE
