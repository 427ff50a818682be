SPECIFICATION FairServiceSpec
CONSTANTS
  Clients <- TwoClients
  k1 = k1
  k2 = k2
  MaxClients = 1
  QueueSize = 1
  MaxTriggers = 3
  StatusSettings <- SomeStatus
  NONE = NONE
  Selections <- SomeSelections
INVARIANTS
  SelectionCorrect
PROPERTIES
  TriggerAnswered
  SlotFreed
