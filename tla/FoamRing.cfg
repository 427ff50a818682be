SPECIFICATION FairSpec
CONSTANTS
  RequestIds = {r1, r2}
  TriggerCap = 2
  GeometryCap = 1
  RegistryCap = 1
  MaxJobs = 3
  MayStop = TRUE
INVARIANTS NotLost OneLiveJob
PROPERTIES OutcomeFinal JobFinishes WorkersEnd
CHECK_DEADLOCK FALSE
