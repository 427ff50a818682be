CONSTANTS
  Triggers = {t1, t2, t3}
  TrigCap = 2
  ResCap = 1
  Variants = {TRUE, FALSE}
  MayStop = TRUE
SPECIFICATION FairSpec
INVARIANTS NoSilentLoss
PROPERTIES ServesInOrder TriggerAnswered
CHECK_DEADLOCK FALSE
