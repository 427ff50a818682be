CONSTANTS
  Variants = {"orbbec", "hp60c"}
  MaxRestarts = 2
  MaxMishaps = 1
SPECIFICATION FairSpec
INVARIANTS OneRebootPerIncident
PROPERTIES RestartsComeFirst FaultEscalates FrozenPreviewEnds
