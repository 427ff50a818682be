CONSTANTS
  Controls = {"control"}
  Inferers = {"infer"}
  Fallback = TRUE
  Threshold = 2
  MaxOutages = 1
  MaxRequests = 3
SPECIFICATION FairSpec
INVARIANTS PreviewHasThread NothingFrozen
PROPERTIES CaptureRecovers CallsReturn
