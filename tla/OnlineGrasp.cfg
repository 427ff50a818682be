SPECIFICATION Spec
CONSTANTS
  Scenes <- SomeScenes
  MaximumPairs = 3
  MaximumVisible = 3
  MaximumSide = 2
  MaximumAxes = 2
  NoRing = 0
INVARIANTS OneVerdict TiltNeverFlattens
CHECK_DEADLOCK FALSE
