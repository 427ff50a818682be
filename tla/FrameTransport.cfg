SPECIFICATION FairTransportSpec
CONSTANTS
  LastFrame = 3
  Kills = 1
  CacheFrames = 2
INVARIANTS PromptPairIsOneFrameSet ImagesAreWhole GiveUpIsFinal SnapshotOfPublished
PROPERTIES CacheCatchesUp
