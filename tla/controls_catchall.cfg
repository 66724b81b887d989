\* What the comment on the generic catch-all says of it.
CONSTANTS
  Samples <- MCSamples
  Configs <- MCConfigs
  SoftDisableFrames = 3
  MismatchLimit = 3
  InitFrames = 2
SPECIFICATION Spec
INVARIANT
  CatchAllCatches
