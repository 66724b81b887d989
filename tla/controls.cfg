\* Every order of samples, and a planner that updates between any two steps; short timers.
CONSTANTS
  Samples <- PlanSamples
  Configs <- MCConfigs
  SoftDisableFrames = 4
  MismatchLimit = 4
  InitFrames = 2
  CarStates <- MCCarStates
  LANE_CHANGE_TIME_MAX = 4
  FullProb = 2
SPECIFICATION PlanSpec
INVARIANTS
  TypeOK
  SoftDisableIsBounded
  PandaVetoEndsEngagement
  LaneChangesAreAskedFor
PROPERTIES
  PedalsHaveAuthority
  EngagesOnlyWhenStable
  ImplementsAuthority
