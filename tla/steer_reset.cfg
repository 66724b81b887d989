\* A safety mode is set after the EPS reported torque.
CONSTANTS
  MaxSteer = 3
  MaxRateUp = 1
  MaxRateDown = 1
  MaxTorqueError = 1
  MaxRtDelta = 1
  MaxRtInterval = 1
  MinValidFrames = 2
  MinValidInterval = 2
  SampleSize = 2
  EpsFactor = 50
  TimerSize = 3
  Desired <- SmallTorques
  Measured <- EpsReports
  TimeCap = 3
SPECIFICATION Spec
PROPERTIES
  ModeResetsMeasuredTorque
