\* A monitored message stays away and stock cruise is switched on.
CONSTANTS
  RxFrames <- HeartbeatFrames
  TxFrames <- ActuatingFrames
  Requests <- ModeRequests
  AltExperiences <- NoAlternative
  CheckIgnition <- AlwaysOn
  HeartbeatOn = 4
  HeartbeatOff = 2
  MaxCount = 4
  MismatchLimit = 3
  CountdownStart = 2
  SirenTime = 2
  RelayTransition = 1
  LagCap = 3
  Pyboard = TRUE
SPECIFICATION Spec
INVARIANTS
  LagIsAtMostTwoSeconds
