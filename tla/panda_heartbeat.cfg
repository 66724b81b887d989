\* The heartbeat, the mismatch count, lag, the siren and host faults, on a board with
\* an ignition line.
CONSTANTS
  RxFrames <- HeartbeatFrames
  TxFrames <- ActuatingFrames
  Requests <- ModeRequests
  AltExperiences <- NoAlternative
  CheckIgnition <- LineOrNot
  HeartbeatOn = 4
  HeartbeatOff = 2
  MaxCount = 4
  MismatchLimit = 3
  CountdownStart = 2
  SirenTime = 2
  RelayTransition = 1
  LagCap = 2
  Pyboard = FALSE
SPECIFICATION FairSpec
INVARIANTS
  TypeOK
  CarModeNeedsHeartbeat
  UnusedControlsExpire
  HeldControlsAreFresh
PROPERTIES
  SirenOnLostControls
  LostHostLeavesCarMode
