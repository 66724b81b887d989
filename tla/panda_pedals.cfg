\* Pedals, cruise, checksums, relay: short timeouts, full signals.
CONSTANTS
  RxFrames <- PedalFrames
  TxFrames <- ActuatingFrames
  Requests <- CarRequests
  AltExperiences <- NoDisengage
  CheckIgnition <- AlwaysOn
  HeartbeatOn = 2
  HeartbeatOff = 1
  MaxCount = 2
  MismatchLimit = 2
  CountdownStart = 1
  SirenTime = 1
  RelayTransition = 0
  LagCap = 1
  Pyboard = TRUE
SPECIFICATION Spec
INVARIANTS
  ActuationAuthority
PROPERTIES
  ImplementsAuthority
