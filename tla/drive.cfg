\* Times keep their order: a round of flowinitd, then the pause offroad.
CONSTANTS
  HEARTBEAT_CNT = 2
  OFFROAD_MIN = 1
  DISCONNECT_TIMEOUT = 1
  MANAGER_PERIOD = 1
  Never = never
  MaxTurns = 3
  MaxFailures = 1
SPECIFICATION Spec
INVARIANTS
  TypeOK
  OffWithinTwoLoops
  EngagedHeartbeatsEnd
PROPERTIES
  ParamsOfThisDrive
  OneControlsdPerDrive
  DriveComesUp
  DriveGoesDown
