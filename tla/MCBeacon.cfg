SPECIFICATION Spec
CONSTANTS
  SEQUENCE_GAP_TOLERANCE = 1
  REBOOT_SEQUENCE_WINDOW = 2
  MaxDelay = 1000
  WildSequences <- MCWildSequences
  ClockSteps <- MCClockSteps
  MaxTime = 6000
  MaxInFlight = 3
  MaxStray = 2
INVARIANTS
  HonestBeaconNeverSuspected
  MissedIsExact
  BaselineWasSent
CHECK_DEADLOCK FALSE
