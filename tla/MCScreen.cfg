SPECIFICATION MCSpec
CONSTANTS
  SEQUENCE_GAP_TOLERANCE = 1
  REBOOT_SEQUENCE_WINDOW = 0
  LINK_LOSS_TIMEOUT = 2000
  Telemetry <- MCTelemetry
  GpsStates <- MCGpsStates
  ClockStep = 1000
  MaxTime = 7000
  MaxPackets = 6
INVARIANTS
  ScreenTellsTheLoop
  BootIsReported
PROPERTIES
  BusSuitsTheDevice
  BootEnds
CHECK_DEADLOCK FALSE
