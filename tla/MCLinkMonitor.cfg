SPECIFICATION Spec
CONSTANTS
  SEQUENCE_GAP_TOLERANCE = 1
  REBOOT_SEQUENCE_WINDOW = 0
  LINK_LOSS_TIMEOUT = 7
  LINK_WATCHDOG_INTERVAL = 1
  LOCAL_SAMPLE_INTERVAL = 4
  RX_QUEUE_DEPTH = 2
  Stalls <- MCStalls
  MaxStall = 5
  Rejects <- MCRejects
  Numbers <- MCNumbers
  MaxTime = 20
  MaxFrames = 3
INVARIANTS
  LogMatchesScreen
  SilenceIsNoticed
  NoiseDelaysBounded
PROPERTIES
  SamplesKeepTime
CHECK_DEADLOCK FALSE
