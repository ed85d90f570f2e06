SPECIFICATION Spec
CONSTANTS
  SEQUENCE_GAP_TOLERANCE = 1
  REBOOT_SEQUENCE_WINDOW = 0
  LINK_LOSS_TIMEOUT = 7
  LINK_WATCHDOG_INTERVAL = 1
  LOCAL_SAMPLE_INTERVAL = 4
  RX_QUEUE_DEPTH = 1
  Stalls <- MCShortStalls
  MaxStall = 1
  Rejects <- MCDamaged
  Numbers <- MCNumbers
  MaxTime = 24
  MaxFrames = 5
INVARIANTS
  CrcFailuresDoNotHoldTheScreen
CHECK_DEADLOCK FALSE
