SPECIFICATION MCSpec
CONSTANTS
  Parts = {"session"}
  MAX_BOOT_SESSION = 4
  InitialCounters <- MCNewCard
  InitialDirectories <- MCNoDirectories
  MaxBoots = 4
  MaxFaults = 0
  CHECKPOINT_RECORDS = 2
  DEBUG_BUFFER_CAPACITY = 5
  DEBUG_LINE_CAPACITY = 3
  LineSizes <- MCLineSizes
  MaxSamples = 4
  MaxFailedAppends = 1
INVARIANT
  AllocatedOnce
CHECK_DEADLOCK FALSE
