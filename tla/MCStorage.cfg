SPECIFICATION MCSpec
CONSTANTS
  Parts = {"session", "logs"}
  MAX_BOOT_SESSION = 4
  InitialCounters <- MCCounters
  InitialDirectories <- MCDirectories
  MaxBoots = 4
  MaxFaults = 2
  CHECKPOINT_RECORDS = 2
  DEBUG_BUFFER_CAPACITY = 5
  DEBUG_LINE_CAPACITY = 3
  LineSizes <- MCLineSizes
  MaxSamples = 4
  MaxFailedAppends = 1
INVARIANTS
  RecordedNumbersGrow
  CleanBootRecords
  HandlesMatchMode
  LossIsBounded
  DebugLogIsKept
CHECK_DEADLOCK FALSE
