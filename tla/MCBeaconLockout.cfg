SPECIFICATION Spec
CONSTANTS
  SEQUENCE_GAP_TOLERANCE = 1
  REBOOT_SEQUENCE_WINDOW = 2
  Jumps <- MCJumps
  MaxBeats = 18
  MaxJumps = 0
  MaxReboots = 1
  LockoutBound = 5
INVARIANTS
  NoStickyLockout
CHECK_DEADLOCK FALSE
