SPECIFICATION Spec
CONSTANTS
  SEQUENCE_GAP_TOLERANCE = 1
  REBOOT_SEQUENCE_WINDOW = 2
  Jumps <- MCJumps
  MaxBeats = 8
  MaxJumps = 3
  MaxReboots = 2
  LockoutBound = 5
INVARIANTS
  TwoInARowResync
  JumpAccounting
  LockoutEndsAtBaseline
CHECK_DEADLOCK FALSE
