SPECIFICATION MCSpec
CONSTANTS
  RX_CHANNEL_DEPTH = 1
  COMMAND_CHANNEL_DEPTH = 2
  TX_EVENT_CHANNEL_DEPTH = 1
  MaxCommands = 5
  MaxFrames = 4
  GPS_UTC_PROGRESS_TOLERANCE_MS = 500
  RMC_INTERVAL = 1000
  MaxLag = 500
  Epoch = 40000
  Provisional <- MCProvisional
  Errors <- MCErrors
  Step = 500
  MaxTime = 4000
INVARIANTS
  EventsMatchRequests
  ModeFollowsNewestCommand
  StopHonouredAtBoundary
  FixEventsMatchState
  AnchorIsTrue
  TrueTimeIsBelieved
PROPERTY
  EveryRequestAnswered
CHECK_DEADLOCK FALSE
