SPECIFICATION MCSpec
CONSTANTS
  SEQUENCE_GAP_TOLERANCE = 4
  REBOOT_SEQUENCE_WINDOW = 2
  RX_CHANNEL_DEPTH = 1
  Stalls <- MCStalls
  MaxStall = 1000
  WildSequences <- MCWildSequences
  ClockStep = 500
  MaxTime = 5000
  MaxStray = 1
  Samples <- MCSamples
  Probed <- MCProbed
  Errors <- MCErrors
  FrameLengths = {0, 1, 43, 44, 47, 49, 255}
  BodyBytes = {0, 1, 16, 32, 63, 64, 100, 101, 127, 128, 140, 141, 200, 201, 254, 255}
  ExpectedSender <- MCExpectedSender
  ExpectedSurvey <- MCExpectedSurvey
  NMEA_LINE_CAPACITY = 4
  Lengths = {0, 2, 3, 5}
  Sentences = 3
  MIN_PLAUSIBLE_UTC_YEAR = 2024
  MAX_PLAUSIBLE_UTC_YEAR = 2079
  Seconds = {0, 59, 3600, 86399}
  FirstYear = 1980
  LastYear = 2079
INVARIANTS
  FormatIsShared
  OnlyTruePacketsCount
  NumbersAreTrue
  DatesAreTrue
PROPERTIES
  ImplementsBeacon
  SentencesArePutTogether
CHECK_DEADLOCK FALSE
