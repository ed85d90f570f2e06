SPECIFICATION MCSpec
CONSTANTS
  ButtonCount = 3
  DEBOUNCE_SAMPLES = 2
  EVENT_CHANNEL_DEPTH = 1
  UI_SOUND_QUEUE_DEPTH = 1
  AUDIO_SERVICE_INTERVAL_MS = 5
  Ticks <- NoTicks
  Tones <- MCTones
  Sounds = {"LinkLost"}
  SoundTicks <- MCTicks
  QueueDepth = 2
  Timeout = 200
  MaxHold = 4
  SYSTEM_CLOCK = 150000000
  Frequencies <- MCFrequencies
  Drives = {1, 10, 50}
INVARIANTS
  EventsTellTheState
  SpeakerTellsTheButtons
  SoundsComeInTime
  SoundsTellTheLink
  ToneIsTrue
PROPERTY
  SpeakerSettles
