SPECIFICATION LiveSpec
CONSTANTS
  MaxInterrupts = 1
  MaxFrames = 1
  MaxSessions = 1
  SendsMusic = TRUE
  AtomicStores = TRUE
PROPERTIES
  StopEndsThread
  PlayingEnds
  AcceptsAudioAgain
  PendingMusicStarts
