SPECIFICATION Spec
CONSTANTS
  MaxInterrupts = 2
  MaxFrames = 2
  MaxSessions = 1
  SendsMusic = FALSE
  AtomicStores = FALSE
INVARIANTS
  FlushFindsAudio
  TakenFramesSilenced
