SPECIFICATION Spec
CONSTANTS
  MaxInterrupts = 1
  MaxFrames = 1
  MaxSessions = 1
  SendsMusic = FALSE
  AtomicStores = TRUE
INVARIANT InterruptSilences
