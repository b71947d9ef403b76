SPECIFICATION Spec
CONSTANTS
  MaxFrames = 3
  MaxSessions = 3
INVARIANTS
  NoLostWakeup
  VerdictIsGiven
PROPERTIES
  WaitsEnd
  StopReturns
