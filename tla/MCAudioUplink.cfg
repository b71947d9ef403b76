SPECIFICATION Spec
CONSTANTS
  PrerollFrames = 2
  HoldFrames = 2
  OpenPeak = 3
  ClosePeak = 2
  SampleMax = 3
  Captures <- Loudest
  MaxFrame = 5
  MaxRound = 2
INVARIANTS
  PrerollIsRecent
  SegmentInOrder
  SegmentIsWhole
  GateIsHysteresis
PROPERTIES
  AudioStaysInSegments
