SPECIFICATION LiveSpec
CONSTANTS
  u1 = u1
  u2 = u2
  f1 = f1
  Tracks <- MCTracks
  UrlTracks <- MCUrls
  Blank = Blank
  NoTrack = NoTrack
  Batches <- MCBatches
  MayStop = TRUE
  MaxToken = 4
  OpenTries = 2
INVARIANTS
  NoLostWakeup
  CurrentTrackIsActive
  OneStaleChunk
  CutStreamIsDropped
PROPERTIES
  ImplementsPlaylist
  QueueIsPlayed
  AbortedTrackIsGivenUp
  OnlyEmptyListMarksIdle
