\* A job of two batches, the second not full, with a cover; two faults, one repeat
\* of a request within a call.
CONSTANTS
  Tracks = 3
  BatchSize = 2
  MaxAttempts = 2
  MaxStalls = 1
  MaxRetries = 1
  HasCover = TRUE
  MaxFaults = 2
SPECIFICATION FairSpec
INVARIANTS CompletedHasAllTracks RetriesRepeatOneBatch CompletedInBoth
PROPERTIES RecordedPlaylistStays RowSettles
CHECK_DEADLOCK FALSE
