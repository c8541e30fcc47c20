SPECIFICATION FairSpec
CONSTANTS
  Writers = {w1, w2}
  Creator = w1
  MaxCharacters = 4
  Width <- MixedWidth
  ChunkBytes = 3
  BufferBytes = 5
INVARIANTS
  SleepingReaderIsNotified
PROPERTIES
  StreamSpec
  EndReleasesWriters
  WritersAreReleased
CHECK_DEADLOCK FALSE
