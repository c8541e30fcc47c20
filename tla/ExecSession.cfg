SPECIFICATION FairSpec
CONSTANTS
  MaxChunks = 2
  MaxPresses = 2
  BufferChunks = 1
  WireCapacity = 2
INVARIANTS
  NoInvalidResponse
  TruthfulExit
  TruthfulAcknowledgement
  ReservedWhileLive
PROPERTIES
  InterruptsAreHeard
CHECK_DEADLOCK FALSE
