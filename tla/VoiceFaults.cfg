SPECIFICATION FairSpec
CONSTANTS
  TurnCount = 2
  InjectCount = 1
  WakeCount = 1
  MaxSid = 2
  QueueCap = 2
  FlushAt = 2
  FaultSets <- SomeFaults
CHECK_DEADLOCK FALSE
INVARIANTS
  RowsAreOwn
  WordsOnce
  SpeechStateRight
PROPERTIES
  NoOverlap
  RowsLand
