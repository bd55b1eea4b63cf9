SPECIFICATION Spec
CONSTANTS
  MicCount = 5
  RowCount = 2
  BufCap = 3
  OpenCount = 2
  PushCount = 2
  CallCount = 1
  WordCount = 3
  Said <- SomeSaid
  Text <- SomeText
  ChunkSizes = {50, 101, 151}
  FrameLen = 100
  Warmup = 2
  Managers = {m1}
  Games = {g1}
  TurnCount = 4
  MaxTurns = 1
  Window = 2
  MemoryTurns = 2
  RoastMin = 1
  JobCount = 1
  TaskCount = 1
  Outages <- SomeOutages
  ModelFails = FALSE
  Calm = TRUE
  None = None
CHECK_DEADLOCK FALSE
INVARIANTS
  AudioIsOwn
  OneStream
  DecoderInStep
  ReplyAsHeard
  FreeChatKept
  NumbersNotReused
