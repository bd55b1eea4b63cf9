SPECIFICATION Spec
CONSTANTS
  ReplyCount = 2
  StepCount = 2
  CallCount = 2
  MaxConcurrency = 1
  MaxSteps = 1
  MaxVolume = 2
  UnmuteLevel = 1
  Orders <- FewOrders
  CommandCount = 2
  Together = 2
  FlushCount = 2
  MaxAttempts = 2
  RunCount = 2
  SignalCount = 2
  Habits <- SomeHabits
CHECK_DEADLOCK FALSE
INVARIANTS
  CallsAnswered
  RepliesRemembered
  ToldWasHeld
  LastWordWins
  SignalsRight
PROPERTIES
  DeferredDrains
