SPECIFICATION MCSpec
CONSTANTS
  Turns = {voice}
  Ticks = {t1}
  GameCount = 3
  MaxTurns = 3
  Debate = TRUE
  None = None
CHECK_DEADLOCK FALSE
PROPERTIES
  CalmGoesForward
  CalmAnnounced
  CalmEndedOnce
  GameOver
