SPECIFICATION QuitSpec
CONSTANTS
  Turns = {voice}
  Ticks = {t1}
  GameCount = 1
  MaxTurns = 2
  Debate = FALSE
  None = None
CHECK_DEADLOCK FALSE
PROPERTY QuitSendsNoCard
