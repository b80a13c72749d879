SPECIFICATION Spec
CONSTANTS
  WORD = 8
  MS_PER_TICK = 2
  Milliseconds = {0, 1, 2, 5, 7}
  SAFE_MODE = TRUE

PROPERTY SleepReturns
CHECK_DEADLOCK FALSE
