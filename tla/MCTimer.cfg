SPECIFICATION Spec
CONSTANTS
  WORD = 64
  MS_PER_TICK = 2
  Milliseconds = {0, 1, 2, 5, 7}
  SAFE_MODE = FALSE
  HZ = 2
  MINUTE = 3
  HOUR = 3
  DAY = 2
  BASE = 3
  BUFFER = 4
INVARIANTS Inv UptimeIsTrue
PROPERTIES SleepsAsLongAsAsked SleepReturns
