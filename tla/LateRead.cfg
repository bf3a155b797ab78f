SPECIFICATION ReturnsSpec
CONSTANTS
  MAX_THREAD_NUM = 2
  MAX_SLEEP = 0
  INT_RANGE = 1
  WindowTicks = {}
  KillsSleepers = FALSE
INVARIANT
  AnswersRight
