SPECIFICATION Spec
CONSTANTS
  MAX_THREAD_NUM = 2
  MAX_SLEEP = 1
  INT_RANGE = 1
  WindowTicks = {}
  KillsSleepers = TRUE
INVARIANT DeletedEverywhere
