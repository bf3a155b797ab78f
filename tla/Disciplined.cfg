SPECIFICATION Spec
CONSTANTS
  MAX_THREAD_NUM = 4
  MAX_SLEEP = 1
  INT_RANGE = 1
  WindowTicks = {"jump"}
  KillsSleepers = FALSE
INVARIANTS OnePlace
PROPERTY NoOvertaking
