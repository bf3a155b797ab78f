SPECIFICATION Spec
CONSTANTS
  MAX_THREAD_NUM = 2
  MAX_SLEEP = 0
  INT_RANGE = 1
  WindowTicks = {"leave"}
  KillsSleepers = FALSE
PROPERTY SelfTerminationSwitches
