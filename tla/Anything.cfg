SPECIFICATION Spec
CONSTANTS
  MAX_THREAD_NUM = 3
  MAX_SLEEP = 1
  INT_RANGE = 1
  WindowTicks = {"jump", "leave"}
  KillsSleepers = TRUE
CONSTRAINT QueueBound
INVARIANTS TypeOK IdsPartition   
