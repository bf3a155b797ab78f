SPECIFICATION ClientsSpec
CONSTANTS
  Text <- TestPrograms
  MAX_THREAD_NUM = 3
  MAX_SLEEP = 0
  INT_RANGE = 1
  SPAWN_COUNT = 2
  ITER_COUNT = 0
  WindowTicks = {}
  KillsSleepers = TRUE
  Programs = {"Test4"}
  Prompt = FALSE
PROPERTIES SmallestQuantumWorks
