SPECIFICATION ClientsSpec
CONSTANTS
  Text <- TestPrograms
  MAX_THREAD_NUM = 7
  MAX_SLEEP = 30
  INT_RANGE = 1
  SPAWN_COUNT = 4
  ITER_COUNT = 6
  WindowTicks = {}
  KillsSleepers = TRUE
  Programs = {"block_itself", "terminate_itself", "sleep_and_block", "block_and_sleep", "sleep", "block_resume", "switch", "CheckSpawn", "CheckTerminate", "CheckBlock", "CheckResume", "TerminateAndSpawn", "Jona2", "TestSleep", "Test4", "Test6"}
  Prompt = FALSE
INVARIANTS ExpectationsMet NoDeafWait LostByReturning NothingLost OnePlace
PROPERTIES TestsEnd
