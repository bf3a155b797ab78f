SPECIFICATION ClientsSpec
CONSTANTS
  Text <- TestPrograms
  MAX_THREAD_NUM = 7
  MAX_SLEEP = 30
  INT_RANGE = 64
  SPAWN_COUNT = 6
  ITER_COUNT = 4
  WindowTicks = {}
  KillsSleepers = TRUE
  Programs = {"block_itself", "terminate_itself", "sleep_and_block", "block_and_sleep", "sleep", "block_resume", "switch_4", "switch", "CheckSpawn", "CheckTerminate", "CheckBlock", "CheckResume", "TerminateAndSpawn", "Jona2", "TestSleep", "Test1", "Test2", "Test3", "Test4", "Test6"}
  Prompt = TRUE
INVARIANTS ClientsTypeOK ExpectationsMet EndNotPassed
PROPERTIES TestsEnd KeepsContract
