SPECIFICATION FairSpec
CONSTANTS
  MAX_THREAD_NUM = 3
  MAX_SLEEP = 1
  INT_RANGE = 3
  WindowTicks = {}
  KillsSleepers = FALSE
INVARIANTS NeverCrashes OwnContext QuantumSum
PROPERTIES ImplementsAPI ReadyEventuallyRuns SleepersWake
