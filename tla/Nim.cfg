SPECIFICATION FairSpec
CONSTANTS
  MAX_THREAD_NUM = 4
  nullptr = nullptr
INVARIANTS TypeOK OnePlace MutualExclusion SomebodyReady
PROPERTIES ImplementsMutex NoOvertaking HeirGetsIn
