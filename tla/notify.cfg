SPECIFICATION FairSpec
CONSTANTS
  IP = {i1}
  Country = {c1}
  None = None
  Lag = {0, 2}
  Configs <- MCConfigs
  Smtp = {"mail"}
  Healthy = {"mail"}
  N = 2
  Window = 2
  Budget = 1
  DigestBudget = 2
  PostTime = 1
  WaitTime = 1
  Task = {t1, t2}
  MaxClock = 2
  MaxEvent = 2
  MaxOther = 1
  MaxGen = 2
  MaxDb = 1
INVARIANTS TypeOK AnnouncedOnce OverThresholdIsAnnounced MessagesArrive
PROPERTIES ReplacedDispatcherIsSilent GoroutinesEnd
CHECK_DEADLOCK FALSE
