SPECIFICATION Spec
CONSTANTS
  IP = {i1}
  Listed = {}
  Worker = {w1, w2}
  Task = {t1, t2}
  Slots = 1
  Threshold = 2
  Window = 2
  BanTimes = {0}
  Timeout = 1
  MaxClock = 1
  MaxAttempt = 2
  MaxFault = 0
INVARIANT ThresholdBans
CHECK_DEADLOCK FALSE
