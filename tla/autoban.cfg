SPECIFICATION Spec
CONSTANTS
  IP = {i1}
  Listed = {i1}
  Worker = {w1, w2}
  Task = {t1, t2}
  Slots = 2
  Threshold = 2
  Window = 2
  BanTimes = {0, 1}
  Timeout = 1
  MaxClock = 2
  MaxAttempt = 3
  MaxFault = 1
SYMMETRY Symmetry
INVARIANTS TypeOK ClaimedIsServed OneBanUnderWay 
CHECK_DEADLOCK FALSE
