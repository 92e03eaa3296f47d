SPECIFICATION Spec
CONSTANTS
  Source = {f2b}
  Replayed = {f2b}
  Worker = {w1, w2}
  Cap = 2
  MaxLine = 2
  MaxFail = 0
  MaxError = 0
  MaxRestart = 0
  MaxPrune = 0
  MaxStop = 0
INVARIANT BansFollowLog
CHECK_DEADLOCK FALSE
