SPECIFICATION FairSpec
CONSTANTS
  Source = {auth, f2b}
  Replayed = {f2b}
  Worker = {w1, w2}
  Cap = 1
  MaxLine = 1
  MaxFail = 1
  MaxError = 1
  MaxRestart = 1
  MaxPrune = 1
  MaxStop = 1
INVARIANTS TypeOK PublishedOnceAndStored
PROPERTIES ReplayCatchesUp StopDrains
CHECK_DEADLOCK FALSE
