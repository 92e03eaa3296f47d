SPECIFICATION FairSpec
CONSTANTS
  Client = {c1, c2}
  Publisher = {p1}
  SubCap = 1
  UnsubCap = 1
  PubCap = 1
  BufCap = 1
  MaxMsg = 1
PROPERTY ShutdownDrains
CHECK_DEADLOCK FALSE
