SPECIFICATION FairSpec
CONSTANTS
  Client = {c1, c2}
  Publisher = {p1, p2}
  SubCap = 1
  UnsubCap = 1
  PubCap = 1
  BufCap = 1
  MaxMsg = 2
INVARIANTS TypeOK NeverUsesClosed StreamsAreKnown
PROPERTIES ImplementsBroadcast 
CHECK_DEADLOCK FALSE
