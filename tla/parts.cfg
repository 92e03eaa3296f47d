SPECIFICATION Spec
CONSTANTS
  Base = 4
  Word = 8
  EndMarker <- MCEndMarker
  MaxResponse = 5
  Bits4 = 2
  Bits6 = 3
  MappedOnes = {1}
  MaxEntries = 2
  Days = 12
  LeapDay = 5
  IPs = {ip1, ip2}
  Users = {root}
  Ports = {1, 2}
  Rate = 2
  Burst = 2
  Den = 3
  LastTick = 5
  MaxCalls = 6
  Requests = {r1, r2}
  Keys = {week, hour}
  CachedKeys = {week}
  TTL = 2
  QueryTime = 1
  Files <- MCFiles
  MaxErrors = 2
  MaxCrashes = 2
  Counters = 8
  Disk <- MCDisk
  MaxJiffy = 2
  MaxTicks = 3
  Targets <- MCTargets
  HoursLeft <- MCHoursLeft
  TcpPorts = {1, 2}
  MaxChecks = 3
  MaxScans = 4
INVARIANTS
  CodecIsFaithful  BlocklistIsExact 
  AllowsWhatTheRateAdmits AnswersAreFresh SchemaIsRecorded WatchersReportOnce
CHECK_DEADLOCK FALSE
