SPECIFICATION SerialSpec
CONSTANTS
  IP = {i1, i2, i3}
  NoIP = NoIP
  Task = {t1}
  Backends = {"nftables"}
  Duration = {0, 1}
  BanTime = 1
  BaseAllow = {i3}
  F2bLines = FALSE
  CanDisable = FALSE
  MaxTime = 2
  MaxFw = 0
  MaxDb = 1
  MaxCrash = 1
INVARIANTS NoOrphanBlock BaseAllowlistNeverBanned
 
