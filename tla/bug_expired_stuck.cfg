SPECIFICATION FairSpec
CONSTANTS
  IP = {i1}
  NoIP = NoIP
  Task = {t1}
  Backends = {"nftables"}
  Duration = {1}
  BanTime = 1
  BaseAllow = {}
  F2bLines = FALSE
  CanDisable = FALSE
  MaxTime = 2
  MaxFw = 0
  MaxDb = 0
  MaxCrash = 1
PROPERTY ExpiredBansAreLifted
