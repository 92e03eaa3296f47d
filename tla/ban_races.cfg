SPECIFICATION FairSpec
CONSTANTS
  IP = {i1}
  NoIP = NoIP
  Task = {t1, t2}
  Backends = {"nftables", "fail2ban"}
  Duration = {0, 1}
  BanTime = 1
  BaseAllow = {}
  F2bLines = TRUE
  CanDisable = TRUE
  MaxTime = 1
  MaxFw = 1
  MaxDb = 1
  MaxCrash = 1
INVARIANTS TypeOK OneActiveRow 
PROPERTIES ImplementsBanBook ExpiryKeepsUp
