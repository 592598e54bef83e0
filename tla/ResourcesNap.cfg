SPECIFICATION FairSpec
CONSTANTS
  Keys = {k1}
  NoPod = NoPod
  NoEntry = NoEntry
  NoMetrics = NoMetrics
  NoAct = NoAct
  Services = {"lc-service"}
  States = {"Ready-Running","Ready-CatNap"}
  Cpusets = {"absent"}
  Statuses = {"ready"}
  Requests = {2000}
  MayRecreate = FALSE
  MaxEdits = 2
  MaxFaults = 0
  MaxCrashes = 0
  Cores = 4
  W = 65536
PROPERTIES NapMovesToBE
CHECK_DEADLOCK FALSE
