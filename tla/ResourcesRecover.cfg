SPECIFICATION FairSpec
CONSTANTS
  Keys = {k1}
  NoPod = NoPod
  NoEntry = NoEntry
  NoMetrics = NoMetrics
  NoAct = NoAct
  Services = {"lc-service", "absent"}
  States = {"Ready-Running","Ready-LongNap"}
  Cpusets = {"absent", "mix-cpuset"}
  Statuses = {"ready"}
  Requests = {2000}
  MayRecreate = TRUE
  MaxEdits = 3
  MaxFaults = 1
  MaxCrashes = 1
  Cores = 4
  W = 65536
INVARIANTS SwapRemembered
PROPERTIES QuotaLifted MemoryRestored LongNapSwaps
CHECK_DEADLOCK FALSE
