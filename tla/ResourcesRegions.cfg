SPECIFICATION Spec
CONSTANTS
  Keys = {k1, k2}
  NoPod = NoPod
  NoEntry = NoEntry
  NoMetrics = NoMetrics
  NoAct = NoAct
  Services = {"lc-service","be-service"}
  States = {"Ready-Running","Ready-CatNap"}
  Cpusets = {"absent", "mix-cpuset"}
  Statuses = {"ready"}
  Requests = {1500, 5000}
  MayRecreate = FALSE
  MaxEdits = 3
  MaxFaults = 0
  MaxCrashes = 0
  Cores = 4
  W = 65536
INVARIANTS TypeOK RegionsSeparate
SYMMETRY KeySymmetry
CHECK_DEADLOCK FALSE
