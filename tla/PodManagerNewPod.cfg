SPECIFICATION FairSpec
CONSTANTS
  Keys = {k1}
  Workers = {w1}
  NoPod = NoPod
  Versions = {1, 2, 3, 4}
  NoInfo = NoInfo
  NoKey = NoKey
  NoAct = NoAct
  EnabledLabels = {"true"}
  ServiceLabels = {"lc-service"}
  StateLabels = {"Ready-CatNap", "Ready-Running", "WarmingUp"}
  EndpointLabels = {"Up", "Down"}
  CpusetLabels = {"absent"}
  Statuses = {"ready"}
  MayDelete = FALSE
  MaxEdits = 1
  MaxFaults = 0
  MaxCrashes = 0
PROPERTIES NewPodGetsCPU
CHECK_DEADLOCK FALSE
