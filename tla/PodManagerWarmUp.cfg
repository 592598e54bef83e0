SPECIFICATION FairSpec
CONSTANTS
  Keys = {k1}
  Workers = {w1}
  NoPod = NoPod
  Versions = {1, 2, 3, 4}
  NoInfo = NoInfo
  NoKey = NoKey
  NoAct = NoAct
  EnabledLabels = {"true"}
  ServiceLabels = {"lc-service"}
  StateLabels = {"Initializing", "WarmingUp", "Ready-Running"}
  EndpointLabels = {"Up", "Down"}
  CpusetLabels = {"absent"}
  Statuses = {"ready"}
  MayDelete = FALSE
  MaxEdits = 3
  MaxFaults = 0
  MaxCrashes = 0
PROPERTIES KnownPodGoesUp
CHECK_DEADLOCK FALSE
