SPECIFICATION FairSpec
CONSTANTS
  Keys = {k1}
  Workers = {w1, w2}
  NoPod = NoPod
  Versions = {1, 2, 3, 4}
  NoInfo = NoInfo
  NoKey = NoKey
  NoAct = NoAct
  EnabledLabels = {"true"}
  ServiceLabels = {"lc-service"}
  StateLabels = {"Ready-CatNap", "Ready-Running"}
  EndpointLabels = {"Up", "Down"}
  CpusetLabels = {"absent"}
  Statuses = {"ready"}
  MayDelete = FALSE
  MaxEdits = 4
  MaxFaults = 1
  MaxCrashes = 1
PROPERTIES KnownPodGoesUp
CHECK_DEADLOCK FALSE
