SPECIFICATION Spec
CONSTANTS
  Keys = {k1}
  Workers = {w1}
  NoPod = NoPod
  Versions = {1, 2, 3, 4}
  NoInfo = NoInfo
  NoKey = NoKey
  NoAct = NoAct
  EnabledLabels = {"true"}
  ServiceLabels = {"lc-service", "be-service"}
  StateLabels = {"Ready-CatNap"}
  EndpointLabels = {"Up", "Down"}
  CpusetLabels = {"absent"}
  Statuses = {"ready"}
  MayDelete = FALSE
  MaxEdits = 2
  MaxFaults = 0
  MaxCrashes = 0
INVARIANTS OnlyLCPodsInActions
CHECK_DEADLOCK FALSE
