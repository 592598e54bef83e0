SPECIFICATION Spec
CONSTANTS
  Keys = {k1}
  Workers = {w1, w2}
  NoPod = NoPod
  Versions = {1, 2, 3, 4}
  NoInfo = NoInfo
  NoKey = NoKey
  NoAct = NoAct
  EnabledLabels = {"true", "false"}
  ServiceLabels = {"lc-service", "be-service", "absent"}
  StateLabels = {"Ready-CatNap", "Ready-Running", "WarmingUp"}
  EndpointLabels = {"Up", "Down"}
  CpusetLabels = {"absent"}
  Statuses = {"ready", "pending"}
  MayDelete = TRUE
  MaxEdits = 3
  MaxFaults = 1
  MaxCrashes = 1
INVARIANTS TypeOK SettledMaps ExclusiveKey
PROPERTIES NoUserEditLost OnlyNappingPodsGoDown UsesWorkQueue PolledEntryStays
SYMMETRY WorkerSymmetry
CHECK_DEADLOCK FALSE
