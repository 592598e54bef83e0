SPECIFICATION Spec
CONSTANTS
  k1 = k1
  k2 = k2
  Keys = {k1, k2}
  Workers = {w1, w2}
  Services = {s1, s2}
  Addrs <- MCAddrs
  WeightLabels <- MCWeightLabels
  Pods <- MCPods
  Groups = {"a-b", "a_b"}
  Uids = {"pod1", "pod2", "pod3", "pod4"}
  Cids = {"c1", "c3"}
  Parts <- MCParts
  GroupPart <- MCGroupPart
  PodPart <- MCPodPart
  NoGroup = NoGroup
  NoCid = NoCid
  Word = 16
  DefaultWeight = 5
  NoPod = NoPod
  NoInfo = NoInfo
  NoKey = NoKey
  NoAddr = NoAddr
  NoDest = NoDest
  NoLabel = NoLabel
  Garbled = Garbled
  NoPath = NoPath
  NoTarget = NoTarget
  MaxEdits = 3
  MaxProxy = 2
  MaxFaults = 1
  MaxReports = 1
  MinEntries = 2
INVARIANTS TypeOK SettledWeights OwnWeights NoSharedCgroup GroupsAbovePods ReportComplete
SYMMETRY TableSymmetry
CHECK_DEADLOCK FALSE
