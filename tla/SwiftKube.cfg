SPECIFICATION FairSpec
CONSTANTS
  Pods = {p1}
  NoPod = NoPod
  NoDeployment = NoDeployment
  Sizes = {0, 1}
  MaxEdits = 2
  MaxFaults = 1
INVARIANTS TypeOK SettledReplicas NoLostOrder
PROPERTIES PodCycle SpecKept ReplicasFollow OrdersCarriedOut
CHECK_DEADLOCK FALSE
