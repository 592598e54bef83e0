SPECIFICATION CondSpec
CONSTANTS
  Items = {a, b, c}
  Workers = {w1, w2, w3}
  NoItem = NoItem
  Exited = Exited
INVARIANTS CondTypeOK QueueDiscipline NoLostItem ExclusiveItem NoLostWakeup
PROPERTIES EveryAddIsServed ImplementsWorkQueue
CHECK_DEADLOCK FALSE
