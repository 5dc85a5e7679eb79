SPECIFICATION FairSpec
CONSTANTS
  Workers = {w1, w2, w3}
  Main = main
  Cycle = cycle
  Nobody = nobody
  Capacity = 2
  MaxTasks = 4
  MaxBatch = 2
CONSTRAINT WhileRunning
INVARIANTS
  TypeOK
  MutualExclusion
  NoStall
PROPERTIES
  PopsInOrder
  ImplementsChannel
  EveryTaskPopped
CHECK_DEADLOCK FALSE
