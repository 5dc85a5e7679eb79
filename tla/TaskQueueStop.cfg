SPECIFICATION FairSpec
CONSTANTS
  Workers = {w1, w2}
  Main = main
  Cycle = cycle
  Nobody = nobody
  Capacity = 2
  MaxTasks = 2
  MaxBatch = 2
PROPERTIES
  ShutsDown
CHECK_DEADLOCK FALSE
