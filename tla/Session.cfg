SPECIFICATION FairSpec
CONSTANTS
  c1 = c1
  c2 = c2
  Clients = {c1, c2}
  Nobody = nobody
  MaxFd = 2
  Workers = {w1, w2}
  Capacity = 1
  Lines = {"a", "d"}
  MaxCommands <- OnePlayer
INVARIANTS
  TypeOK
  BallsOfClient
PROPERTIES
  KeepsItsBalls
  DropsOnlyHeirs
  LeaverIsDropped
CHECK_DEADLOCK FALSE
