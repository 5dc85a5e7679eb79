SPECIFICATION Spec
CONSTANTS
  c1 = c1
  c2 = c2
  Clients = {c1, c2}
  Nobody = nobody
  MaxFd = 2
  Workers = {w1, w2}
  Capacity = 1
  Lines = {"a", "d"}
  MaxCommands <- OnePlayer
PROPERTY DropsOnlyLeavers
CHECK_DEADLOCK FALSE
