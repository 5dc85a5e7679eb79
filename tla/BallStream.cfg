SPECIFICATION Spec
CONSTANTS
  Clients = {c1, c2}
  Readers = {c2}
  Workers = {w1}
  StartBallCount = 1
  MaxBalls = 2
  Room = 4
  SmallRoom = 0
  Buffer <- Rooms
  Nobody = nobody
  Reply = reply
  Garbage = garbage
INVARIANTS
  TypeOK
  FrameIsCurrent
PROPERTIES
  GoneBallsVanish
  NobodyHeldUp
