SPECIFICATION Spec
CONSTANTS
  Nodes = {n1, n2, n3, n4}
  Owners = {o1, o2}
  NULL = null
  Outside = outside
  MaxCount = 3
SYMMETRY Symmetry
INVARIANTS
  TypeOK
  Linked
PROPERTIES
  RemovesRightBalls
  StepsToLiveNodes
  ImplementsStore
