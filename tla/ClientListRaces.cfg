SPECIFICATION Spec
CONSTANTS
  Workers = {w1, w2}
  Main = main
  Cycle = cycle
  Nobody = nobody
  Nodes = {n1, n2, n3}
  Sockets = {s1, s2}
  NULL = null
INVARIANTS
  Linked
