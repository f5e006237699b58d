SPECIFICATION Spec
CONSTANTS
  n1 = n1
  n2 = n2
  n3 = n3
  n4 = n4
  s1 = s1
  s2 = s2
  Nodes = {n1, n2, n3, n4}
  Scenarios = {s1}
  MaxBuilds = 2
  MaxAdds = 4
  MaxEdges = 5
SYMMETRY Symmetry
INVARIANTS
  TypeOK
  ChainsAreSound
  PathIsComplete
CHECK_DEADLOCK FALSE
