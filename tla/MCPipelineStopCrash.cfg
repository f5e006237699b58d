SPECIFICATION Spec
CONSTANTS
  c1 = c1
  c2 = c2
  w1 = w1
  w2 = w2
  n1 = n1
  n2 = n2
  Clients = {c1, c2}
  Workers = {w1, w2}
  Nodes = {n1, n2}
  Paths <- TwoNodePaths
  ListenNodes = {n1}
  MaxTask = 2
  MaxProcessing = 1
  W = 4
  ProcResults = {TRUE, FALSE}
  NotifyResults <- OnlyTrue
SYMMETRY Symmetry
INVARIANTS
  NoCrash
CHECK_DEADLOCK FALSE
