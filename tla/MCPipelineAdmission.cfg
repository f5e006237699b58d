SPECIFICATION Spec
CONSTANTS
  c1 = c1
  c2 = c2
  w1 = w1
  w2 = w2
  n1 = n1
  n2 = n2
  Clients = {c1, c2}
  Workers = {w1}
  Nodes = {n1}
  Paths <- OneNodePath
  ListenNodes = {}
  MaxTask = 4
  MaxProcessing = 1
  W = 6
  ProcResults = {TRUE}
  NotifyResults = {TRUE, FALSE}
SYMMETRY Symmetry
INVARIANTS
  InFlightBound
  OvertakeBound
CHECK_DEADLOCK FALSE
