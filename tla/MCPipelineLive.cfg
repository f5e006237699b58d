SPECIFICATION FairSpec
CONSTANTS
  c1 = c1
  c2 = c2
  w1 = w1
  w2 = w2
  n1 = n1
  n2 = n2
  Clients = {c1, c2}
  Workers = {w1}
  Nodes = {n1}
  Paths <- OneNodePath
  ListenNodes = {}
  MaxTask = 2
  MaxProcessing = 1
  W = 4
  ProcResults = {TRUE}
  NotifyResults = {TRUE}
PROPERTIES
  EventuallyReported
  StopReturns
CHECK_DEADLOCK FALSE
