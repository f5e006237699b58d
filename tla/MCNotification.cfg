CONSTANTS
  n1 = n1
  l1 = l1
  f1 = f1
  f2 = f2
  w1 = w1
  Workers = {w1}
  Nodes = {n1}
  Path <- OneNode
  Finals = {f1, f2}
  Listeners = {l1}
  Wanted <- Listened
  MaxTask = 3
  MaxTaskShared = 2
  MaxProcessing = 1
  W = 8
  Kinds <- ThreeKinds
  Outcomes = {"ok", "fail", "throw"}
SYMMETRY Symmetry
SPECIFICATION Spec
INVARIANTS
  CountLedger
  EachFinalInOrder
  ListenersTold
  VerdictHasCause
  StopDrains
  SurvivorsAreBound
CHECK_DEADLOCK FALSE
