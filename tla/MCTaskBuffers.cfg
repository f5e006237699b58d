SPECIFICATION FairSpec
CONSTANTS
  Tasks = {1, 2, 3}
  NumWorkers = 2
  Specs <- MCSpecs
  MinQueue <- MCMinQueue
  MaxQueue <- MCMaxQueue
  Mixes <- MCMixes
  W = 4
INVARIANTS
  BuffersAccounted
  OneUser
PROPERTIES
  UsesPools
  TasksEnd
CHECK_DEADLOCK FALSE
