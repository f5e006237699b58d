SPECIFICATION FairSpec
CONSTANTS
  t1 = t1
  t2 = t2
  t3 = t3
  w1 = w1
  w2 = w2
  Tasks = {t1, t2, t3}
  Workers = {w1, w2}
  Priority <- UrgentThird
  Results = {TRUE, FALSE}
  MaxStarts = 2
INVARIANTS
  TypeOK
  OrderIsLayering
  RunsOnce
  ReturnedMeansDone
  DestroyedMeansDone
PROPERTIES
  PredecessorsFirst
  StartEnds
CHECK_DEADLOCK FALSE
