SPECIFICATION FairSpec
CONSTANTS
  u1 = u1
  u2 = u2
  u3 = u3
  Users = {u1, u2}
  MinQueue = 1
  MaxQueue = 3
  MaxHold = 2
INVARIANTS
  TypeOK
  AllocatedIsLive
  HeldOrCached
  BackToMin
  WaitsForReason
  OnlyHeldSurvive
PROPERTIES
  PopReturns
  IsPool
CHECK_DEADLOCK FALSE
