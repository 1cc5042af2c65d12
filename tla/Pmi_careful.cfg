CONSTANTS
  Worker = {1, 2}
  Groups <- Singles
  Oid = {o1, o2}
  MaxSent = 7
  MaxAhead = 1
  Careful = TRUE
SPECIFICATION Spec
INVARIANTS ListensWhereNextIs CachesFollowScript NoInternalError ValuesBelongTogether
PROPERTIES InvokeReturns StopReachesAll
CHECK_DEADLOCK FALSE
