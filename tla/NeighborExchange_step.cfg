CONSTANTS
  GridSize <- Grid211
  Phases <- ResortStep
SPECIFICATION FairSpec
INVARIANTS TypeOK Matched NoDeadlock QuietAfterReduce
PROPERTY Termination
CHECK_DEADLOCK FALSE
