CONSTANTS
  A = {1, 3}
  B = {2, 4}
  GridSize <- Grid311
  Owner <- RingOwner
  Ghosts <- RingGhosts
  Pairs <- RingPairs
  stateAMin = 1
  deltaA <- MinusOne
  deltaB = 1
  InitState = 2
  MaxSteps = 3
SPECIFICATION Spec
INVARIANTS OneBondPerStep ReactsFromZero StateCountsBonds AddsAlign
