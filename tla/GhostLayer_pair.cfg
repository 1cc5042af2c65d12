CONSTANTS
  GridSize <- Pair
  CellGridSize <- TwoCells
  CellWidth = 1
  Particle = {p, q}
  Start <- Border
  Moves <- Along
  Slack = 1
SPECIFICATION Spec
INVARIANTS GhostsAreImages IndexSound
