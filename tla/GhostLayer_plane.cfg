CONSTANTS
  GridSize <- Plane
  CellGridSize <- TwoCells
  CellWidth = 1
  Particle = {p}
  Start <- Corner
  Moves <- Diagonal
  Slack = 1
SPECIFICATION Spec
INVARIANTS GhostsAreImages ForcesComeHome
