CONSTANTS
  GridSize <- Grid311
  CellGridSize <- Cells212
  CellWidth = 2
  Particle = {p1, p2}
  AddPositions <- FarAdd
  MovePositions <- FarMove
  MaxLeftMove = 8
  OnlyNewIds = TRUE
  MaxOps = 2
SPECIFICATION Spec
INVARIANT AtHome
