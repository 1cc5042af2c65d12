CONSTANTS
  GridSize <- Grid312
  CellGridSize <- Cells111
  CellWidth = 2
  Particle = {p1}
  AddPositions <- CornerAdd
  MovePositions <- CornerMove
  MaxLeftMove = 2
  OnlyNewIds = TRUE
  MaxOps = 2
SPECIFICATION FairSpec
INVARIANTS Conserved ImagesAddUp AtHome
PROPERTY Returns
