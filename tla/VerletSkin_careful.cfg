CONSTANTS
  Particle = {p, q}
  Integrator = {VelocityVerlet, MinimizeEnergy}
  Cutoff = 2
  Skins = {2, 4}
  NodeSize = 12
  InitCells = 2
  Unit = 2
  MaxMove = 1
  Careful = TRUE
  ScriptOps <- AllOps
  Range <- Border
SPECIFICATION Spec
INVARIANTS TypeOK ForcesSeeAllPairs StaysClose
