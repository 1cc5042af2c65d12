CONSTANTS
  N = 2
  Id = {1, 2, 3, 4, 5}
  Owner <- RingOwner
  Sees <- RingSees
  Res <- RingRes
  Bondable <- Ring
  Changeable <- Between
  InitBonds <- RingBonds
  InitType <- RingType
  BondRule <- FarBonds
  LevelRule <- NextType
  TypeRule <- OwnType
  Roots <- GhostRoot
  OncePerWindow = TRUE
  MaxMolId = 4
SPECIFICATION SysSpec
INVARIANTS ReplicasAgree MoleculesAreComponents NeverThrows AnglesArePaths
PROPERTIES RefinesBondGraph BondsBecomeEdges
