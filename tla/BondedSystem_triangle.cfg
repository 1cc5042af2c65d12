CONSTANTS
  N = 1
  Id = {1, 2, 3}
  Owner <- TriOwner
  Sees <- TriSees
  Res <- TriRes
  Bondable <- Triangle
  Changeable <- Triangle
  InitBonds <- TriBonds
  InitType <- TriType
  BondRule <- NoRules
  LevelRule <- NoTypes
  TypeRule <- NoTypes
  Roots <- NoRules
  OncePerWindow = TRUE
  MaxMolId = 4
SPECIFICATION SysSpec
INVARIANTS AnglesArePaths
