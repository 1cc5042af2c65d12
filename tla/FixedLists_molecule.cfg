CONSTANTS
  N = 3
  Id = {1, 2, 3, 4}
  Tuples <- Molecule
  Home <- Spread
  MaxHops = 2
  MaxLost = 1
  Updates = TRUE
SPECIFICATION Spec
INVARIANTS TuplesFollowKey NothingLost ForcesOnce NotTwice
