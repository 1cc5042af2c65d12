CONSTANTS
  N = 3
  Senders <- RowSenders
  Id = {1, 2, 3, 4, 5, 6, 7}
  Owner <- RowOwner
  Sees <- RowSees
  Res <- RowRes
  Type <- RowType
  InitBonds <- Chained
  InitState <- Unreacted
  Close <- RowClose
  Reactions <- Chains
  MaxPerInterval = 2
  Dissociations <- Dissociation
  Breakable <- Local
  Reports = TRUE
SPECIFICATION Spec
INVARIANTS StateCountsBonds CopiesAgree OneReactionPerResidue NoRings
