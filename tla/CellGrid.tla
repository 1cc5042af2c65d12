------------------------------ MODULE CellGrid ------------------------------
(***************************************************************************)
(* The cells of one node's brick (storage/CellGrid) and the folding of     *)
(* positions into the periodic box (bc/OrthorhombicBC).  Lengths are       *)
(* integers: CellWidth units to a cell, so that a position can lie inside  *)
(* a cell.  ROUND_ERROR_PREC lies between zero and one unit: comparing     *)
(* with that tolerance means a position on the right border is inside.     *)
(* A cell is named by its position in the node's grid; the inner cells of  *)
(* coordinate c are Frame .. Frame + CellGridSize[c] - 1.                  *)
(***************************************************************************)
EXTENDS NodeGrid

CONSTANTS CellGridSize,    \* inner cells of a node along each coordinate
          CellWidth        \* units of length to a cell

ASSUME CellGridAssumption == /\ CellGridSize \in [Coord -> Nat \ {0}]
                             /\ CellWidth \in Nat \ {0}

Frame == 1

LocalSize(c) == CellGridSize[c] * CellWidth
BoxL(c)      == GridSize[c] * LocalSize(c)
MyLeft(n, c)  == n[c] * LocalSize(c)
MyRight(n, c) == (n[c] + 1) * LocalSize(c)

\* static_cast<int>(a / b) for b > 0: rounds towards zero
Truncate(a, b) == IF a >= 0 THEN a \div b ELSE -((-a) \div b)

\* Outcome of the three map functions for one coordinate: the raw cell index
RawCell(n, c, x) == Truncate(x - MyLeft(n, c), CellWidth) + Frame

Clip(c, i) == IF i < Frame THEN Frame
              ELSE IF i >= Frame + CellGridSize[c] THEN Frame + CellGridSize[c] - 1
              ELSE i

\* mapPositionToCellClipped, and the cell of mapPositionToCellCheckedAndClipped
CellClipped(n, pos) == [c \in Coord |-> Clip(c, RawCell(n, c, pos[c]))]

\* the test by which the checked variants tell a position outside the grid
OutsideIn(n, c, x) ==
  \/ RawCell(n, c, x) < Frame /\ x < MyLeft(n, c)
  \/ RawCell(n, c, x) >= Frame + CellGridSize[c] /\ x > MyRight(n, c)

Outside(n, pos) == \E c \in Coord : OutsideIn(n, c, pos[c])

\* mapPositionToNodeClipped
NodeClipped(pos) ==
  [c \in Coord |-> LET i == Truncate(pos[c], LocalSize(c))
                   IN  IF i < 0 THEN 0
                       ELSE IF i >= GridSize[c] THEN GridSize[c] - 1 ELSE i]

\* foldCoordinate: the box a position is in (floor), and the folded position
BoxOf(c, x) == x \div BoxL(c)

\* variant: the image is not counted
FoldNoImage(c, r) == [r EXCEPT !.pos[c] = @ - BoxOf(c, r.pos[c]) * BoxL(c)]

Fold(c, r) == [r EXCEPT !.img[c] = @ + BoxOf(c, r.pos[c]),
                        !.pos[c] = @ - BoxOf(c, r.pos[c]) * BoxL(c)]

\* the exact answers: the brick a position is in, and the cell
InDomain(n, pos) == \A c \in Coord : MyLeft(n, c) <= pos[c] /\ pos[c] <= MyRight(n, c)
HomeCell(n, pos) ==
  [c \in Coord |-> IF pos[c] = MyRight(n, c) THEN Frame + CellGridSize[c] - 1
                   ELSE (pos[c] - MyLeft(n, c)) \div CellWidth + Frame]
=============================================================================
