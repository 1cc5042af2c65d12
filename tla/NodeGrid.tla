------------------------------ MODULE NodeGrid ------------------------------
(***************************************************************************)
(* The periodic grid of MPI tasks (storage/NodeGrid): every task owns one  *)
(* brick of the box and knows its six neighbours and whether it lies at    *)
(* the border of the box.  A node is named by its grid position; the rank  *)
(* is mapPositionToIndex of it, a bijection that nothing here needs.       *)
(***************************************************************************)
EXTENDS Integers

CONSTANT GridSize      \* number of nodes along each coordinate

Coord == 0..2
Left  == 0
Right == 1
Opposite(dir) == 1 - dir

ASSUME GridAssumption == GridSize \in [Coord -> Nat \ {0}]

MaxExtent == GridSize[0] + GridSize[1] + GridSize[2]
Node == {p \in [Coord -> 0 .. MaxExtent] : \A c \in Coord : p[c] < GridSize[c]}

\* nodeNeighbors[2*coord+dir] as computed by calcNodeNeighbors
NodeNeighbor(n, c, dir) ==
  [n EXCEPT ![c] = IF dir = Left
                   THEN IF n[c] - 1 < 0 THEN n[c] - 1 + GridSize[c] ELSE n[c] - 1
                   ELSE IF n[c] + 1 >= GridSize[c] THEN n[c] + 1 - GridSize[c]
                                                   ELSE n[c] + 1]

\* boundaries[2*coord+dir]: the box shift of a particle that crosses there
Boundary(n, c, dir) ==
  IF dir = Left THEN IF n[c] = 0 THEN 1 ELSE 0
                ELSE IF n[c] = GridSize[c] - 1 THEN -1 ELSE 0
=============================================================================
