---------------------------- MODULE MCGhostLayer ----------------------------
(* Instances of GhostLayer for TLC.                                        *)
EXTENDS GhostLayer

Vec(x, y, z) == [c \in Coord |-> <<x, y, z>>[c + 1]]

\* four nodes in a plane with two cells each
Plane    == Vec(2, 2, 1)
Corner   == {Vec(0, 0, 0)}
Diagonal == {Vec(1, 1, 0)}

\* two nodes, each the left and the right neighbour of the other, with two
\* cells; two particles that share a cell or not
Pair     == Vec(2, 1, 1)
TwoCells == Vec(2, 1, 1)
Border   == {Vec(0, 0, 0), Vec(1, 0, 0)}
Along    == {Vec(1, 0, 0)}
=============================================================================
