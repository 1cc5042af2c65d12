----------------------- MODULE MCDomainDecomposition ------------------------
(* Instances of DomainDecomposition for TLC.                               *)
EXTENDS DomainDecomposition, TLC

XYZ(x, y, z) == 0 :> x @@ 1 :> y @@ 2 :> z

\* three nodes in x and two in z, one cell each: a box of 6 x 2 x 4
Grid312  == XYZ(3, 1, 2)
Cells111 == XYZ(1, 1, 1)
\* added inside the box and left of it; moved through a corner of the box,
\* and several domains to the right and one down
CornerAdd  == {XYZ(0, 0, 0), XYZ(-1, 0, 1)}
CornerMove == {XYZ(-1, 0, -2), XYZ(9, 1, -1)}

\* a row of three nodes, two cells of two units each: a box of 12 x 2 x 4
Grid311  == XYZ(3, 1, 1)
Cells212 == XYZ(2, 1, 2)

\* in two different domains
TwoPlaces == {XYZ(1, 0, 0), XYZ(9, 0, 0)}

\* far to the left, as modifyParticle may ask for
FarAdd  == {XYZ(9, 0, 0)}
FarMove == {XYZ(3, 0, 0)}
=============================================================================
