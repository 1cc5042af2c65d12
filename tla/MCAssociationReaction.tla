----------------------- MODULE MCAssociationReaction ------------------------
(* Instances of AssociationReaction for TLC.                               *)
EXTENDS AssociationReaction, TLC

a1 == 1
b1 == 2
a2 == 3
b2 == 4

MinusOne == -1
XYZ(x, y, z) == 0 :> x @@ 1 :> y @@ 2 :> z
At(x) == XYZ(x, 0, 0)
Pair(n, a, ka, b, kb) == [node |-> At(n), a |-> a, ka |-> ka, b |-> b, kb |-> kb]

\* Three nodes in a row; every particle is seen on all of them.  Both A can
\* react with both B, across all three borders and through ghosts of either.
\* On the first node b1 lies near a border of a coordinate with one node and
\* has two images there; a1 is in reach of the one localParticles points to.
Grid311 == XYZ(3, 1, 1)
RingOwner == a1 :> At(0) @@ a2 :> At(1) @@ b1 :> At(1) @@ b2 :> At(2)
RingGhosts == [n \in Node |-> [p \in Id |-> IF RingOwner[p] = n THEN 0
                                           ELSE IF n = At(0) /\ p = b1 THEN 2 ELSE 1]]
RingPairs == {Pair(0, a1, 0, b1, 1), Pair(2, a1, 1, b2, 0),
              Pair(1, a2, 0, b1, 0), Pair(2, a2, 1, b2, 0)}

\* One node; a1 is near b1 itself, a2 near its image across the border.
Grid111 == XYZ(1, 1, 1)
ImageOwner == [p \in Id |-> At(0)]
ImageGhosts == [n \in Node |-> [p \in Id |-> IF p = b1 THEN 1 ELSE 0]]
ImagePairs == {Pair(0, a1, 0, b1, 0), Pair(0, a2, 0, b1, 1)}

\* Four nodes in a row; a node sees its two neighbours.
Grid411 == XYZ(4, 1, 1)
RowOwner == a1 :> At(0) @@ b1 :> At(0)
RowGhosts == [n \in Node |-> [p \in Id |-> IF n \in {At(1), At(3)} THEN 1 ELSE 0]]
RowPairs == {Pair(0, a1, 0, b1, 0)}
=============================================================================
