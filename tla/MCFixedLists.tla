---------------------------- MODULE MCFixedLists ----------------------------
(* Instance of FixedLists for TLC.                                         *)
EXTENDS FixedLists

\* a bond, an angle and a dihedral, each given from both ends
Molecule == {<<1, 2>>, <<2, 1>>, <<1, 2, 3>>, <<3, 2, 1>>, <<1, 2, 3, 4>>, <<4, 3, 2, 1>>}

Spread == [p \in Id |-> p % N]
=============================================================================
