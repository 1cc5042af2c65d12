--------------------------- MODULE MCBondedSystem ---------------------------
(***************************************************************************)
(* A ring of four bonds over three residues, and a triangle.               *)
(***************************************************************************)
EXTENDS BondedSystem

RingOwner == [p \in 1 .. 5 |-> IF p = 1 THEN 0 ELSE 1]
RingSees  == 0 :> {1, 2, 4} @@ 1 :> 1 .. 5
RingRes   == 1 :> 1 @@ 2 :> 2 @@ 3 :> 3 @@ 4 :> 3 @@ 5 :> 3
Between   == {<<1, 2>>, <<2, 3>>, <<2, 5>>, <<1, 4>>}
Ring      == Between \cup {<<3, 4>>}
RingBonds == {<<1, 2>>, <<3, 4>>}
RingType  == [p \in 1 .. 5 |-> IF p = 1 THEN 1 ELSE 0]

TriOwner == [p \in 1 .. 3 |-> 0]
TriSees  == [n \in {0} |-> 1 .. 3]
TriRes   == [p \in 1 .. 3 |-> p]
Triangle == {<<1, 2>>, <<1, 3>>, <<2, 3>>}
TriBonds == {<<1, 2>>}
TriType  == [p \in 1 .. 3 |-> 0]

\* a particle of type 1 sheds bonds between others two bonds away
FarBonds == {<<1, 2, {0}>>}
\* the neighbours of a root change from type 0 to type 2
NextType == <<1, 0>> :> 2
\* and a root of type 1 becomes one of type 2
OwnType  == 1 :> 2
GhostRoot == {<<1, 1>>}
NoRules  == {}
NoTypes  == <<>>

=============================================================================
