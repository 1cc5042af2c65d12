------------------------ MODULE MCChemicalReaction -------------------------
(***************************************************************************)
(* Three molecules of two residues each on three nodes in a row, which are *)
(* all neighbours of each other; residue 6 has two particles.              *)
(***************************************************************************)
EXTENDS ChemicalReaction

RowSenders == [n \in 0 .. 2 |-> <<(n + 1) % 3, (n + 2) % 3>>]
RowOwner == 1 :> 0 @@ 2 :> 0 @@ 3 :> 0 @@ 4 :> 1 @@ 5 :> 2 @@ 6 :> 2 @@ 7 :> 2
\* Only particle 5 is out of sight of a node.  The third node sees both ends of
\* <<3, 6>>, <<1, 4>> and <<2, 4>>, whoever owns them.
RowSees  == 0 :> (1 .. 7) \ {5} @@ 1 :> 1 .. 7 @@ 2 :> 1 .. 7
RowRes   == [p \in 1 .. 7 |-> IF p = 7 THEN 6 ELSE p]
RowType  == [p \in 1 .. 7 |-> IF p \in {2, 4, 6} THEN 1 ELSE 0]
Chained  == {<<1, 2>>, <<3, 4>>, <<5, 6>>, <<6, 7>>}
Unreacted == [p \in 1 .. 7 |-> 0]
RowClose == 0 :> {<<2, 3>>, <<1, 4>>, <<3, 6>>} @@ 1 :> {<<2, 4>>, <<4, 5>>, <<4, 7>>} @@ 2 :> {<<1, 6>>}

\* A particle of type 0 takes a first and a second bond by different reactions,
\* the second one only if it has the first.
Association(types, least, most) ==
  [type |-> types, min |-> least, max |-> most, delta |-> <<1, 1>>,
   intraresidual |-> FALSE, intramolecular |-> FALSE]
Chains   == 0 :> Association(<<0, 1>>, <<0, 0>>, <<1, 2>>)
            @@ 1 :> Association(<<1, 1>>, <<0, 0>>, <<1, 1>>)
            @@ 2 :> Association(<<0, 1>>, <<1, 0>>, <<2, 2>>)
Dissociation == 0 :> [type |-> <<0, 1>>, min |-> <<1, 1>>, max |-> <<3, 3>>, delta |-> <<-1, -1>>,
                      intraresidual |-> FALSE, intramolecular |-> TRUE]

\* bonds of the list: one within a node, and one whose types do not suit the
\* reverse reaction
Local    == {<<2, 3>>, <<2, 4>>}
Anywhere == Local \cup {<<1, 6>>}

=============================================================================
