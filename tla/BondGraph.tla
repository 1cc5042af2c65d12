----------------------------- MODULE BondGraph ------------------------------
(***************************************************************************)
(* What TopologyManager and DynamicExcludeList promise together: as if     *)
(* there were one list of bonds, one graph and one list of exclusions.     *)
(* The graph catches up with the bonds when the velocities of a step have  *)
(* been integrated, the exclusions before positions are.  Reactions may    *)
(* have further bonds removed when the graph is brought up to date.        *)
(***************************************************************************)
CONSTANTS Pair,        \* pairs that may be bonded
          StartBonds   \* bonds at the start

VARIABLES bonds,       \* pairs that are bonded
          graph,       \* bonds searches and reactions know of
          excluded     \* pairs without a nonbonded force

abstractVars == <<bonds, graph, excluded>>

Init == bonds = StartBonds /\ graph = StartBonds /\ excluded = StartBonds

Change ==
  /\ \E e \in Pair : bonds' = bonds \cup {e} \/ bonds' = bonds \ {e}
  /\ UNCHANGED <<graph, excluded>>

\* bonds that are removed around a root were edges of the graph
Exchange ==
  /\ \E R \in SUBSET graph : bonds' = bonds \ R
  /\ graph' = bonds'
  /\ UNCHANGED excluded

Update ==
  /\ excluded' = bonds
  /\ UNCHANGED <<bonds, graph>>

Next == Change \/ Exchange \/ Update
Spec == Init /\ [][Next]_abstractVars

=============================================================================
