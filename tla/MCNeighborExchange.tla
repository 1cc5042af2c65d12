------------------------- MODULE MCNeighborExchange -------------------------
(* Instance of NeighborExchange for TLC.                                   *)
EXTENDS NeighborExchange, TLC

\* two nodes: left and right neighbour are the same task
Grid211 == 0 :> 2 @@ 1 :> 1 @@ 2 :> 1

\* resort, force calculation and the reduction of the next maximal move
ResortStep == MigrationRound \o ExchangeGhosts \o UpdateGhosts
                \o CollectGhostForces \o <<Reduce>> \o UpdateGhosts
                \o CollectGhostForces
=============================================================================
