---------------------------- MODULE BondedSystem ----------------------------
(***************************************************************************)
(* The topology manager and the list of exclusions at work on the same     *)
(* bonds.  Both listen to the signals of the fixed pair list; a step first *)
(* updates the exclusions (befIntP) and later exchanges the topology       *)
(* (aftIntV), which removes bonds in turn.  Scripts change bonds between   *)
(* two runs, after an exchange and before an update; reactions do between  *)
(* the update and the exchange.                                            *)
(***************************************************************************)
EXTENDS TopologyManager

VARIABLES exList, exAdd, exRemove, exDirty,
          turn          \* the collective that comes next: befIntP or aftIntV

exVars == <<exList, exAdd, exRemove, exDirty>>

Ex == INSTANCE DynamicExcludeList

vars == <<topoVars, exVars, turn>>

SysInit ==
  /\ Init
  /\ Ex!ExInit(InitBonds)
  /\ turn = "befIntP"

\* onTupleAdded and onTupleRemoved of the pair list
Signals == Ex!Note([n \in Node |-> bonds'[n] \ bonds[n]], [n \in Node |-> bonds[n] \ bonds'[n]])

\* no bond is changed again before the exclusions know of the first change
ExSettled ==
  OncePerWindow => \A n \in Node : (bonds'[n] \ bonds[n]) \cup (bonds[n] \ bonds'[n])
                                      \subseteq Bondable \ (exAdd[n] \cup exRemove[n])

AddOrRemove == ChangeBond /\ ExSettled /\ Signals /\ UNCHANGED turn

\* befIntP and runInit
BefIntP ==
  /\ turn = "befIntP" /\ All("run")
  /\ Ex!UpdateList
  /\ turn' = "aftIntV"
  /\ UNCHANGED topoVars

\* aftIntV: nothing happens unless a node is dirty
AftIntV ==
  /\ turn = "aftIntV" /\ All("run")
  /\ IF \E n \in Node : dirty[n] THEN Gather ELSE UNCHANGED topoVars
  /\ turn' = "befIntP"
  /\ UNCHANGED exVars

ApplyGathered ==
  /\ \E n \in Node : DeleteEdge(n) \/ NewEdge(n) \/ Initialized(n) \/ Finish(n)
  /\ Signals /\ UNCHANGED turn

Integrate == BefIntP \/ AftIntV \/ ApplyGathered

SysNext == AddOrRemove \/ (RunPostProcess /\ UNCHANGED <<exVars, turn>>) \/ Integrate

\* The integrator goes on.  Some part of Integrate is possible in every state
\* without an exception, and between two turns lie finitely many of its steps:
\* this is weak fairness of Integrate.
SysSpec == SysInit /\ [][SysNext]_vars /\ []<><<turn # turn'>>_vars

-----------------------------------------------------------------------------

Abstract == INSTANCE BondGraph WITH
  Pair <- Bondable, StartBonds <- InitBonds,
  bonds <- UNION {bonds[n] \ toDelete[n] : n \in Node},
  graph <- Final(0),
  excluded <- exList[0]

\* The copies of the graph and of the exclusions on all nodes, brought up to
\* date piecemeal, are one graph and one list that follow the bonds.
RefinesBondGraph == Abstract!Spec

\* A bond that stays becomes an edge on all nodes: none is forgotten because
\* the node that noted it did not ask for an exchange.
BondsBecomeEdges ==
  \A e \in Changeable :
    (\E n \in Node : e \in bonds[n]) ~> \/ \A n \in Node : e \in graph[n]
                                        \/ \A n \in Node : e \notin bonds[n]

\* What every node keeps for itself is the same on all of them: the graph it
\* works towards, the molecules and their ids, the types of the particles it
\* sees, the pairs it excludes.  exchangeData() with DEBUG compares numbers of
\* edges and throws "Graphs not synchronized".
ReplicasAgree == GraphsAgree /\ MoleculesAgree /\ TypesAgree /\ Ex!ExclusionsAgree

=============================================================================
