-------------------------- MODULE TopologyManager ---------------------------
(***************************************************************************)
(* integrator/TopologyManager: every node keeps a copy of the graph of all *)
(* bonds, of the graph of residues and of the molecules.                   *)
(*                                                                         *)
(* Bonds are added to and removed from a fixed pair list on the node that  *)
(* keeps them; its signals note the change there.  After the velocities of *)
(* a step exchangeData() gathers what all nodes have noted since the last  *)
(* time and each node applies all of it: removed bonds one by one, new     *)
(* bonds one by one, changed properties, new angles.  A node is not slowed *)
(* down by the others while it does so, and may note changes of the next   *)
(* window before they are done.                                            *)
(*                                                                         *)
(* No particle changes its node within the windows looked at; FixedLists   *)
(* is about that.  All pairs and triples of types have a registered list.  *)
(***************************************************************************)
EXTENDS Integers, FiniteSets, SequencesExt

CONSTANTS N,            \* number of nodes
          Id,           \* ids of the particles
          Owner,        \* the node a particle is real on
          Sees,         \* Sees[n]: ids node n has a real particle or a ghost of
          Res,          \* residue of a particle
          Bondable,     \* bonds there may be
          Changeable,   \* bonds scripts and reactions add and remove
          InitBonds,    \* bonds at initializeTopology()
          InitType,     \* type of a particle at the start
          BondRule,     \* registerNeighbourBondToRemove(): <<type, level, types>>
          LevelRule,    \* registerNeighbourPropertyChange(): new type by <<level, type>>
          TypeRule,     \* registerLocalPropertyChange(): new type by type
          Roots,        \* <<node, particle>>: copies post-processes are run on
          OncePerWindow,\* no bond is removed and added again in one window
          MaxMolId      \* bonds are removed while molecule ids are below this

Node == 0 .. N - 1
Residue == {Res[p] : p \in Id}

ASSUME TopologyAssumption ==
  /\ N \in Nat \ {0} /\ Id \subseteq Nat /\ IsFiniteSet(Id)
  /\ Owner \in [Id -> Node]
  /\ Sees \in [Node -> SUBSET Id] /\ \A p \in Id : p \in Sees[Owner[p]]
  /\ Res \in [Id -> Nat]
  \* bonded particles are in each other's ghost layer
  /\ InitBonds \subseteq Bondable /\ Changeable \subseteq Bondable
  /\ \A e \in Bondable : /\ e \in Id \X Id /\ e[1] < e[2]
                         /\ e[2] \in Sees[Owner[e[1]]] /\ e[1] \in Sees[Owner[e[2]]]
  \* searches go no further than the second neighbours
  /\ \A r \in BondRule : r[2] \in 1 .. 2
  /\ \A k \in DOMAIN LevelRule : k[1] \in 1 .. 2
  /\ Roots \subseteq Node \X Id /\ OncePerWindow \in BOOLEAN /\ MaxMolId \in Nat

VARIABLES bonds,      \* the fixed pair list: bonds a node keeps
          angles,     \* the fixed triple list: angles a node keeps
          type,       \* type[n][p]: type of the copy of p on n
          graph,      \* graph_ of a node
          resGraph,   \* res_graph_ of a node
          mid,        \* pid_mid of a node
          maxMol,     \* max_mol_id_ of a node
          newEdges, removedEdges, \* changes noted since the last exchange
          roots,      \* nb_edges_root_to_remove_
          near,       \* nb_distance_particles_: <<root, distance, particle>>
          props,      \* new_local_particle_properties_
          dirty,      \* is_dirty_
          gathered,   \* what an exchange brought to a node
          toDelete, toAdd, \* gathered edges a node still has to apply
          pc          \* what a node does next

noted == <<newEdges, removedEdges, roots, near, props, dirty>>
molecules == <<resGraph, mid, maxMol>>
topoVars == <<bonds, angles, type, graph, molecules, noted, gathered, toDelete, toAdd, pc>>

-----------------------------------------------------------------------------
(* Graphs.                                                                 *)

\* isParticleConnected()
Linked(g, p, q) == <<p, q>> \in g \/ <<q, p>> \in g

Nbrs(g, p) == {q \in Id : Linked(g, p, q)}

\* particles getNodesAtDistances() finds at distance d of r
AtDistance(g, r, d) ==
  IF d = 1 THEN Nbrs(g, r)
  ELSE (UNION {Nbrs(g, x) : x \in Nbrs(g, r)}) \ (Nbrs(g, r) \cup {r})

\* edge between the residues of two bonded particles
ResEdge(e) == {Res[e[1]], Res[e[2]]}

\* residues plainBFS() reaches from r: in every set closed under edges with r
Component(rg, r) ==
  {s \in Residue : \A S \in SUBSET Residue :
     (r \in S /\ \A e \in rg : e \cap S # {} => e \subseteq S) => s \in S}

Ordered(e) == IF e[1] < e[2] THEN e ELSE <<e[2], e[1]>>
Before(e, f) == e[1] < f[1] \/ (e[1] = f[1] /\ e[2] < f[2])
First(E) == CHOOSE e \in E : \A f \in E \ {e} : Before(e, f)

\* a-b-c and c-b-a are the same angle
Angle(t) == IF t[1] < t[3] THEN t ELSE <<t[3], t[2], t[1]>>

\* paths of two bonds; the owner of the middle particle keeps the angle
Paths(n, g) ==
  {t \in Id \X Id \X Id : /\ Owner[t[2]] = n /\ t[1] < t[3]
                          /\ Linked(g, t[1], t[2]) /\ Linked(g, t[2], t[3])}

-----------------------------------------------------------------------------
\* Lists, graphs and phases keep their types, no molecule id is above the
\* last one given, and the angle list holds no angle twice.
TypeOK ==
  /\ \A n \in Node : bonds[n] \subseteq Bondable /\ graph[n] \subseteq Bondable
  /\ \A n \in Node : \A t \in angles[n] : t \in Id \X Id \X Id /\ t[1] < t[3]
  /\ type \in [Node -> [Id -> Int]]
  /\ resGraph \in [Node -> SUBSET SUBSET Residue]
  /\ maxMol \in [Node -> Nat]
  /\ mid \in [Node -> [Id -> Nat]] /\ \A n \in Node, p \in Id : mid[n][p] \in 0 .. maxMol[n]
  /\ newEdges \in [Node -> SUBSET Bondable] /\ removedEdges \in [Node -> SUBSET Bondable]
  /\ roots \in [Node -> SUBSET Id] /\ props \in [Node -> SUBSET Id]
  /\ near \in [Node -> SUBSET (Id \X (1 .. 2) \X Id)]
  /\ dirty \in [Node -> BOOLEAN]
  /\ toDelete \in [Node -> SUBSET Bondable] /\ toAdd \in [Node -> SUBSET Bondable]
  /\ pc \in [Node -> {"init", "run", "apply", "failed"}]

Nothing == [new |-> {}, near |-> {}, props |-> {}]

\* initializeTopology(): residues are gathered and are the first molecules;
\* bonds are gathered and then become edges one by one
Init ==
  /\ bonds = [n \in Node |-> {e \in InitBonds : Owner[e[1]] = n}]
  /\ angles = [n \in Node |-> Paths(n, InitBonds)]
  /\ type = [n \in Node |-> InitType]
  /\ graph = [n \in Node |-> {}]
  /\ resGraph = [n \in Node |-> {}]
  /\ mid = [n \in Node |-> Res]
  /\ maxMol = [n \in Node |-> CHOOSE r \in Residue : \A s \in Residue : s <= r]
  /\ newEdges = [n \in Node |-> {}] /\ removedEdges = [n \in Node |-> {}]
  /\ roots = [n \in Node |-> {}] /\ near = [n \in Node |-> {}] /\ props = [n \in Node |-> {}]
  /\ dirty = [n \in Node |-> FALSE]
  /\ gathered = [n \in Node |-> Nothing]
  /\ toDelete = [n \in Node |-> {}]
  /\ toAdd = [n \in Node |-> InitBonds]
  /\ pc = [n \in Node |-> "init"]

All(where) == pc = [n \in Node |-> where]

-----------------------------------------------------------------------------
(* What happens between two exchanges.                                     *)

\* variant: the flag is not set
OnTupleAddedQuietly(n, e) ==
  /\ newEdges' = [newEdges EXCEPT ![n] = IF Linked(graph[n], e[1], e[2]) THEN @ ELSE @ \cup {e}]
  /\ UNCHANGED <<removedEdges, roots, near, props, dirty>>

\* onTupleAdded()
OnTupleAdded(n, e) ==
  /\ IF Linked(graph[n], e[1], e[2])
       THEN UNCHANGED <<newEdges, dirty>>
       ELSE /\ newEdges' = [newEdges EXCEPT ![n] = @ \cup {e}]
            /\ dirty' = [dirty EXCEPT ![n] = TRUE]
  /\ UNCHANGED <<removedEdges, roots, near, props>>

\* onTupleRemoved()
OnTupleRemoved(n, e) ==
  /\ IF Linked(graph[n], e[1], e[2])
       THEN /\ removedEdges' = [removedEdges EXCEPT ![n] = @ \cup {e}]
            /\ dirty' = [dirty EXCEPT ![n] = TRUE]
       ELSE UNCHANGED <<removedEdges, dirty>>
  /\ UNCHANGED <<newEdges, roots, near, props>>

\* changes that were noted for this bond and cannot be undone before the exchange
Settled(n, e) == OncePerWindow => e \notin newEdges[n] \cup removedEdges[n]

\* bound on the ids of molecules: each removal that is noted may take one
Room == \A n \in Node : maxMol[n] + Cardinality(UNION {removedEdges[m] : m \in Node}) < MaxMolId

\* FixedPairList::add() or iadd() by a script or a reaction
AddBond(n, e) ==
  /\ pc[n] = "run" /\ Owner[e[1]] = n /\ e \notin bonds[n] /\ Settled(n, e)
  /\ bonds' = [bonds EXCEPT ![n] = @ \cup {e}]
  /\ OnTupleAdded(n, e)
  /\ UNCHANGED <<angles, type, graph, molecules, gathered, toDelete, toAdd, pc>>

\* FixedPairList::remove() by a script, a reaction or a post-process
RemoveBond(n, e) ==
  /\ pc[n] = "run" /\ e \in bonds[n] /\ Settled(n, e) /\ Room
  /\ bonds' = [bonds EXCEPT ![n] = @ \ {e}]
  /\ OnTupleRemoved(n, e)
  /\ UNCHANGED <<angles, type, graph, molecules, gathered, toDelete, toAdd, pc>>

\* invokeNeighbourBondRemove(): the root is noted if there is a rule for it
RootsWith(n, r) ==
  IF \E rule \in BondRule : rule[1] = type[n][r] THEN roots[n] \cup {r} ELSE roots[n]

\* invokeNeighbourPropertyChange(): particles are looked for at once, before
\* the new bond is an edge
NearWith(n, r) ==
  near[n] \cup UNION {{<<r, k[1], x>> : x \in AtDistance(graph[n], r, k[1])} : k \in DOMAIN LevelRule}

\* invokeParticlePropertiesChange()
PropsWith(n, r) == props[n] \cup {r}

\* the post-processes of a reaction on a copy of one of the two particles
PostProcess(n, r) ==
  /\ pc[n] = "run" /\ r \in Sees[n] /\ Room
  /\ roots' = [roots EXCEPT ![n] = RootsWith(n, r)]
  /\ near' = [near EXCEPT ![n] = NearWith(n, r)]
  /\ props' = [props EXCEPT ![n] = PropsWith(n, r)]
  /\ dirty' = [dirty EXCEPT ![n] = TRUE]
  /\ UNCHANGED <<bonds, angles, type, graph, molecules, newEdges, removedEdges,
                 gathered, toDelete, toAdd, pc>>

-----------------------------------------------------------------------------
(* exchangeData().                                                         *)

\* removeNeighbourEdges(): edges of the tree of a breadth first search from
\* the root, by level and types, where this node has copies of both ends
NeighbourEdges(n, r) ==
  LET g == graph[n]
      parent(x, d) == IF d = 1 THEN r
                      ELSE CHOOSE y \in Nbrs(g, r) \cap Nbrs(g, x) :
                             \A z \in Nbrs(g, r) \cap Nbrs(g, x) : y <= z
  IN  {Ordered(<<parent(y[1], y[2]), y[1]>>) :
         y \in {z \in Sees[n] \X (1 .. 2) :
            /\ r \in Sees[n]
            /\ z[1] \in AtDistance(g, r, z[2]) /\ parent(z[1], z[2]) \in Sees[n]
            /\ <<type[n][r], z[2], {type[n][z[1]], type[n][parent(z[1], z[2])]}>> \in BondRule}}

\* every node looks around the roots of all nodes
Found(n) == UNION {NeighbourEdges(n, r) : r \in UNION {roots[m] : m \in Node}}

\* variant: the edges a node finds around a root are not sent to the others
RemovedUnsent(n) == (UNION {removedEdges[m] : m \in Node}) \cup Found(n)

\* edges node n will delete: those all nodes noted or found
Removed(n) == UNION {removedEdges[m] \cup Found(m) : m \in Node}

\* all distances known for a root and a particle are the same
Unambiguous(D) == \A x, y \in D : x[1] = y[1] /\ x[3] = y[3] => x[2] = y[2]

\* removeByBond() of the triple lists
WithoutBonds(A, E) ==
  {t \in A : Ordered(<<t[1], t[2]>>) \notin E /\ Ordered(<<t[2], t[3]>>) \notin E}

\* The flag is reduced, roots and then changes are gathered, and every node
\* merges what all of them noted.
Gather ==
  LET added   == UNION {newEdges[n] : n \in Node}
      nearby  == UNION {near[n] : n \in Node}
  IN  /\ All("run") /\ \E n \in Node : dirty[n]
      /\ gathered' = [n \in Node |-> [new |-> added, near |-> nearby,
                                      props |-> UNION {props[m] : m \in Node}]]
      /\ IF Unambiguous(nearby)
           THEN /\ pc' = [n \in Node |-> "apply"]
                /\ angles' = [n \in Node |-> WithoutBonds(angles[n], Removed(n))]
                /\ toDelete' = [n \in Node |-> Removed(n)]
                /\ toAdd' = [n \in Node |-> added]
           ELSE /\ pc' = [n \in Node |-> "failed"]
                /\ UNCHANGED <<angles, toDelete, toAdd>>
      /\ UNCHANGED <<bonds, type, graph, molecules, noted>>

\* removeBond(): a node that has one end as a real particle and sees the
\* other asks its list to remove the bond
Drops(n, e) == e[1] \in Sees[n] /\ e[2] \in Sees[n] /\ (Owner[e[1]] = n \/ Owner[e[2]] = n)

\* variant: the residues are taken apart although another bond holds them
SplitAlways(n, e, g) ==
  LET rg == resGraph[n] \ {ResEdge(e)}
  IN  Component(rg, Res[e[1]]) \ Component(rg, Res[e[2]])

\* residues that leave the molecule of an edge: those only its first end reaches
SplitOff(n, e, g) ==
  LET rg == resGraph[n] \ {ResEdge(e)}
  IN  IF \E f \in g : ResEdge(f) = ResEdge(e) THEN {}
      ELSE Component(rg, Res[e[1]]) \ Component(rg, Res[e[2]])

\* deleteEdge() of the next removed edge; what the list signals is cleared at
\* the end of the exchange
DeleteEdge(n) ==
  LET e == First(toDelete[n])
      g == graph[n] \ {e}
      inside == Cardinality(ResEdge(e)) = 1
      split == SplitOff(n, e, g)
  IN  /\ pc[n] = "apply" /\ toDelete[n] # {}
      /\ bonds' = [bonds EXCEPT ![n] = IF Drops(n, e) THEN @ \ {e} ELSE @]
      /\ graph' = [graph EXCEPT ![n] = g]
      /\ toDelete' = [toDelete EXCEPT ![n] = @ \ {e}]
      /\ \/ /\ mid[n][e[1]] # mid[n][e[2]]
            /\ pc' = [pc EXCEPT ![n] = "failed"]
            /\ UNCHANGED molecules
         \/ /\ mid[n][e[1]] = mid[n][e[2]]
            /\ resGraph' = [resGraph EXCEPT ![n] =
                 IF inside \/ \E f \in g : ResEdge(f) = ResEdge(e) THEN @ ELSE @ \ {ResEdge(e)}]
            /\ IF inside \/ split = {}
                 THEN UNCHANGED <<mid, maxMol>>
                 ELSE /\ maxMol' = [maxMol EXCEPT ![n] = @ + 1]
                      /\ mid' = [mid EXCEPT ![n] = [p \in Id |->
                                   IF Res[p] \in split THEN maxMol[n] + 1 ELSE @[p]]]
            /\ UNCHANGED pc
      /\ UNCHANGED <<angles, type, noted, gathered, toAdd>>

\* variant: particles keep their molecule
MergeNone(n, e) == mid[n]

\* the molecule of the second particle becomes part of that of the first
Merge(n, e) == [p \in Id |-> IF mid[n][p] = mid[n][e[2]] THEN mid[n][e[1]] ELSE mid[n][p]]

\* newEdge() of the next new edge
NewEdge(n) ==
  LET e == First(toAdd[n])
  IN  /\ pc[n] \in {"init", "apply"} /\ toDelete[n] = {} /\ toAdd[n] # {}
      /\ graph' = [graph EXCEPT ![n] = @ \cup {e}]
      /\ resGraph' = [resGraph EXCEPT ![n] = @ \cup {ResEdge(e)}]
      /\ mid' = [mid EXCEPT ![n] = Merge(n, e)]
      /\ toAdd' = [toAdd EXCEPT ![n] = @ \ {e}]
      /\ UNCHANGED <<bonds, angles, type, maxMol, noted, gathered, toDelete, pc>>

\* the end of initializeTopology()
Initialized(n) ==
  /\ pc[n] = "init" /\ toAdd[n] = {}
  /\ pc' = [pc EXCEPT ![n] = "run"]
  /\ dirty' = [dirty EXCEPT ![n] = TRUE]
  /\ UNCHANGED <<bonds, angles, type, graph, molecules, newEdges, removedEdges, roots, near,
                 props, gathered, toDelete, toAdd>>

\* variant: angles are not looked for at the second particle
TripletsAtFirst(g, T, e) ==
  T \cup {<<e[2], e[1], x>> : x \in {y \in Nbrs(g, e[1]) \ {e[2]} : <<y, e[2], e[1]>> \notin T}}

\* generateAnglesDihedrals() of one new edge; both searches for duplicates
\* look for the same triple
Triplets(g, T, e) ==
  LET p == e[1]
      q == e[2]
      T1 == T \cup {<<q, p, x>> : x \in {y \in Nbrs(g, p) \ {q} : <<y, q, p>> \notin T}}
  IN  T1 \cup {<<p, q, x>> : x \in {y \in Nbrs(g, q) \ {p} : <<y, q, p>> \notin T1}}

\* defineAngles(): triples whose middle particle is real here, unless the
\* list has them, in either order
NewAngles(n) ==
  LET all == FoldLeft(LAMBDA T, e : Triplets(graph[n], T, e), {},
                      SetToSortSeq(gathered[n].new, Before))
  IN  {Angle(t) : t \in {u \in all : Owner[u[2]] = n /\ {u[1], u[3]} \subseteq Sees[n]}}

\* real particles and ghosts are changed
Changed(n, p) == p \in Sees[n]

\* updateParticlePropertiesAtDistance() for all roots, in an order common to
\* all nodes, and then updateParticleProperties()
ByRules(got, p, old) ==
  LET hits == SetToSortSeq({x \in got.near : x[3] = p}, LAMBDA x, y : x[1] < y[1])
      atLevel(u, x) == IF <<x[2], u>> \in DOMAIN LevelRule THEN LevelRule[<<x[2], u>>] ELSE u
      u == FoldLeft(atLevel, old, hits)
  IN  IF p \in got.props /\ u \in DOMAIN TypeRule THEN TypeRule[u] ELSE u

NewType(n, p) == ByRules(gathered[n], p, type[n][p])

\* The rest of exchangeData(): properties, new angles, and nothing is noted.
Finish(n) ==
  /\ pc[n] = "apply" /\ toDelete[n] = {} /\ toAdd[n] = {}
  /\ type' = [type EXCEPT ![n] = [p \in Id |-> IF Changed(n, p) THEN NewType(n, p) ELSE @[p]]]
  /\ angles' = [angles EXCEPT ![n] = @ \cup NewAngles(n)]
  /\ newEdges' = [newEdges EXCEPT ![n] = {}]
  /\ removedEdges' = [removedEdges EXCEPT ![n] = {}]
  /\ roots' = [roots EXCEPT ![n] = {}]
  /\ near' = [near EXCEPT ![n] = {}]
  /\ props' = [props EXCEPT ![n] = {}]
  /\ dirty' = [dirty EXCEPT ![n] = FALSE]
  /\ gathered' = [gathered EXCEPT ![n] = Nothing]
  /\ pc' = [pc EXCEPT ![n] = "run"]
  /\ UNCHANGED <<bonds, graph, molecules, toDelete, toAdd>>

Exchange == Gather \/ \E n \in Node : DeleteEdge(n) \/ NewEdge(n) \/ Initialized(n) \/ Finish(n)

ChangeBond == \E n \in Node, e \in Changeable : AddBond(n, e) \/ RemoveBond(n, e)

RunPostProcess == \E x \in Roots : PostProcess(x[1], x[2])

TopoNext == ChangeBond \/ RunPostProcess \/ Exchange
TopoSpec == Init /\ [][TopoNext]_topoVars

-----------------------------------------------------------------------------
(* Properties.                                                             *)

\* the graph a node has when it has applied what it has gathered
Final(n) == (graph[n] \ toDelete[n]) \cup toAdd[n]

\* All nodes work towards the same graph: exchangeData() with DEBUG compares
\* the numbers of edges and throws "Graphs not synchronized".
GraphsAgree == \A m, n \in Node : Final(m) = Final(n)

\* Nodes that have come equally far have the same molecules with the same ids,
\* although each gives ids on its own.
MoleculesAgree ==
  \A m, n \in Node : (toDelete[m] = toDelete[n] /\ toAdd[m] = toAdd[n]) =>
     mid[m] = mid[n] /\ maxMol[m] = maxMol[n] /\ resGraph[m] = resGraph[n]

\* Bonds in the lists are edges of the graph but for what has been noted, on
\* the node that keeps the bond, and will be exchanged.
GraphIsBonds ==
  All("run") => \A n \in Node : \A e \in Bondable :
     Owner[e[1]] = n => (e \in bonds[n] <=> e \in (graph[n] \ removedEdges[n]) \cup newEdges[n])

\* deleteEdge() and newEdge() split and merge so that particles have the same
\* molecule exactly if bonds connect their residues.
MoleculesAreComponents ==
  \A n \in Node : pc[n] # "failed" =>
     /\ {e \in resGraph[n] : Cardinality(e) = 2} =
          {ResEdge(e) : e \in {f \in graph[n] : Res[f[1]] # Res[f[2]]}}
     /\ \A p, q \in Id : mid[n][p] = mid[n][q] <=> Res[q] \in Component(resGraph[n], Res[p])

\* exchangeData() throws for neither of two reasons: distances are not
\* ambiguous and no removed edge is between two molecules.
NeverThrows == \A n \in Node : pc[n] # "failed"

\* Between two exchanges the angles are the paths of two bonds: those of
\* removed bonds have gone and none of the new ones is missing.
AnglesArePaths == \A n \in Node : pc[n] = "run" => angles[n] = Paths(n, graph[n])

\* The copies of a particle have the same type on all nodes that see it.
TypesAgree ==
  All("run") => \A n \in Node : \A p \in Sees[n] : type[n][p] = type[Owner[p]][p]

=============================================================================
