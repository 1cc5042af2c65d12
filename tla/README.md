# ESPResSo++: a TLA+ model of the parallel core

ESPResSo++ is a molecular dynamics package: C++ classes that run on every MPI
task, driven by Python scripts on one of them. The box of the simulation is
cut into bricks, one per task ("node"). Everything a simulation computes rests
on a few protocols between the nodes: particles migrate to the node that owns
their place, every node sees copies ("ghosts") of what is near its brick,
neighbour lists and lists of bonds follow the particles, reactions change bonds
and types on several nodes at once, and each node keeps a copy of the topology.
This directory holds
TLA+ modules for these protocols, TLC runs on small instances of them, and
TLAPS proofs of the results that matter most. Paths below are relative to
`src/src/`.

## 1. Inventory

### Parts, state, operations

| part | state | operations |
|---|---|---|
| node grid (`storage/NodeGrid.cpp`) | number of nodes per coordinate, six neighbours per node | `calcNodeNeighbors`, `mapPositionToNodeClipped` |
| cell grid (`storage/CellGrid.cpp`) | inner cells and a frame of ghost cells around them | `mapPositionToCell{Clipped,Checked,CheckedAndClipped}` |
| boundary conditions (`bc/OrthorhombicBC.cpp`) | lengths of the box | `foldCoordinate` |
| storage (`storage/Storage.*`, `storage/DomainDecomposition.cpp`) | particles in cells, `localParticles` (id to pointer) | `addParticles`, `modifyParticle`, `removeParticle`, `decompose`, `updateGhosts`, `collectGhostForces`, `cellAdjust` |
| integrators (`integrator/VelocityVerlet.cpp`, `integrator/MinimizeEnergy.cpp`) | `resortFlag`, `maxDist` | `run` |
| system (`System.cpp`) | skin, largest cutoff | `setSkin` |
| Verlet list (`VerletList.cpp`) | pairs | `rebuild` |
| dynamic exclusions (`DynamicExcludeList` in `VerletList.cpp`) | excluded pairs, the same on all nodes; changes noted on one | `exclude`, `unexclude`, `updateList`, listeners of the bonded lists |
| bonded lists (`FixedPairList.cpp`, `FixedTripleList.cpp`, `FixedQuadrupleList.cpp`) | tuples of ids by key particle; tuples of pointers | `add`, `remove`, `beforeSendParticles`, `afterRecvParticles`, `onParticlesChanged` |
| errors (`esutil/Error.cpp`) | number of exceptions | `setException`, `checkException` (collective) |
| association reaction (`integrator/AssociationReaction.cpp`) | candidate and agreed pairs, states of particles | `react` |
| topology manager (`integrator/TopologyManager.cpp`) | on every node: graph of bonds, graph of residues, molecules, rules for types and bonds; changes noted since the last exchange | `initializeTopology`, `onTupleAdded`, `onTupleRemoved`, `invokeNeighbour...`, `exchangeData` |
| chemical reactions (`integrator/ChemicalReaction*.cpp`) | reactions, candidate and agreed pairs, modified particles | `React`: `sendMultiMap`, `uniqueA`, `uniqueB`, `sortParticleReactionList`, `applyDR`, `applyAR`, `updateGhost` |
| PMI (`pmi.py`) | objects of the controller and caches of the workers, ids of collected objects, active group | `create`, `call`, `invoke`, `reduce`, `activate`, `deactivate`, `stopWorkerLoop`, the worker loop |
| `MultiSystem.py`, `ParallelTempering.py` | one system per group of tasks | exchanges of temperatures |
| potentials, thermostats, analysis, input and output | numbers | numerical work on the lists above |

### How they interact

A script's call is broadcast by PMI, so that all nodes run it; while a group is
active commands go through its own communicator. `run()` alternates
`integrate1`, a test of the accumulated displacement, possibly
`storage.decompose()`, then `updateGhosts`, the forces, `collectGhostForces`.
`decompose()` sends particles to the six neighbours until everybody is at
home; while it does so the signals `beforeSendParticles` and
`afterRecvParticles` let the bonded lists put their tuples into the same
buffers. It ends with the exchange of ghosts and the signal
`onParticlesChanged`, on which Verlet list and bonded lists are rebuilt.
Reactions run after the velocities of a step; they change bonds through
`FixedPairList::iadd` and `remove`, whose signals `onTupleAdded` and
`onTupleRemoved` reach the topology manager and the dynamic exclusions on the
node that keeps the bond. `exchangeData` (`aftIntV`) and `updateList`
(`befIntP`, `runInit`) then tell all nodes. Nodes
meet only in blocking sends and receives between neighbours and in reductions
over all of them.

### What is hard

* Blocking exchanges on periodic rings, odd ones and ones of two nodes, all
  with two tags (deadlock, wrong matching).
* Particles that need several rounds, or several coordinates, to get home.
* Messages that carry no sizes and no ids and rely on the order of the last
  exchange; forces of corners that come home over several nodes.
* Lists that are deliberately stale and must be just fresh enough: Verlet
  list, pointers of bonds, properties of ghosts.
* Collective calls made a different number of times, or an error that only
  one node meets.
* Integer truncation where positions are mapped to cells.
* Copies of one graph changed piecemeal on every node, with changes of the next
  window arriving while the last ones are applied; searches on a graph that is
  behind the bonds.
* Reactions found on several nodes at once, decided by nodes that see different
  neighbourhoods, applied by each node to the copies it has.
* Commands through several communicators without a common order; ids that are
  used again while messages about their former objects are on their way.

`PROJECT.json` lists these as hazards, each at its line.

### What makes each part correct

| part | property | where |
|---|---|---|
| exchange | every message reaches the exchange it was sent for | `Matched` |
| exchange | nobody waits in a circle; every program ends | `NoDeadlock`, `Termination` |
| exchange | a reduction separates rounds | `QuietAfterReduce` |
| migration | no particle lost or doubled, images kept, everybody at home, and it returns | `Conserved`, `ImagesAddUp`, `AtHome`, `Returns` |
| storage | an id is there at most once | `IdsUnique` |
| ghosts | a ghost cell shows the cell it mirrors; each force comes home once; ids find the right copy | `GhostsAreImages`, `ForcesComeHome`, `IndexSound` |
| resorting | forces see every pair within the cutoff; nobody far outside its brick; cells wide enough | `ForcesSeeAllPairs`, `StaysClose`, `CellsWideEnough` |
| bonded lists | tuples travel with their key, are never lost, computed exactly once, in one place only and (bonds and angles) not from both ends | `TuplesFollowKey`, `NothingLost`, `ForcesOnce`, `NotTwice` |
| association reaction | one new bond per particle and step, only from state 0, states count bonds, collective calls line up | `OneBondPerStep`, `ReactsFromZero`, `StateCountsBonds`, `AddsAlign` |
| topology, exclusions | all copies agree, and are one graph and one list that follow the bonds | `ReplicasAgree`, `RefinesBondGraph` |
| topology | molecules are what bonds connect; angles are the paths of two bonds; neither ambiguous distances nor an edge between molecules make a node throw alone; no bond is forgotten | `MoleculesAreComponents`, `AnglesArePaths`, `NeverThrows`, `BondsBecomeEdges` |
| chemical reactions | states of owners count bonds, ghosts learn states, a residue reacts once per step, two reactions of a step close no ring | `BothEndsKnow`, `GhostsUpdated` (false when bonds also break: `StateCountsBonds`, `CopiesAgree`), `OneReactionPerResidue`, `NoRings` |
| PMI | commands in the order of the script through all communicators; caches hold what the script holds; no internal error; values belong to their command; `invoke` returns, stop reaches all | `ListensWhereNextIs`, `CachesFollowScript`, `NoInternalError`, `ValuesBelongTogether`, `InvokeReturns`, `StopReachesAll` |

## 2. Modules

```
NodeGrid <- NeighborExchange <- NeighborExchangeProofs
   ^            ^-- MCNeighborExchange
   |-- CellGrid <- DomainDecomposition <- MCDomainDecomposition, DomainDecompositionProofs
   |      ^------- GhostLayer <- MCGhostLayer, GhostLayerProofs
   |-- AssociationReaction <- MCAssociationReaction, AssociationReactionProofs
VerletSkin <- MCVerletSkin, VerletSkinProofs
FixedLists <- MCFixedLists, FixedListsProofs
TopologyManager <- BondedSystem <- MCBondedSystem, BondedSystemProofs
                      | Ex == INSTANCE DynamicExcludeList
                      | Abstract == INSTANCE BondGraph WITH ...
ChemicalReaction <- MCChemicalReaction
Pmi <- MCPmi, PmiProofs
```

The modules cut the system where the code waits for other nodes, and each
relies on what the ones before it show:

* **NodeGrid** has the neighbours of a node on the periodic grid and the sign
  of the shift across the border of the box.
* **NeighborExchange** has the sends, receives and reductions of every node,
  each call a step of its own. A program `Phases` is a sequence of exchanges;
  the schedules of `decomposeRealParticles` and `doGhostCommunication` are
  given as operators. MPI is external: a send may return when it is buffered
  or only when it is received, messages with one source, destination and tag
  keep their order.
* **CellGrid** has the lookups of cells and nodes by position and the folding
  of a coordinate, with the truncation of C++ casts. Coordinates are integers;
  a cell is `CellWidth` of them wide.
* **DomainDecomposition** has `addParticles`, `modifyParticle`, the moves of a
  step, and `decomposeRealParticles`: for every coordinate a node scans its
  cells and sends to both sides (`Scan`), takes what arrives (`Append`), or
  folds in place if it has the coordinate for itself (`FoldLocal`); then the
  reduction decides on another round. The order of blocking calls inside a
  phase is left to NeighborExchange.
* **GhostLayer** has the frame of ghost cells, the six exchanges in both
  directions, and `localParticles`. Particles are sequences per cell, since
  `updateGhosts` relies on their order. A force is the sequence of places it
  was computed at, so that a lost or doubled share can be seen. `decompose()`
  up to the ghost exchange is one step (everybody at home, by
  DomainDecomposition; a reduction separates it from the exchange). Between
  steps a script adds and removes particles (`AddParticle`, `RemoveParticle`,
  `RemoveAllParticles`): the owner changes its cell and its index, ghosts stay
  as they are. `touched` notes that; the script calls `decompose()` before it
  runs on, which the code leaves to it. `RemoveParticle` is restricted to
  particles that lie in the cell their position leads to (`InItsCell`): for
  others `Storage.cpp:291` subtracts pointers into two vectors.
* **VerletSkin** has one coordinate of the box, unrolled: integrators with
  their resort flag and sum of displacements, the Verlet list built from
  neighbouring cells, and what scripts do between runs (`decompose`,
  `cellAdjust`, `setSkin`, `tuneSkin`, `modifyParticle`, another integrator).
  `Careful` says whether the script resorts before a run whenever it has
  touched something, and does not run with cells that are too narrow.
* **FixedLists** has bonds, angles and dihedrals in one module: they differ in
  the key and in the search for a tuple that exists. Nodes form a ring; a
  particle is some domains off its place and migrates as in
  DomainDecomposition. Which particles have dropped out of the ghost layer
  after a resort is chosen freely (`MaxLost`).
* **AssociationReaction** has the three phases of a reaction step and the
  collective `add` that files a bond, for a fixed arrangement of particles and
  ghosts. Which pairs are in reach and pass the random test is chosen freely,
  and so is whether the time steps between two reaction steps resort: only a
  resort sends states to ghosts (`storage/Storage.cpp:53`), and
  `integrator/VelocityVerlet.cpp:151` resorts when displacements ask for it.

* **TopologyManager** has what one node notes (`AddBond`, `RemoveBond`,
  `PostProcess`), the collective that gathers it (`Gather`), and how each node
  applies what it got, edge by edge and at its own pace (`DeleteEdge`,
  `NewEdge`, `Finish`): graph, residue graph, molecules with their ids, types
  by rule, bonds removed around a root, angles.
* **DynamicExcludeList** has the pairs the Verlet list leaves out.
* **BondedSystem** composes the two on one pair list, in the order of the
  integrator's signals. Scripts change bonds between two runs, reactions
  between the update and the exchange.
* **BondGraph** is the abstract specification: one set of bonds, one graph, one
  list of exclusions. BondedSystem implements it (`RefinesBondGraph`): bonds are
  the union of the lists without the bonds that an exchange has decided to
  remove, graph is what node 0 works towards (`Final(0)`), exclusions are those
  of node 0; that other nodes have the same is `ReplicasAgree`.
* **ChemicalReaction** has a reaction step in its parts, one action per part on
  all nodes: nodes wait for each other between them, and none reads what
  another writes. It sees the topology through what BondGraph promises: graph
  is the bonds of the last exchange, the same on all nodes.
  `DissociationReaction::isValidState` computes `ret_val` and never returns it
  (`integrator/ChemicalReaction.cpp:324`), so that any answer is possible: the
  model may leave a pair alone that fits, and goes to a state `undefined` where
  a pair that does not fit would be taken and its roles read uninitialized.
  The history variable `torn` notes that `applyDR` has broken a bond of a
  particle in a step that had agreed on a pair with it.
* **Pmi** has the controller (a script with its commands, `__delete`, the
  garbage collector), the communicators as queues per worker, and the worker
  loop. `create`, `call`, `invoke` (and `reduce`), `sync`, `stop`, `activate`,
  `deactivate` and `delete` are its commands; arguments are the objects they
  use. A collective MPI broadcast is a message to each worker of the
  communicator.

Definitions named `...Always`, `...Wrong`, `...Appends` and so on, each marked
"variant", are plausible mistakes in the definition that follows them. They
are not part of a specification; each is used to see that a property fails
when the code is changed that way.

## 3. Runs

Each run is `tlc -config <cfg> <module>`.

| run | instance | what it shows |
|---|---|---|
| `exchange_step` | two nodes, one complete resort step and the next one without resort | left and right neighbour are one task, and 14 exchanges share two tags; matched, free of deadlock, and it ends |
| `decompose_corner` | 3x1x2 nodes, one particle, two operations | a particle leaves through a corner of the box, or for several domains: conserved, image kept, home, and the loop ends |
| `ghosts_plane` | 2x2x1 nodes with two cells each, one particle | corners reached over two nodes and a local copy, on moves with and without resort, before and after removal |
| `ghosts_pair` | 2x1x1 nodes with two cells each, two particles | order of particles within cells; both sides of a node are the same neighbour; ids lead to the right copies as particles move, go and come |
| `skin_careful` | two integrators, two skins, all script operations, two particles around a border | no pair within the cutoff is missed when scripts are careful |
| `tuples_molecule` | ring of three nodes, four particles, a bond, an angle and a dihedral, each given from both ends | tuples follow their key over up to two hops, are in one place only, and are computed once |
| `reaction_ring` | ring of three nodes, two A and two B found through ghosts of either, three steps with or without resorts between them | one bond per particle and step, a B reacts from state 0 only, states and bonds agree |
| `topology_ring` | two nodes, five particles in three residues, four bonds that come and go in a ring, post-processes on a ghost | copies agree and implement BondGraph, molecules split and merge rightly when a ring of residues opens and closes, angles are complete, every bond becomes an edge |
| `chemical_row` | three nodes, all seeing nearly everything, seven particles in six residues of three molecules, three kinds of association and one dissociation within a node | states and bonds agree on all nodes unless `torn`; residues react once, no rings with two reactions per step |
| `pmi_careful` | two workers, each also a group, two object ids, up to seven messages | order across communicators, caches, values, and both liveness properties |

Two runs show the code at odds with its comments or documentation; TLC finds the
property violated.

| run | property | what happens |
|---|---|---|
| `decompose_far` | `AtHome` | `mapPositionToCellChecked` (`storage/CellGrid.cpp:106`) casts to int, which truncates towards zero. A position up to one cell left of the brick passes for an inner one, and `decompose()` leaves the particle on the wrong node. It takes a move of more than a brick to the left, so that the particle arrives at a node from the right while it lies left of it. `decompose_corner` keeps moves within `MaxLeftMove`. |
| `angles_triangle` | `AnglesArePaths` | `generateAnglesDihedrals` (`integrator/TopologyManager.cpp:903`) looks for another triple than the one it adds; when two bonds that close a triangle are made in one window an angle is left out. `topology_ring` has no triangle. |

More disagreements were met while modelling. Each can be seen by changing
constants of a passing run as given here and checking the property; TLC then
finds it violated.

| run | change | property | what happens |
|---|---|---|---|
| `decompose_corner` | `OnlyNewIds = FALSE`, `Particle = {p1, p2}`, `AddPositions <- TwoPlaces`, `GridSize <- Grid311`, `CellGridSize <- Cells212` | `IdsUnique` | `addParticles` (`storage/Storage.py:286`) decides on each node whether a particle of the list exists; only the owner skips the list. |
| `reaction_ring` | `A = {1}`, `B = {2}`, `GridSize <- Grid411`, `Owner <- RowOwner`, `Ghosts <- RowGhosts`, `Pairs <- RowPairs` | `AddsAlign` | With four nodes in a row the agreed pairs do not reach everybody, and nodes call the collective `FixedPairList::add` different numbers of times. |
| `reaction_ring` | `B = {2}`, `GridSize <- Grid111`, `Owner <- ImageOwner`, `Ghosts <- ImageGhosts`, `Pairs <- ImagePairs` | `ReactsFromZero` | `reactPair` (`integrator/AssociationReaction.cpp:195`) reads the state of B from the copy it finds, `applyAR` changes the copy of `localParticles`. Where these differ (a coordinate with one node, or two images on one node) the image keeps state 0 until a resort, and B reacts again, although `AssociationReaction.hpp:57` says `A^a + B^0 -> A^{a+deltaA}-B^{deltaB}`. `reaction_ring` finds B through the copy of `localParticles`, which is the only one if each coordinate has at least three nodes. |
| `skin_careful` | `Skins = {1, 4}`, `InitCells = 4`, `Careful = FALSE`, `ScriptOps = {"setSkin"}` | `CellsWideEnough` | `setSkin` (`System.cpp:84`) compares cutoff plus skin with the number of cells. |
| `skin_careful` | `Skins = {1, 4}`, one integrator, `Careful = FALSE`, `ScriptOps = {"tuneSkin"}` | `ForcesSeeAllPairs` | `cellAdjust` clips particles into border cells, and `run()` does not resort before the first forces. |
| `skin_careful` | `Careful = FALSE`, `ScriptOps = {"modifyParticle"}` or `{}` | `ForcesSeeAllPairs` | A particle is moved, or two integrators take turns, without a resort. |
| `tuples_molecule` | `Updates = FALSE` | `ForcesOnce` | A script calls `FixedPairList.remove` and nobody rebuilds the pointers. |
| `topology_ring` | `OncePerWindow = FALSE` | `RefinesBondGraph` | A pair that is bonded and released, or the reverse, within one window ends up excluded or an edge: the order within the window is lost. |
| `chemical_row` | `MaxPerInterval = 3` | `NoRings` | Three reactions of one step close a ring through three molecules, each of them between molecules that are still separate; the default of the code is no limit, and `ChemicalReactionExt.hpp:107-109` says reactions within a molecule are excluded. |
| `chemical_row` | none | `BothEndsKnow` | `applyDR` (`integrator/ChemicalReactionExt.cpp:891`) changes states on one node after all nodes have agreed on new pairs. `applyAR` tests the pairs on each node against its own copies: the node that broke the bond finds that its particle has left the range of the reaction and files no bond; the owner of the partner still sees the old state, and counts one (`ChemicalReactionExt.hpp:92` says `A^a + B^b -> A^{a+deltaA}-B^{b+deltaB}`). Both particles of the broken bond are on one node here. |
| `chemical_row` | none | `GhostsUpdated` | In the same step a third node applies the pair to its copies and reports them. `updateGhost` (`ChemicalReactionExt.cpp:638`) takes the last message for a ghost, also from a node whose own copy is a ghost: the state the owner sent is overwritten until the next resort, although `ChemicalReactionExt.cpp:491` says that `updateGhost` is "to update the ghost particles". The properties of `chemical_row` leave out what follows such a step (`torn`). |
| `chemical_row` | `Breakable <- Anywhere` | `CopiesAgree`, `StateCountsBonds` | `applyDR` changes the copies of one node; an owner elsewhere does not learn of it. |
| `chemical_row` | `Reports = FALSE` | `CopiesAgree`, `StateCountsBonds` | Particles a reverse reaction changes are not noted as modified unless a post-process returns them; a later step decides by the stale ghosts. |
| `pmi_careful` | `Careful = FALSE` | `NoInternalError`, `CachesFollowScript` | An object is collected between the broadcast of ids and the replacement of the list, or while a group is active (`pmi.py:620`). |
| `pmi_careful` | `Careful = FALSE` | `StopReachesAll` | `stopWorkerLoop` while a group is active (`pmi.py:668`). |

Some invariants are not part of a run. `TypeOK` of every module, `IdsUnique`
(`decompose_corner`), `ForcesComeHome` (`ghosts_pair`), `GraphIsBonds`
(`topology_ring`) and `AcceptedTogether` (`chemical_row`: nodes that see both
particles of a pair agree about it unless `torn`) hold on the instances named, and are what inductive invariants start from.

### Bounds

`MaxOps` (operations around a decomposition) is two: one adds a particle, one
moves it. `MaxLeftMove` keeps moves out of the reach of the first finding.
`Slack` (GhostLayer) is how far a particle may leave its cell before a resort.
`Range` (VerletSkin) is a window around the border of two nodes that is wider
than cutoff plus skin on both sides. `MaxHops`, `MaxLost` (FixedLists) allow
several rounds and one particle out of reach. `MaxSteps` (reaction) is enough
for every A to use up its state. `MaxMolId` (topology) stops removals when
molecule ids have been given twice more than there are molecules at the start;
additions go on. `MaxPerInterval` is a parameter of the code. `MaxSent` (Pmi)
is enough to create an object, drop it, activate a group, use the id again
and leave; `MaxAhead` lets a worker be one command behind, so that messages of
two communicators are on their way together. Grids are the smallest on which
the case in question exists: two nodes so that both neighbours are one task,
three for an odd ring, two coordinates for a corner, four nodes in a row so
that somebody is not a neighbour.

### Fairness

`Termination` and `Returns` assume weak fairness of the steps of each node and
of the reduction: a task that is not blocked is scheduled, and MPI makes
progress on matching calls. Nothing is assumed about buffering: `EagerReturn`
is in no fairness condition.

`BondsBecomeEdges` assumes that the integrator goes on: its signals `befIntP`
and `aftIntV` alternate for ever. Nothing makes scripts or reactions change a
bond. `InvokeReturns` and `StopReachesAll` assume weak fairness of the
controller once a command is started and of each worker in its loop; no command
need ever be given, and the garbage collector need not run.

## 4. Proofs

TLAPS checks the proofs of eight modules, for all values of the constants that
the named assumptions allow. Each module defines an inductive invariant as a
conjunction of named parts, has one lemma per action that the action keeps it,
and derives the properties of the runs from it. Where a property holds only of
careful scripts or small grids, the theorem assumes that in so many words
(`ASSUME ... PROVE`); section 3 shows what happens without.

| theorem | property | assumed |
|---|---|---|
| `NeighborExchangeProofs!Matching`, `Quietness`, `DeadlockFreedom` | `Matched`, `QuietAfterReduce`, `NoDeadlock` | |
| `VerletSkinProofs!ListComplete`, `DomainsHold` | `ForcesSeeAllPairs`, `StaysClose` | `Careful` |
| `FixedListsProofs!FollowKey`, `NoneLost`, `NeverTwice` | `TuplesFollowKey`, `NothingLost`, `NotTwice` | |
| `FixedListsProofs!ComputedOnce` | `ForcesOnce` | `Updates` |
| `PmiProofs!InOrder`, `OneCommandsValues` | `ListensWhereNextIs`, `ValuesBelongTogether` | |
| `PmiProofs!NeverInternalError`, `CachesAgree` | `NoInternalError`, `CachesFollowScript` | `Careful` |
| `DomainDecompositionProofs!NoneLostNoneTwice`, `ImagesKeepTrack` | `Conserved`, `ImagesAddUp` | `OnlyNewIds` |
| `DomainDecompositionProofs!ComesHome` | `AtHome` | `ShortMoves` |
| `AssociationReactionProofs!OneBond` | `OneBondPerStep` | |
| `AssociationReactionProofs!ReactsOnce`, `CountsBonds` | `ReactsFromZero`, `StateCountsBonds` | `Tracked` |
| `AssociationReactionProofs!CallsAlign` | `AddsAlign` | `Small` |
| `BondedSystemProofs!NoException`, `Molecules`, `Alike` | `NeverThrows`, `MoleculesAreComponents`, `ReplicasAgree` | |
| `GhostLayerProofs!GhostsMirror`, `ForcesHome`, `IndexLeadsHome` | `GhostsAreImages`, `ForcesComeHome`, `IndexSound` | |
| `BondedSystemProofs!Refinement` | `RefinesBondGraph` | `OncePerWindow` |

All but BondedSystemProofs also prove the type invariant of their module
(`Typing`; `GhostTypes` in GhostLayerProofs).

**NeighborExchangeProofs** holds for every grid and every sequence of
exchanges and reductions. The inductive invariant `IInv` adds to the types

* `Control`: a node has a message posted only while it is in the send;
* `NetExact`: the network holds exactly the messages that were sent and not
  received. This is what makes `Matched` inductive: a message of another
  exchange with the same source, destination and tag would have to belong to
  an earlier phase, and those have been received, or to a later one, which
  does not overtake;
* `Barrier`: nobody is past a reduction that another node has not reached;
* `Causal`: nothing is received before it is sent.

`Typing`, `Matching` and `Quietness` follow at once. `DeadlockFreedom` looks
at a node in the earliest phase (it exists by well-founded induction). If it
is in a reduction everybody has reached it. If it is in an exchange, a node
that waits to send waits for a receiver that either can take the message or
sends first itself; since two neighbours of an odd position are even, and of
three nodes in a row not all have to send first (`NoThreeEven`), one of them
can go on.

**VerletSkinProofs** holds for every number of particles, cutoff, set of
skins, length of the brick and moves, under `Careful`. The invariant relates
the list to a history variable `drift`, the sum of the largest displacements
since the last `decompose()`:

* `Covers`: pairs closer than cutoff + skin - 2 drift are in the list;
* `Near`: nobody is outside its brick by more than the drift;
* `Counted`: an integrator that may run has counted at least the drift, and
  twice the drift is at most the skin;
* `Running`: during a run only the running integrator is `clean`, and the cells
  are wide enough.

`ListComplete` (`ForcesSeeAllPairs`) follows: two particles within the cutoff
have moved apart by at most twice the drift, at most the skin, since the list
was built. The one fact with real arithmetic in it is `NearIsAdjacent`: if
cells are at least cutoff plus skin wide, two positions that close are in the
same or neighbouring cells, also across the border of two nodes. With a single
integrator and no script operations `Careful` is no restriction at all.

**FixedListsProofs** holds for every number of nodes on the ring, particles,
tuples and domains a particle is off its place. A tuple is filed where its key
is, so the invariant `IInv` has to say where everybody is during a migration:

* `Together` and `Rounds`: collective calls keep the nodes in one kind of work,
  and a buffer is taken in the round in which it was sent, which is why two
  buffers of one sender cannot be confused;
* `Carried`: a particle without an owner is in one buffer;
* `NoTwin`, `InReach`: no bond or angle is there from both ends, and a node
  that is idle sees the members of its tuples;
* `Pointers`: the pointers are those of the tuples, each once. This part, and
  `ForcesOnce` with it, needs `Updates`: a script that removes a tuple also
  calls `updateParticlesStorage`.

`TuplesFollowKey` and `NothingLost` are parts of `IInv` themselves. `NotTwice`
follows from them and `Carried`: a tuple is where its key is, and that is in one
place. It says nothing of a dihedral given from the other end, whose key is the
other inner particle: `FixedQuadrupleList::add` searches its own node only
(`FixedQuadrupleList.cpp:196`, and `FixedQuadrupleList.hpp:53` says so).

**PmiProofs** holds for every set of workers and groups and any number of
commands. `Numbered` says that messages carry the order of the script over all
communicators; `Chain` that each message is in the communicator the one before
it leads to, from where a worker listens now to where the controller is.
`ListensWhereNextIs` follows. `Answers` ties values to the last command. For
careful scripts `Fits` and `Caches` say what a worker *will* have when it has
taken the messages before a given one (`Has`), so that ids used again before
workers have heard of the deletion cause no harm.

**DomainDecompositionProofs** holds for every grid of nodes and cells, box and
set of particles. `PInv` has `OnePlace`, `SomePlace` (a particle that exists is
on exactly one node or in one buffer) and `Accounted` (position plus image
times the box is where the particle really is), which need `OnlyNewIds`. `HInv`
is about `AtHome`: within a round it follows each particle along the
coordinates that its node has passed. It needs `ShortMoves`, that is, moves to
the left within one brick and particles added left of the right border of the
box: without it the truncation in `mapPositionToCellChecked` (run
`decompose_far`) makes the property false. The arithmetic is in the lemmas on
`CellClipped`, `NodeClipped` and `Fold`: results are in range wherever the
position is, and folding is made up for by the image.

**AssociationReactionProofs** holds for every grid, arrangement of particles
and ghosts, and number of steps. `RInv` says that after `uniqueB` the pairs
nodes work on (`Agreed`) form a matching that the owners of both particles
know, and so does everybody who has a ghost of the B. `SInv` adds the books
(`Ledger`): the state of an A counts its bonds and the agreed pairs its own
node has applied; the state of a B does so in *every* copy that some node's
`localParticles` points to, ghosts included. Resorts are not needed for that:
the third exchange brings a pair to all nodes around the owner of the B, and
`applyAR` changes their copies. What it needs is `Tracked`: no Verlet pair in
reach holds another copy of the B than the one `localParticles` points to (true
with at least three nodes along each coordinate; section 3 shows what happens
otherwise), and the reaction changes the state of B.
`CallsAlign` needs `Small`,
at most three nodes along each coordinate, so that three exchanges reach
everybody (`Even`: all nodes have the same number of pairs left).

**GhostLayerProofs** holds for every grid of nodes and of cells, every finite set
of particles and any sequence of steps; `GhostAssumption` says no more than
that. None of the three properties is inductive: a node that computes forces
has got its corners from nodes that got them from others, which may be anywhere
within the exchanges. The invariant `GInv` has

* `Types` and `OnePlace`: a particle is real once;
* `InStep`: what a node has sent is received or on its way, once, and nobody
  goes on before it has received. A node that has finished has had its whole
  surroundings through the forces, so nothing it counts on is still to come;
* `GhostsFilled`: the ghost cells that the phases so far have reached (`Done`)
  are images of the real cells they mirror. A phase copies from cells that are
  done already; `SourceMirrors` and `ShiftSeen` say that the cell and the shift
  are those of the cell mirrored, so that three shifts add up for a corner;
* `ForcesAdded`: before a phase that collects, the force of a copy is made of
  the shares of a known set of places (`Shares`), each `Once`. What a phase adds
  is disjoint from what is there (`SharesMore`), and after the last one the set
  is all cells that mirror the real one (`SharesLast`);
* `MailIsGood`: a buffer on its way has, cell by cell, what the receiver's cells
  are to have;
* `IndexLeads`: `IndexSound`, and what holds of the index during the first six
  exchanges.

`Places` counts copies on nodes that have computed their forces. On a row of
seven or more nodes one node can have finished while a far one has yet to
exchange: its ghosts are those of before the last resort, and may be copies of a
particle that has since moved away.

**BondedSystemProofs** holds for every number of nodes, particles, residues
and bonds, any rules, and any sequence of changes and post-processes. The
invariant `TopoInv` has

* `Working`, `Noticed`: what is to be deleted is an edge, and what a running
  node has noted it has seen in its present graph;
* `MoleculesAreComponents` and `GraphsAgree` themselves. That deleting an edge
  splits and adding one joins components is proved from the definition of a
  component as the smallest closed set (`Smallest`, `Partition`, `Joining`,
  `Splitting`, then `MergeTells` and `SplitTells` about ids of molecules);
* `InLine`: of any two nodes one will come to exactly where the other one is by
  applying its next edges. `MoleculesAgree` is not inductive, since it says
  nothing of nodes that have come differently far; `InLine` describes the whole
  path between them (`Behind`), and nodes with equally much to apply are at the
  same place (`SamePlace`);
* `TypesFollow`: copies have, or will have when they have applied the rules,
  the same type.

`NeverThrows` follows for both exceptions it is about: two nodes gather with equal graphs, in which a particle
is at one distance of a root, and an edge of the graph is within a component.
`Refinement` needs `BookInv` besides, and `OncePerWindow`: on the owner of a
bond the list, the graph with what is noted, and the exclusions with what is
noted agree about it (`BooksOf`). `AddBond` and `RemoveBond` then implement
`Change`, `Gather` implements `Exchange`, `BefIntP` implements `Update`, and
everything a node applies edge by edge is a stuttering step.

### Only model-checked

* Liveness: `Termination`, `Returns`, `BondsBecomeEdges`, `InvokeReturns`,
  `StopReachesAll` are beyond the prover.
* `AnglesArePaths` and the properties of ChemicalReaction: new angles, and the
  choices of `uniqueA`, `uniqueB` and `sortParticleReactionList`, are folds
  over sorted sequences, and what a fold returns for every input takes an
  induction over data. `AnglesArePaths` is also false in general
  (`angles_triangle`).

Assumptions on constants are `GridAssumption`, `PhasesAssumption`,
`CellGridAssumption`, `OperationAssumption`, `GhostAssumption`,
`SkinAssumption`, `TupleAssumption`, `LayoutAssumption`, `ReactionAssumption`,
`TopologyAssumption`, `ChemicalAssumption` and `PmiAssumption`; TLC evaluates each on the runs of its module.

## 5. Not modelled

* Potentials, thermostats, barostats, lattice Boltzmann, analysis: real
  arithmetic without protocol, or with the one already modelled.
* Input and output, bindings, standard systems, converters.
* Extensions hooked on the integrator's signals; those that move particles
  after `maxDist` is taken weaken the resort rule like `modifyParticle`.
* Floating point: coordinates are integers, so rounding at a border between
  bricks is outside the models, and so are positions that are not numbers.
* AdResS and `DomainDecompositionNonBlocking`, variants of modelled parts.
* Storage: `removeParticle` of a particle that has left its cell, and its signal
  `onParticlesChanged` on the owner alone (`storage/Storage.cpp:300`), whose
  listeners in the bonded lists make a collective call; `scaleVolume`,
  `savePosition`.
* Topology: dihedrals and 1-4 pairs, which are found like angles on longer
  paths; the choice of a list by the types particles have when a bond is
  removed (`integrator/TopologyManager.cpp:568`). Particles do not migrate
  within the windows of BondedSystem.
* Exclusions from triples and quadruples (`observe_triple`,
  `observe_quadruple`), which make the same calls with other pairs.
* Chemical reactions: virtual reactions, constraints on neighbours, the nearest
  pair, changes of mass and charge; planes of nodes, where `updateGhost` does
  not reach across an edge of the grid.
* PMI: workers that call pmi functions themselves, spawned tasks, groups in
  which the controller is not first (`pmi.py:1320`); `MultiSystem`,
  `ParallelTempering`.

The repository also contains Boost, mpi4py and other libraries under `contrib/`,
which are not ESPResSo++'s own code and make up most of its lines.

## 6. Plan

Done: all modules of section 2, and the proofs about NeighborExchange,
VerletSkin, FixedLists, Pmi, DomainDecomposition, AssociationReaction,
GhostLayer and BondedSystem with its refinement of BondGraph.

Theorems to prove next: `StateCountsBonds` and `CopiesAgree` of
ChemicalReaction, once the choices of `uniqueA` and `uniqueB` are stated by what
they return rather than as folds.

Models to add: the signal of `removeParticle` together with FixedLists;
migration within BondedSystem; an abstract specification of the storage (a set
of particles with positions) that DomainDecomposition implements; MultiSystem
and ParallelTempering on top of Pmi.
