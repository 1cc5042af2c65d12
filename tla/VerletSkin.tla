----------------------------- MODULE VerletSkin -----------------------------
(***************************************************************************)
(* When are particles resorted and the Verlet list rebuilt?                *)
(*                                                                         *)
(* VerletList::rebuild lists the pairs of particles in neighbouring cells  *)
(* that are closer than cutoff plus skin.  An integrator adds up the       *)
(* largest displacement of every step and calls storage.decompose() once   *)
(* the sum exceeds half the skin.  Between two runs a script may change    *)
(* the skin, adjust the cell grid, modify particles, decompose, or use     *)
(* another integrator, which keeps a sum of its own.                       *)
(*                                                                         *)
(* Space is one coordinate of the periodic box, unrolled: nodes of length  *)
(* NodeSize one after the other.  Lengths are integers; Unit of them are   *)
(* one unit of length of the program.                                      *)
(***************************************************************************)
EXTENDS Integers

CONSTANTS Particle,
          Integrator,    \* integrator objects (VelocityVerlet, MinimizeEnergy)
          Cutoff,        \* maxCutoff of the system and cutoff of the list
          Skins,         \* values given to system.skin
          NodeSize,      \* length of a node's domain
          InitCells,     \* inner cells of a node at the start
          Unit,
          MaxMove,       \* longest displacement in a step
          Careful,       \* scripts resort before a run when they have to
          ScriptOps,     \* what scripts do between runs
          Range          \* bound: positions looked at

ASSUME SkinAssumption ==
  /\ Cutoff \in Nat /\ MaxMove \in Nat /\ Unit \in Nat \ {0}
  /\ NodeSize \in Nat \ {0} /\ InitCells \in Nat \ {0}
  /\ Skins \subseteq Nat /\ Skins # {}
  /\ \A s \in Skins : 0 < Cutoff + s /\ Cutoff + s <= NodeSize
  /\ Careful \in BOOLEAN
  /\ ScriptOps \subseteq {"decompose", "cellAdjust", "setSkin", "tuneSkin", "modifyParticle"}
  /\ Range \subseteq Int

VARIABLES pos,         \* positions of the particles
          node, cell,  \* the domain and the inner cell a particle is stored in
          cells,       \* number of inner cells of a node
          skin,        \* system.skin
          list,        \* the pairs of the Verlet list
          maxDist,     \* maxDist (dp_MAX) of each integrator
          resortFlag,  \* resortFlag of each integrator
          pc, running, \* what happens next, and the integrator that runs
          clean,       \* integrators a careful script may run now
          drift        \* history: what particles moved at most since the last
                       \* decompose(), as long as only one integrator moved them

vars == <<pos, node, cell, cells, skin, list, maxDist, resortFlag, pc, running, clean, drift>>

Abs(x) == IF x >= 0 THEN x ELSE -x
Dist(x, p, q) == Abs(x[p] - x[q])

-----------------------------------------------------------------------------
(* Cells and the list.                                                     *)

\* the cells are wide enough for cutoff and skin
Wide == cells * (Cutoff + skin) <= NodeSize

\* createCellGrid as called by cellAdjust
CellsFor(s) == NodeSize \div (Cutoff + s)

\* decomposeRealParticles: domain and cell a position is in
HomeNode(x) == x \div NodeSize
HomeCell(x, k) == ((x - HomeNode(x) * NodeSize) * k) \div NodeSize

\* variant: the last frame cell instead of the last inner cell
ClippedOff(x, n, k) ==
  LET i == ((x - n * NodeSize) * k) \div NodeSize
  IN  IF i < 0 THEN 0 ELSE IF i >= k THEN k ELSE i

\* mapPositionToCellClipped: the inner cell of node n closest to a position
Clipped(x, n, k) ==
  LET i == ((x - n * NodeSize) * k) \div NodeSize
  IN  IF i < 0 THEN 0 ELSE IF i >= k THEN k - 1 ELSE i

\* the same or neighbouring cells, across the border of nodes too
Adjacent(n, c, k, p, q) == Abs((n[p] * k + c[p]) - (n[q] * k + c[q])) <= 1

\* VerletList::rebuild
Rebuilt(x, n, c, k, s) ==
  {e \in Particle \X Particle :
     e[1] # e[2] /\ Adjacent(n, c, k, e[1], e[2]) /\ Dist(x, e[1], e[2]) <= Cutoff + s}

\* Storage::decompose() with particles at x: all of them reach the node and
\* the cell of their position (AtHome of DomainDecomposition)
Resort(x) ==
  /\ pos' = x
  /\ node' = [p \in Particle |-> HomeNode(x[p])]
  /\ cell' = [p \in Particle |-> HomeCell(x[p], cells)]
  /\ list' = Rebuilt(x, node', cell', cells, skin)
  /\ drift' = 0

-----------------------------------------------------------------------------
Init ==
  /\ pos \in [Particle -> Range]
  /\ node = [p \in Particle |-> HomeNode(pos[p])]
  /\ cell = [p \in Particle |-> HomeCell(pos[p], InitCells)]
  /\ cells = InitCells
  /\ skin \in Skins /\ Wide
  /\ list = {}
  /\ maxDist = [i \in Integrator |-> 0]
  /\ resortFlag = [i \in Integrator |-> TRUE]
  /\ pc = "script"
  /\ running \in Integrator
  /\ clean = {}
  /\ drift = 0

\* run() up to the first force calculation
RunBegin(i) ==
  /\ pc = "script"
  /\ Careful => Wide /\ (i \in clean \/ resortFlag[i])
  /\ IF resortFlag[i]
     THEN /\ Resort(pos)
          /\ maxDist' = [maxDist EXCEPT ![i] = 0]
          /\ resortFlag' = [resortFlag EXCEPT ![i] = FALSE]
     ELSE UNCHANGED <<pos, node, cell, list, drift, maxDist, resortFlag>>
  /\ clean' = {i}
  /\ running' = i
  /\ pc' = "forces"
  /\ UNCHANGED <<cells, skin>>

\* updateForces(): the forces are computed from the list
CalcForces ==
  /\ pc = "forces"
  /\ pc' = "move"
  /\ UNCHANGED <<pos, node, cell, cells, skin, list, maxDist, resortFlag, running, clean, drift>>

Moved(d) == [p \in Particle |-> pos[p] + d[p]]

\* m is the largest displacement of a step, reduced over all nodes
IsLargest(m, d) == (\A p \in Particle : Abs(d[p]) <= m)
                   /\ (m = 0 \/ \E p \in Particle : Abs(d[p]) = m)

\* variant: only the last step is compared with the skin
StepForgets(d, m) ==
  /\ pc = "move" /\ IsLargest(m, d) /\ \A p \in Particle : Moved(d)[p] \in Range
  /\ IF 2 * m > skin
     THEN Resort(Moved(d)) /\ maxDist' = [maxDist EXCEPT ![running] = 0]
     ELSE /\ pos' = Moved(d)
          /\ maxDist' = [maxDist EXCEPT ![running] = m]
          /\ drift' = drift + m
          /\ UNCHANGED <<node, cell, list>>
  /\ pc' = "forces"
  /\ UNCHANGED <<cells, skin, resortFlag, running, clean>>

\* one step of the main loop, up to its force calculation
Step(d, m) ==
  /\ pc = "move" /\ IsLargest(m, d) /\ \A p \in Particle : Moved(d)[p] \in Range
  /\ IF 2 * (maxDist[running] + m) > skin
     THEN Resort(Moved(d)) /\ maxDist' = [maxDist EXCEPT ![running] = 0]
     ELSE /\ pos' = Moved(d)
          /\ maxDist' = [maxDist EXCEPT ![running] = @ + m]
          /\ drift' = drift + m
          /\ UNCHANGED <<node, cell, list>>
  /\ pc' = "forces"
  /\ UNCHANGED <<cells, skin, resortFlag, running, clean>>

RunEnd ==
  /\ pc = "move"
  /\ pc' = "script"
  /\ UNCHANGED <<pos, node, cell, cells, skin, list, maxDist, resortFlag, running, clean, drift>>

-----------------------------------------------------------------------------
(* Scripts, between runs.                                                  *)

\* storage.decompose()
Decompose ==
  /\ pc = "script" /\ "decompose" \in ScriptOps
  /\ Resort(pos)
  /\ clean' = Integrator
  /\ UNCHANGED <<cells, skin, maxDist, resortFlag, pc, running>>

\* cellAdjust(): new cells, the particles stay on their node
Adjust(s) ==
  /\ cells' = CellsFor(s)
  /\ cell' = [p \in Particle |-> Clipped(pos[p], node[p], cells')]
  /\ list' = Rebuilt(pos, node, cell', cells', s)

CellAdjust ==
  /\ pc = "script" /\ "cellAdjust" \in ScriptOps
  /\ Adjust(skin)
  /\ clean' = {}
  /\ UNCHANGED <<pos, node, skin, maxDist, resortFlag, pc, running, drift>>

\* System::setSkin(): compares a length with a number of cells
SetSkin(s) ==
  /\ pc = "script" /\ "setSkin" \in ScriptOps
  /\ skin' = s
  /\ IF Cutoff + s > cells * Unit THEN Adjust(s) ELSE UNCHANGED <<cells, cell, list>>
  /\ clean' = {}
  /\ UNCHANGED <<pos, node, maxDist, resortFlag, pc, running, drift>>

\* what tuneSkin does before each run: set the skin and adjust the cells
TuneSkin(s) ==
  /\ pc = "script" /\ "tuneSkin" \in ScriptOps
  /\ skin' = s
  /\ Adjust(s)
  /\ clean' = {}
  /\ UNCHANGED <<pos, node, maxDist, resortFlag, pc, running, drift>>

\* storage.modifyParticle(p, 'pos', x)
ModifyParticle(p, x) ==
  /\ pc = "script" /\ "modifyParticle" \in ScriptOps
  /\ pos' = [pos EXCEPT ![p] = x]
  /\ clean' = {}
  /\ UNCHANGED <<node, cell, cells, skin, list, maxDist, resortFlag, pc, running, drift>>

Next ==
  \/ \E i \in Integrator : RunBegin(i)
  \/ CalcForces
  \/ \E d \in [Particle -> -MaxMove .. MaxMove], m \in 0 .. MaxMove : Step(d, m)
  \/ RunEnd \/ Decompose \/ CellAdjust
  \/ \E s \in Skins : SetSkin(s) \/ TuneSkin(s)
  \/ \E p \in Particle, x \in Range : ModifyParticle(p, x)

Spec == Init /\ [][Next]_vars

-----------------------------------------------------------------------------
(* Properties.                                                             *)

\* Every particle is in an inner cell of its node, whatever a script does to
\* skin and cell grid; sums and flags keep their types.
TypeOK ==
  /\ pos \in [Particle -> Range]
  /\ node \in [Particle -> Int]
  /\ cells \in Nat \ {0}
  /\ cell \in [Particle -> 0 .. cells - 1]
  /\ skin \in Skins
  /\ list \subseteq Particle \X Particle
  /\ maxDist \in [Integrator -> Nat]
  /\ resortFlag \in [Integrator -> BOOLEAN]
  /\ pc \in {"script", "forces", "move"}
  /\ running \in Integrator
  /\ clean \subseteq Integrator
  /\ drift \in Nat

\* Whenever forces are computed, every two particles closer than the cutoff
\* are in the Verlet list, however long ago it was built.
ForcesSeeAllPairs ==
  pc = "forces" => \A p, q \in Particle :
                     p # q /\ Dist(pos, p, q) <= Cutoff => <<p, q>> \in list

\* Whenever forces are computed, no particle is more than half the skin
\* outside the domain it is stored in.
StaysClose ==
  pc = "forces" => \A p \in Particle :
                     /\ 2 * (node[p] * NodeSize - pos[p]) <= skin
                     /\ 2 * (pos[p] - (node[p] + 1) * NodeSize) <= skin

\* The cells of the grid are never narrower than cutoff plus skin ("it
\* modifies the cell structure if the cell size becomes smaller").
CellsWideEnough == Wide
=============================================================================
