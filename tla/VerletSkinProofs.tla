-------------------------- MODULE VerletSkinProofs --------------------------
(* Proofs about VerletSkin.                                                *)
EXTENDS VerletSkin, TLAPS

-----------------------------------------------------------------------------
(* Division.                                                               *)

\* The quotient brackets the dividend: the integer division by which
\* positions are mapped to nodes and cells rounds down.
LEMMA DivBounds ==
  ASSUME NEW a \in Int, NEW n \in Nat \ {0}
  PROVE  /\ a \div n \in Int
         /\ n * (a \div n) <= a
         /\ a < n * (a \div n) + n
  BY SMT

\* A quotient is determined by the interval it leaves the rest in.
LEMMA DivUnique ==
  ASSUME NEW a \in Int, NEW n \in Nat \ {0}, NEW q \in Int,
         n * q <= a, a < n * q + n
  PROVE  a \div n = q
  BY DivBounds, SMT

\* Dividends less than n apart have quotients at most one apart.
LEMMA DivStep ==
  ASSUME NEW a \in Int, NEW b \in Int, NEW n \in Nat \ {0}, a - b <= n, b - a <= n
  PROVE  Abs((a \div n) - (b \div n)) <= 1
  BY DivBounds, SMT DEF Abs

-----------------------------------------------------------------------------
(* Types of what the arithmetic below is about.                            *)

\* Lengths of the system are natural numbers, positions integers.
LEMMA Lengths ==
  /\ NodeSize \in Int /\ MaxMove \in Nat /\ Cutoff \in Nat
  /\ \A x \in Range : x \in Int
  BY SkinAssumption

\* Positions and nodes of typed states are integers, the skin a natural number.
LEMMA TypedNumbers ==
  ASSUME TypeOK
  PROVE  /\ \A p \in Particle : pos[p] \in Int /\ node[p] \in Int
         /\ skin \in Nat /\ drift \in Nat
<1>1. pos \in [Particle -> Range] /\ node \in [Particle -> Int] /\ drift \in Nat
      /\ skin \in Skins
  BY DEF TypeOK
<1>2. Skins \subseteq Nat
  BY SkinAssumption
<1> QED
  BY <1>1, <1>2, Lengths

-----------------------------------------------------------------------------
(* Nodes and cells.                                                        *)

\* decompose() finds an inner cell of the node whose domain the position is
\* in, and nodes and cells together number the line from left to right.
LEMMA HomeFacts ==
  ASSUME NEW x \in Int, NEW k \in Nat \ {0}
  PROVE  /\ HomeNode(x) \in Int
         /\ HomeNode(x) * NodeSize <= x
         /\ x <= (HomeNode(x) + 1) * NodeSize
         /\ HomeCell(x, k) \in 0 .. k - 1
         /\ HomeNode(x) * k + HomeCell(x, k) = (x * k) \div NodeSize
<1> DEFINE N == NodeSize
           q == HomeNode(x)
           r == x - q * N
           c == HomeCell(x, k)
<1>1. N \in Nat \ {0}
  BY SkinAssumption
<1>2. q \in Int /\ N * q <= x /\ x < N * q + N
  BY <1>1, DivBounds DEF HomeNode
<1>3. r \in Int /\ 0 <= r /\ r <= N - 1
  BY <1>1, <1>2, SMT
<1>4. r * k \in Int /\ 0 <= r * k /\ r * k <= (N - 1) * k
  BY <1>1, <1>3, SMT
<1>5. c \in Int /\ N * c <= r * k /\ r * k < N * c + N
  <2>1. c = (r * k) \div N
    BY DEF HomeCell
  <2> QED
    BY <1>1, <1>4, <2>1, DivBounds
<1>6. 0 <= c
  BY <1>1, <1>4, <1>5, SMT
<1>7. c <= k - 1
  <2>1. N * c < N * k
    BY <1>1, <1>4, <1>5, SMT
  <2> QED
    BY <1>1, <1>5, <2>1, SMT
<1>8. q * k + c = (x * k) \div N
  <2>1. x * k \in Int /\ q * k + c \in Int
    BY <1>2, <1>5
  <2>2. x * k = N * (q * k) + r * k
    <3>1. x = q * N + r
      BY <1>1, <1>2, <1>3, SMT
    <3> QED
      BY <1>1, <1>2, <1>3, <3>1, SMT
  <2>3. N * (q * k + c) = N * (q * k) + N * c
    BY <1>1, <1>2, <1>5, SMT
  <2>4. N * (q * k + c) <= x * k /\ x * k < N * (q * k + c) + N
    BY <1>1, <1>2, <1>4, <1>5, <2>1, <2>2, <2>3, SMT
  <2> QED
    BY <1>1, <2>1, <2>4, DivUnique
<1>9. N * q = q * N /\ (q + 1) * N = N * q + N
  BY <1>1, <1>2, SMT
<1> HIDE DEF q, c, N
<1>10. q * N <= x /\ x <= (q + 1) * N
  BY <1>1, <1>2, <1>9, SMT
<1>11. c \in 0 .. k - 1
  BY <1>5, <1>6, <1>7
<1> QED
  BY <1>2, <1>8, <1>10, <1>11 DEF q, c, N

\* cellAdjust() puts a particle into an inner cell, wherever it is.
LEMMA ClippedRange ==
  ASSUME NEW x \in Int, NEW n \in Int, NEW k \in Nat \ {0}
  PROVE  Clipped(x, n, k) \in 0 .. k - 1
<1> DEFINE i == ((x - n * NodeSize) * k) \div NodeSize
<1>1. i \in Int
  BY SkinAssumption, DivBounds
<1> HIDE DEF i
<1> QED
  BY <1>1 DEF Clipped, i

\* cellAdjust() never makes a grid without cells, nor one of narrow cells.
LEMMA CellsForFacts ==
  ASSUME NEW s \in Skins
  PROVE  /\ CellsFor(s) \in Nat \ {0}
         /\ CellsFor(s) * (Cutoff + s) <= NodeSize
<1>1. Cutoff + s \in Nat \ {0} /\ NodeSize \in Nat /\ Cutoff + s <= NodeSize
  BY SkinAssumption
<1> DEFINE w == Cutoff + s
           k == CellsFor(s)
<1>3. w \in Nat \ {0} /\ w <= NodeSize /\ NodeSize \in Int
  BY <1>1
<1>2. k \in Int /\ w * k <= NodeSize /\ NodeSize < w * k + w
  <2>1. k = NodeSize \div w
    BY DEF CellsFor
  <2> HIDE DEF w, k
  <2> QED
    BY <1>3, <2>1, DivBounds
<1> HIDE DEF w, k
<1>4. k > 0
  BY <1>1, <1>2, <1>3, SMT
<1> QED
  BY <1>1, <1>2, <1>3, <1>4, SMT DEF w, k

\* If the cells are wide enough, two positions no farther apart than cutoff
\* plus skin are in the same or in neighbouring cells.
LEMMA NearIsAdjacent ==
  ASSUME NEW x \in Int, NEW y \in Int, NEW k \in Nat \ {0}, NEW w \in Nat,
         k * w <= NodeSize, x - y <= w, y - x <= w
  PROVE  Abs((HomeNode(x) * k + HomeCell(x, k)) - (HomeNode(y) * k + HomeCell(y, k))) <= 1
<1>1. NodeSize \in Nat \ {0}
  BY SkinAssumption
<1>2. x * k \in Int /\ y * k \in Int
  OBVIOUS
<1>3. x * k - y * k = k * (x - y) /\ y * k - x * k = k * (y - x)
  BY SMT
<1>4. k * (x - y) <= k * w /\ k * (y - x) <= k * w
  BY SMT
<1>5. x * k - y * k <= NodeSize /\ y * k - x * k <= NodeSize
  BY <1>1, <1>2, <1>3, <1>4, SMT
<1> QED
  BY <1>1, <1>2, <1>5, HomeFacts, DivStep

-----------------------------------------------------------------------------
(* The inductive invariant.                                                *)

\* What the list still covers shrinks by twice the drift.
Covers == clean # {} /\ Wide =>
            \A p, q \in Particle :
              p # q /\ Dist(pos, p, q) + 2 * drift <= Cutoff + skin => <<p, q>> \in list

\* No particle has left the domain it is stored in by more than the drift.
Near == clean # {} =>
          \A p \in Particle : /\ node[p] * NodeSize <= pos[p] + drift
                              /\ pos[p] <= (node[p] + 1) * NodeSize + drift

\* An integrator that may run has counted at least the drift.
Counted == /\ \A i \in clean : drift <= maxDist[i]
           /\ clean # {} => 2 * drift <= skin

Running == pc # "script" => clean = {running} /\ Wide

IInv == TypeOK /\ Covers /\ Near /\ Counted /\ Running

\* What decompose() establishes, with the particles at x.
LEMMA ResortFacts ==
  ASSUME TypeOK, NEW x \in [Particle -> Range], Resort(x), cells' = cells, skin' = skin,
         clean' \subseteq Integrator, maxDist' \in [Integrator -> Nat]
  PROVE  /\ node' \in [Particle -> Int] /\ cell' \in [Particle -> 0 .. cells' - 1]
         /\ list' \subseteq Particle \X Particle
         /\ pos' \in [Particle -> Range] /\ drift' \in Nat
         /\ Covers' /\ Near' /\ Counted'
<1> USE SkinAssumption
<1>1. cells \in Nat \ {0} /\ skin \in Nat /\ \A p \in Particle : x[p] \in Int
  BY DEF TypeOK
<1>2. /\ pos' = x /\ drift' = 0
      /\ node' = [p \in Particle |-> HomeNode(x[p])]
      /\ cell' = [p \in Particle |-> HomeCell(x[p], cells)]
      /\ list' = Rebuilt(x, node', cell', cells, skin)
  BY DEF Resort
<1>3. \A p \in Particle : /\ HomeNode(x[p]) \in Int
                           /\ HomeNode(x[p]) * NodeSize <= x[p]
                           /\ x[p] <= (HomeNode(x[p]) + 1) * NodeSize
                           /\ HomeCell(x[p], cells) \in 0 .. cells - 1
  BY <1>1, HomeFacts
<1>4. node' \in [Particle -> Int] /\ cell' \in [Particle -> 0 .. cells' - 1]
  BY <1>2, <1>3
<1>5. list' \subseteq Particle \X Particle
  BY <1>2 DEF Rebuilt
<1>6. Near'
  BY <1>1, <1>2, <1>3 DEF Near
<1>7. Counted'
  BY <1>1, <1>2 DEF Counted
<1>8. Covers'
  <2> SUFFICES ASSUME Wide', NEW p \in Particle, NEW q \in Particle, p # q,
                      Dist(x, p, q) <= Cutoff + skin
               PROVE  <<p, q>> \in list'
    BY <1>1, <1>2 DEF Covers, Dist, Abs
  <2>1. cells * (Cutoff + skin) <= NodeSize
    BY DEF Wide
  <2>2. x[p] - x[q] <= Cutoff + skin /\ x[q] - x[p] <= Cutoff + skin
    BY <1>1 DEF Dist, Abs
  <2>3. Cutoff + skin \in Nat
    BY <1>1
  <2>4. Abs((HomeNode(x[p]) * cells + HomeCell(x[p], cells))
              - (HomeNode(x[q]) * cells + HomeCell(x[q], cells))) <= 1
    BY <1>1, <2>1, <2>2, <2>3, NearIsAdjacent
  <2>5. Adjacent(node', cell', cells, p, q)
    BY <1>2, <2>4 DEF Adjacent
  <2> QED
    BY <1>2, <2>5 DEF Rebuilt
<1> QED
  BY <1>2, <1>4, <1>5, <1>6, <1>7, <1>8

\* The invariant holds at the start: every integrator still has to resort.
LEMMA InitIInv == Init => IInv
<1> SUFFICES ASSUME Init PROVE IInv
  OBVIOUS
<1> USE SkinAssumption
<1>1. \A p \in Particle : /\ HomeNode(pos[p]) \in Int
                           /\ HomeCell(pos[p], InitCells) \in 0 .. InitCells - 1
  BY HomeFacts DEF Init
<1>2. TypeOK
  BY <1>1 DEF Init, TypeOK
<1> QED
  BY <1>2 DEF Init, IInv, Covers, Near, Counted, Running

\* The start of a run keeps the invariant if the script is careful.
LEMMA RunBeginIInv ==
  ASSUME Careful, IInv, NEW i \in Integrator, RunBegin(i)
  PROVE  IInv'
<1> USE DEF IInv
<1>1. Wide /\ Wide'
  BY DEF RunBegin, Wide
<1>2. CASE resortFlag[i]
  <2>1. /\ Resort(pos) /\ cells' = cells /\ skin' = skin /\ clean' = {i} /\ running' = i
        /\ maxDist' = [maxDist EXCEPT ![i] = 0] /\ pc' = "forces"
        /\ resortFlag' = [resortFlag EXCEPT ![i] = FALSE]
    BY <1>2 DEF RunBegin
  <2>2. maxDist' \in [Integrator -> Nat] /\ resortFlag' \in [Integrator -> BOOLEAN]
    BY <2>1 DEF TypeOK
  <2>3. pos \in [Particle -> Range]
    BY DEF TypeOK
  <2>4. /\ node' \in [Particle -> Int] /\ cell' \in [Particle -> 0 .. cells' - 1]
        /\ list' \subseteq Particle \X Particle
        /\ pos' \in [Particle -> Range] /\ drift' \in Nat
        /\ Covers' /\ Near' /\ Counted'
    BY <2>1, <2>2, <2>3, ResortFacts
  <2>5. TypeOK'
    BY <2>1, <2>2, <2>4 DEF TypeOK
  <2> QED
    BY <1>1, <2>1, <2>4, <2>5 DEF Running
<1>3. CASE ~resortFlag[i]
  <2>1. /\ i \in clean /\ clean' = {i} /\ running' = i /\ pc' = "forces"
        /\ UNCHANGED <<pos, node, cell, cells, skin, list, drift, maxDist, resortFlag>>
    BY <1>3 DEF RunBegin
  <2>2. TypeOK'
    BY <2>1 DEF TypeOK
  <2>3. Covers' /\ Near' /\ Counted'
    BY <1>1, <2>1 DEF Covers, Near, Counted, Dist
  <2> QED
    BY <1>1, <2>1, <2>2, <2>3 DEF Running
<1> QED
  BY <1>2, <1>3

\* A step keeps it: the list covers the step, or the particles are resorted.
LEMMA StepIInv ==
  ASSUME IInv, NEW d \in [Particle -> -MaxMove .. MaxMove], NEW m \in 0 .. MaxMove, Step(d, m)
  PROVE  IInv'
<1> USE DEF IInv
<1> DEFINE x == Moved(d)
<1>1. x \in [Particle -> Range]
  BY SkinAssumption DEF Step, Moved, TypeOK
<1>2. /\ clean = {running} /\ Wide /\ Wide' /\ running \in Integrator
      /\ UNCHANGED <<cells, skin, resortFlag, running, clean>> /\ pc' = "forces"
  BY DEF Step, Running, Wide, TypeOK
<1>3. CASE 2 * (maxDist[running] + m) > skin
  <2>1. Resort(x) /\ maxDist' = [maxDist EXCEPT ![running] = 0]
    BY <1>3 DEF Step
  <2>2. maxDist' \in [Integrator -> Nat]
    BY <2>1 DEF TypeOK
  <2>3. /\ node' \in [Particle -> Int] /\ cell' \in [Particle -> 0 .. cells' - 1]
        /\ list' \subseteq Particle \X Particle
        /\ pos' \in [Particle -> Range] /\ drift' \in Nat
        /\ Covers' /\ Near' /\ Counted'
    <3>1. clean' \subseteq Integrator
      BY <1>2
    <3> HIDE DEF x
    <3> QED
      BY <1>1, <1>2, <2>1, <2>2, <3>1, ResortFacts
  <2>4. TypeOK'
    BY <1>2, <2>2, <2>3 DEF TypeOK
  <2> QED
    BY <1>2, <2>3, <2>4 DEF Running
<1>4. CASE ~(2 * (maxDist[running] + m) > skin)
  <2>1. /\ pos' = x /\ maxDist' = [maxDist EXCEPT ![running] = @ + m] /\ drift' = drift + m
        /\ UNCHANGED <<node, cell, list>>
    BY <1>4 DEF Step
  <2>2. m \in Nat /\ drift \in Nat /\ skin \in Nat /\ maxDist \in [Integrator -> Nat]
        /\ drift <= maxDist[running] /\ Cutoff \in Nat /\ NodeSize \in Nat
    BY <1>2, SkinAssumption DEF TypeOK, Counted
  <2>3. TypeOK'
    BY <1>1, <1>2, <2>1, <2>2 DEF TypeOK
  <2>4. \A p \in Particle : /\ pos[p] \in Int /\ d[p] \in Int /\ x[p] = pos[p] + d[p]
                             /\ d[p] <= m /\ -d[p] <= m
    <3> TAKE p \in Particle
    <3>1. pos[p] \in Int /\ d[p] \in Int
      <4>1. pos[p] \in Int
        BY TypedNumbers
      <4>2. d[p] \in -MaxMove .. MaxMove
        OBVIOUS
      <4> QED
        BY <4>1, <4>2, Lengths
    <3>2. Abs(d[p]) <= m
      BY DEF Step, IsLargest
    <3> QED
      BY <2>2, <3>1, <3>2 DEF Moved, Abs
  <2> HIDE DEF x
  <2>5. Counted'
    BY <1>2, <1>4, <2>1, <2>2 DEF Counted
  <2>6. Covers'
    <3> SUFFICES ASSUME NEW p \in Particle, NEW q \in Particle, p # q,
                        Dist(x, p, q) + 2 * (drift + m) <= Cutoff + skin
                 PROVE  <<p, q>> \in list
      BY <1>2, <2>1 DEF Covers, Dist
    <3>1. Dist(pos, p, q) + 2 * drift <= Cutoff + skin
      BY <2>2, <2>4 DEF Dist, Abs
    <3> QED
      BY <1>2, <3>1 DEF Covers
  <2>7. Near'
    <3> SUFFICES ASSUME NEW p \in Particle
                 PROVE  /\ node[p] * NodeSize <= x[p] + (drift + m)
                        /\ x[p] <= (node[p] + 1) * NodeSize + (drift + m)
      BY <1>2, <2>1 DEF Near
    <3>1. /\ node[p] * NodeSize <= pos[p] + drift
          /\ pos[p] <= (node[p] + 1) * NodeSize + drift
      BY <1>2 DEF Near
    <3>2. node[p] \in Int /\ node[p] * NodeSize \in Int /\ (node[p] + 1) * NodeSize \in Int
      BY <2>2 DEF TypeOK
    <3> QED
      BY <2>2, <2>4, <3>1, <3>2
  <2> QED
    BY <1>2, <2>3, <2>5, <2>6, <2>7 DEF Running
<1> QED
  BY <1>3, <1>4

\* A call of storage.decompose() keeps it, and makes every integrator safe.
LEMMA DecomposeIInv ==
  ASSUME IInv, Decompose
  PROVE  IInv'
<1> USE DEF IInv
<1>1. /\ Resort(pos) /\ clean' = Integrator /\ pc = "script"
      /\ UNCHANGED <<cells, skin, maxDist, resortFlag, pc, running>>
  BY DEF Decompose
<1>2. pos \in [Particle -> Range] /\ maxDist' \in [Integrator -> Nat]
  BY <1>1 DEF TypeOK
<1>3. /\ node' \in [Particle -> Int] /\ cell' \in [Particle -> 0 .. cells' - 1]
      /\ list' \subseteq Particle \X Particle
      /\ pos' \in [Particle -> Range] /\ drift' \in Nat
      /\ Covers' /\ Near' /\ Counted'
  BY <1>1, <1>2, ResortFacts
<1>4. TypeOK'
  BY <1>1, <1>2, <1>3 DEF TypeOK
<1> QED
  BY <1>1, <1>3, <1>4 DEF Running

\* After the other operations of a script no integrator may run.
LEMMA ScriptIInv ==
  ASSUME IInv,
         \/ CellAdjust
         \/ \E s \in Skins : SetSkin(s) \/ TuneSkin(s)
         \/ \E p \in Particle, x \in Range : ModifyParticle(p, x)
  PROVE  IInv'
<1> USE DEF IInv
<1>1. clean' = {} /\ pc' = "script"
  BY DEF CellAdjust, SetSkin, TuneSkin, ModifyParticle
<1>2. ASSUME NEW s \in Skins, Adjust(s), UNCHANGED <<pos, node>>
      PROVE  /\ cells' \in Nat \ {0} /\ cell' \in [Particle -> 0 .. cells' - 1]
             /\ list' \subseteq Particle \X Particle
  <2>1. cells' \in Nat \ {0}
    BY <1>2, CellsForFacts DEF Adjust
  <2>2. \A p \in Particle : Clipped(pos[p], node[p], cells') \in 0 .. cells' - 1
    BY <2>1, ClippedRange, SkinAssumption DEF TypeOK
  <2> QED
    BY <1>2, <2>1, <2>2 DEF Adjust, Rebuilt
<1>3. TypeOK'
  <2>1. CASE CellAdjust
    BY <1>2, <2>1 DEF CellAdjust, TypeOK
  <2>2. ASSUME NEW s \in Skins, SetSkin(s) PROVE TypeOK'
    <3>1. CASE Adjust(s)
      BY <1>2, <2>2, <3>1 DEF SetSkin, TypeOK
    <3>2. CASE UNCHANGED <<cells, cell, list>>
      BY <2>2, <3>2 DEF SetSkin, TypeOK
    <3> QED
      BY <2>2, <3>1, <3>2 DEF SetSkin
  <2>3. ASSUME NEW s \in Skins, TuneSkin(s) PROVE TypeOK'
    BY <1>2, <2>3 DEF TuneSkin, TypeOK
  <2>4. ASSUME NEW p \in Particle, NEW x \in Range, ModifyParticle(p, x) PROVE TypeOK'
    BY <2>4 DEF ModifyParticle, TypeOK
  <2> QED
    BY <2>1, <2>2, <2>3, <2>4
<1> QED
  BY <1>1, <1>3 DEF Covers, Near, Counted, Running

\* Careful scripts keep the invariant, for any particles, moves, skins and
\* integrators.
THEOREM Invariance == ASSUME Careful PROVE Spec => []IInv
<1>1. IInv /\ [Next]_vars => IInv'
  <2> SUFFICES ASSUME IInv, [Next]_vars PROVE IInv'
    OBVIOUS
  <2>1. CASE \E i \in Integrator : RunBegin(i)
    BY <2>1, RunBeginIInv
  <2>2. CASE CalcForces \/ RunEnd
    BY <2>2 DEF CalcForces, RunEnd, IInv, TypeOK, Covers, Near, Counted, Running, Wide, Dist
  <2>3. CASE \E d \in [Particle -> -MaxMove .. MaxMove], m \in 0 .. MaxMove : Step(d, m)
    BY <2>3, StepIInv
  <2>4. CASE Decompose
    BY <2>4, DecomposeIInv
  <2>5. CASE \/ CellAdjust
             \/ \E s \in Skins : SetSkin(s) \/ TuneSkin(s)
             \/ \E p \in Particle, x \in Range : ModifyParticle(p, x)
    BY <2>5, ScriptIInv
  <2>6. CASE UNCHANGED vars
    BY <2>6 DEF vars, IInv, TypeOK, Covers, Near, Counted, Running, Wide, Dist
  <2> QED
    BY <2>1, <2>2, <2>3, <2>4, <2>5, <2>6 DEF Next
<1> QED
  BY <1>1, InitIInv, PTL DEF Spec

\* The type invariant, for careful scripts.
THEOREM Typing == ASSUME Careful PROVE Spec => []TypeOK
<1>1. IInv => TypeOK
  BY DEF IInv
<1> QED
  BY <1>1, Invariance, PTL

\* The resort rule of the integrators is right: if scripts resort after what
\* the integrator cannot see, forces are always computed from a list that
\* has every pair within the cutoff.
THEOREM ListComplete == ASSUME Careful PROVE Spec => []ForcesSeeAllPairs
<1>1. IInv => ForcesSeeAllPairs
  <2> SUFFICES ASSUME IInv, pc = "forces", NEW p \in Particle, NEW q \in Particle,
                      p # q, Dist(pos, p, q) <= Cutoff
               PROVE  <<p, q>> \in list
    BY DEF ForcesSeeAllPairs
  <2>1. clean # {} /\ Wide /\ 2 * drift <= skin /\ drift \in Nat /\ skin \in Nat
    BY SkinAssumption DEF IInv, Running, Counted, TypeOK
  <2>2. pos[p] \in Int /\ pos[q] \in Int /\ Cutoff \in Nat
    BY SkinAssumption DEF IInv, TypeOK
  <2>3. Dist(pos, p, q) + 2 * drift <= Cutoff + skin
    BY <2>1, <2>2 DEF Dist, Abs
  <2> QED
    BY <2>1, <2>3 DEF IInv, Covers
<1> QED
  BY <1>1, Invariance, PTL

\* Under the same condition ghosts and cells stay good enough: nobody is
\* farther than half the skin outside the domain of its node.
THEOREM DomainsHold == ASSUME Careful PROVE Spec => []StaysClose
<1>1. IInv => StaysClose
  <2> SUFFICES ASSUME IInv, pc = "forces", NEW p \in Particle
               PROVE  /\ 2 * (node[p] * NodeSize - pos[p]) <= skin
                      /\ 2 * (pos[p] - (node[p] + 1) * NodeSize) <= skin
    BY DEF StaysClose
  <2>1. clean # {} /\ 2 * drift <= skin /\ drift \in Nat /\ skin \in Nat
    BY SkinAssumption DEF IInv, Running, Counted, TypeOK
  <2>2. pos[p] \in Int /\ node[p] * NodeSize \in Int /\ (node[p] + 1) * NodeSize \in Int
    <3>1. TypeOK
      BY DEF IInv
    <3>2. pos[p] \in Int /\ node[p] \in Int
      BY <3>1, TypedNumbers
    <3> QED
      BY <3>2, Lengths
  <2>3. /\ node[p] * NodeSize <= pos[p] + drift
        /\ pos[p] <= (node[p] + 1) * NodeSize + drift
    BY <2>1 DEF IInv, Near
  <2> QED
    BY <2>1, <2>2, <2>3
<1> QED
  BY <1>1, Invariance, PTL
=============================================================================
