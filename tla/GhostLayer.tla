----------------------------- MODULE GhostLayer -----------------------------
(***************************************************************************)
(* The ghost layer of the domain decomposition.                            *)
(*                                                                         *)
(* Around its inner cells a node keeps a frame of ghost cells with copies  *)
(* of the particles of neighbouring nodes, shifted by the box where the    *)
(* copy lies across the periodic border.  Six exchanges, one per direction *)
(* of x, y and z, fill it; what arrived in x travels on in y and z, so a   *)
(* corner is reached over three nodes although nodes only talk to their    *)
(* six neighbours.  updateGhosts() repeats them for the positions alone,   *)
(* collectGhostForces() runs them backwards and adds up the forces.        *)
(*                                                                         *)
(* NeighborExchange shows that messages reach the exchange they are meant  *)
(* for, DomainDecomposition that decompose() brings particles home; here   *)
(* messages carry the exchange they belong to, and Decompose is one step.  *)
(* The force of a copy is the sequence of the places it was computed at.   *)
(***************************************************************************)
EXTENDS CellGrid, SequencesExt

CONSTANTS Particle,
          Start,       \* positions particles may start at
          Moves,       \* displacements of a step
          Slack        \* how far a particle may leave its cell unsorted

ASSUME GhostAssumption == /\ IsFiniteSet(Particle)
                          /\ Start \subseteq [Coord -> Int]
                          /\ Moves \subseteq [Coord -> Int]
                          /\ Slack \in Nat

-----------------------------------------------------------------------------
(* Cells and the communication pattern.                                    *)

FrameGridSize(c) == CellGridSize[c] + 2 * Frame
Inner(c) == Frame .. Frame + CellGridSize[c] - 1
Full(c)  == 0 .. FrameGridSize(c) - 1

\* the cells whose positions along the three coordinates are in X, Y and Z
Box(X, Y, Z) == {[c \in Coord |-> IF c = 0 THEN x ELSE IF c = 1 THEN y ELSE z] :
                   x \in X, y \in Y, z \in Z}

Cell      == Box(Full(0), Full(1), Full(2))
RealCell  == Box(Inner(0), Inner(1), Inner(2))
GhostCell == Cell \ RealCell

\* prepareGhostCommunication: cells whose coordinate c is in range; the frame
\* belongs to it for the coordinates done before c
Slab(c, range) ==
  LET R(d) == IF d = c THEN range ELSE IF d < c THEN Full(d) ELSE Inner(d)
  IN  Box(R(0), R(1), R(2))

\* commCells[dir].reals and commCells[dir].ghosts
Reals(c, dir) ==
  Slab(c, IF dir = Left THEN Frame .. Frame + Frame - 1
                        ELSE CellGridSize[c] .. CellGridSize[c] + Frame - 1)
Ghosts(c, dir) ==
  Slab(c, IF dir = Left THEN Frame + CellGridSize[c] .. FrameGridSize(c) - 1
                        ELSE 0 .. Frame - 1)

\* the cell among the reals that has the place of g among the ghosts: both
\* are filled in the same order
Source(c, dir, g) == [g EXCEPT ![c] = IF dir = Left THEN @ - CellGridSize[c]
                                                    ELSE @ + CellGridSize[c]]
Target(c, dir, x) == [x EXCEPT ![c] = IF dir = Left THEN @ + CellGridSize[c]
                                                    ELSE @ - CellGridSize[c]]

\* fillCells: the order in which the cells of a slab are filled and read
Rank(x) == (x[0] * FrameGridSize(1) + x[1]) * FrameGridSize(2) + x[2]

-----------------------------------------------------------------------------
(* What every node does between two moves of the particles.                *)

Forward(i) == i

\* variant: the coordinates are not inverted for the forces
BackwardNot(i) == i

\* the corner forces have to be collected via several nodes
Backward(i) == 2 - i

AtUpdate  == 7
AtCalc    == 13
AtEnd     == 20

\* exchange i of a sweep: the directions of a coordinate follow each other
Exchange(op, coord, i) == [op |-> op, coord |-> coord, dir |-> i % 2]

Program ==
  [k \in 1 .. AtEnd - 1 |->
     CASE k < AtUpdate  -> Exchange("exchange", Forward((k - 1) \div 2), k - 1)
       [] k \in AtUpdate .. AtCalc - 1
                        -> Exchange("update", Forward((k - AtUpdate) \div 2), k - AtUpdate)
       [] k = AtCalc    -> [op |-> "calc", coord |-> 0, dir |-> Left]
       [] k > AtCalc    -> Exchange("collect", Backward((k - AtCalc - 1) \div 2), k - AtCalc - 1)]

VARIABLES cells,     \* the particles in each cell of each node, in order
          index,     \* localParticles: the copy a node finds for an id
          at,        \* the phase of Program a node is in
          packed,    \* the buffer of the phase is on its way
          net,       \* buffers sent and not yet received
          touched    \* history: the script has added or removed a particle
                     \* since the last decompose()

vars == <<cells, index, at, packed, net, touched>>

Ids(s) == {s[i].id : i \in DOMAIN s}
ById(s, id) == CHOOSE i \in DOMAIN s : s[i].id = id

\* the particles of the system: those that are real somewhere
Present == {p \in Particle : \E n \in Node, x \in RealCell : p \in Ids(cells[n][x])}

\* Every particle is real in one place, the index leads to cells that
\* hold the id, and buffers belong to exchanges of the program.
TypeOK ==
  /\ touched \in BOOLEAN
  /\ \A n \in Node : /\ at[n] \in 1 .. AtEnd /\ packed[n] \in BOOLEAN
                     /\ DOMAIN index[n] \subseteq Particle
                     /\ \A p \in DOMAIN index[n] : index[n][p] \in Cell
  /\ \A p \in Present : \E n \in Node, x \in RealCell :
       /\ Cardinality({i \in DOMAIN cells[n][x] : cells[n][x][i].id = p}) = 1
       /\ \A m \in Node, y \in RealCell : p \in Ids(cells[m][y]) => <<m, y>> = <<n, x>>
  /\ \A m \in net : m.dst \in Node /\ m.phase \in 1 .. AtEnd - 1

-----------------------------------------------------------------------------
(* decompose(), up to the exchange of ghosts.                              *)

Folded(pos) == [c \in Coord |-> pos[c] % BoxL(c)]
HomeNode(pos) == [c \in Coord |-> Folded(pos)[c] \div LocalSize(c)]

Copy(p, pos) == [id |-> p, pos |-> pos, f |-> <<>>]

AtHome(n, x, where) ==
  {p \in DOMAIN where : HomeNode(where[p]) = n /\ HomeCell(n, Folded(where[p])) = x}

\* decomposeRealParticles: everybody is folded and real in its home cell; the
\* ghosts of before stay where they are
Sorted(n, x, where) ==
  [i \in 1 .. Cardinality(AtHome(n, x, where)) |->
     LET p == SetToSeq(AtHome(n, x, where))[i] IN Copy(p, Folded(where[p]))]

\* localParticles with the real particles only
RealIndex(n, where) ==
  [p \in {q \in DOMAIN where : HomeNode(where[q]) = n} |-> HomeCell(n, Folded(where[p]))]

\* variant: without invalidateGhosts
KeptIndex(n, where) ==
  LET reals == RealIndex(n, where)
      old   == {p \in DOMAIN index[n] : index[n][p] \in GhostCell}
  IN  [p \in DOMAIN reals \cup old |-> IF p \in DOMAIN reals THEN reals[p] ELSE index[n][p]]

\* invalidateGhosts, and the updates of the index as real particles migrate
SortedIndex(n, where) == RealIndex(n, where)

Init ==
  \E where \in [Particle -> Start] :
    /\ cells = [n \in Node |-> [x \in Cell |-> IF x \in RealCell THEN Sorted(n, x, where) ELSE <<>>]]
    /\ index = [n \in Node |-> RealIndex(n, where)]
    /\ at = [n \in Node |-> 1]
    /\ packed = [n \in Node |-> FALSE]
    /\ net = {}
    /\ touched = FALSE

-----------------------------------------------------------------------------
(* doGhostCommunication.                                                   *)

Now(n)   == Program[at[n]]
Is(n, ops) == at[n] < AtEnd /\ Now(n).op \in ops
Remote(n) == GridSize[Now(n).coord] > 1
ToGhosts(n) == Now(n).op # "collect"

\* variant: the shift of the opposite border
ShiftedWrong(n, c, dir, pos) == [pos EXCEPT ![c] = @ - Boundary(n, c, dir) * BoxL(c)]

\* what the positions of a direction are shifted by
Shifted(n, c, dir, pos) == [pos EXCEPT ![c] = @ + Boundary(n, c, dir) * BoxL(c)]

\* packPositionsEtc and packForces: the buffer of the phase, by the cell of
\* the receiver it is for
Buffer(n) ==
  LET c   == Now(n).coord
      dir == Now(n).dir
  IN  IF ToGhosts(n)
      THEN [g \in Ghosts(c, dir) |->
              LET s == cells[n][Source(c, dir, g)]
              IN  [i \in DOMAIN s |-> [id |-> s[i].id, pos |-> Shifted(n, c, dir, s[i].pos)]]]
      ELSE [x \in Reals(c, dir) |->
              LET s == cells[n][Target(c, dir, x)] IN [i \in DOMAIN s |-> s[i].f]]

\* unpackPositionsEtc with all data: the ghost cell gets the size and the
\* particles of the buffer
Exchanged(s, b) == [i \in DOMAIN b |-> Copy(b[i].id, b[i].pos)]

\* without: the ghosts that are there get the positions of the buffer
Updated(s, b) == [i \in DOMAIN s |-> [s[i] EXCEPT !.pos = b[i].pos]]

\* unpackAndAddForces
Added(s, b) == [i \in DOMAIN s |-> [s[i] EXCEPT !.f = @ \o b[i]]]

Unpacked(n, buf) ==
  [x \in Cell |->
     IF x \notin DOMAIN buf THEN cells[n][x]
     ELSE CASE Now(n).op = "exchange" -> Exchanged(cells[n][x], buf[x])
            [] Now(n).op = "update"   -> Updated(cells[n][x], buf[x])
            [] Now(n).op = "collect"  -> Added(cells[n][x], buf[x])]

\* updateInLocalParticles(weak): an id gets its first ghost only if the node
\* knows no copy of it
Indexed(ix, buf) ==
  LET In(p) == {g \in DOMAIN buf : p \in Ids(buf[g])}
      New == {p \in Particle : p \notin DOMAIN ix /\ In(p) # {}}
  IN  [p \in DOMAIN ix \cup New |->
         IF p \in DOMAIN ix THEN ix[p] ELSE CHOOSE g \in In(p) : \A h \in In(p) : Rank(g) <= Rank(h)]

NextPhase(n) == at' = [at EXCEPT ![n] = @ + 1]

\* a direction with one node: copyRealsToGhosts, addGhostForcesToReals
CopyLocal(n) ==
  /\ Is(n, {"exchange", "update", "collect"}) /\ ~Remote(n)
  /\ cells' = [cells EXCEPT ![n] = Unpacked(n, Buffer(n))]
  /\ NextPhase(n)
  /\ UNCHANGED <<index, packed, net, touched>>

\* the buffer is filled and sent
Pack(n) ==
  /\ Is(n, {"exchange", "update", "collect"}) /\ Remote(n) /\ ~packed[n]
  /\ LET dir == IF ToGhosts(n) THEN Now(n).dir ELSE Opposite(Now(n).dir)
     IN  net' = net \cup {[dst |-> NodeNeighbor(n, Now(n).coord, dir),
                           phase |-> at[n], buf |-> Buffer(n)]}
  /\ packed' = [packed EXCEPT ![n] = TRUE]
  /\ UNCHANGED <<cells, index, at, touched>>

\* the buffer of the neighbour is received and read
Unpack(n) ==
  /\ packed[n]
  /\ \E m \in net :
       /\ m.dst = n /\ m.phase = at[n]
       /\ cells' = [cells EXCEPT ![n] = Unpacked(n, m.buf)]
       /\ index' = [index EXCEPT ![n] = IF Now(n).op = "exchange" THEN Indexed(@, m.buf) ELSE @]
       /\ net' = net \ {m}
  /\ packed' = [packed EXCEPT ![n] = FALSE]
  /\ NextPhase(n)
  /\ UNCHANGED touched

\* initForces and the forces of all pairs: each copy gets its own share
CalcForces(n) ==
  /\ Is(n, {"calc"})
  /\ cells' = [cells EXCEPT ![n] =
       [x \in Cell |-> [i \in DOMAIN @[x] |-> [@[x][i] EXCEPT !.f = <<<<n, x>>>>]]]]
  /\ NextPhase(n)
  /\ UNCHANGED <<index, packed, net, touched>>

-----------------------------------------------------------------------------
(* The next step: nodes meet in the reduction of integrate1.               *)

RealAt(p) == CHOOSE l \in Node \X RealCell : p \in Ids(cells[l[1]][l[2]])
PosOf(p) == LET l == RealAt(p) IN cells[l[1]][l[2]][ById(cells[l[1]][l[2]], p)].pos

\* p moved by v leaves its cell by no more than Slack
Near(p, v) ==
  LET l == RealAt(p)
  IN  \A c \in Coord :
        LET left == MyLeft(l[1], c) + (l[2][c] - Frame) * CellWidth
        IN  PosOf(p)[c] + v[c] \in left - Slack .. left + CellWidth - 1 + Slack

\* no node is in a communication: the script, or integrate1, has the word
AllAtEnd == \A n \in Node : at[n] = AtEnd

\* integrate1 without a resort
Integrate(p, v) ==
  /\ AllAtEnd /\ ~touched
  /\ Near(p, v)
  /\ LET l == RealAt(p)
     IN  cells' = [cells EXCEPT ![l[1]][l[2]][ById(cells[l[1]][l[2]], p)].pos =
                     [c \in Coord |-> @[c] + v[c]]]
  /\ at' = [n \in Node |-> AtUpdate]
  /\ UNCHANGED <<index, packed, net, touched>>

\* decompose() with the particles at the places of where
DecomposeAt(where) ==
  /\ AllAtEnd
  /\ cells' = [n \in Node |-> [x \in Cell |->
                 IF x \in RealCell THEN Sorted(n, x, where) ELSE cells[n][x]]]
  /\ index' = [n \in Node |-> SortedIndex(n, where)]
  /\ at' = [n \in Node |-> 1]
  /\ touched' = FALSE
  /\ UNCHANGED <<packed, net>>

\* integrate1 and decompose()
IntegrateAndResort(p, v) ==
  DecomposeAt([q \in Present |-> IF q = p THEN [c \in Coord |-> PosOf(p)[c] + v[c]] ELSE PosOf(q)])

-----------------------------------------------------------------------------
(* What a script does between two runs.  It calls decompose() before the   *)
(* next run once it has added or removed a particle: run() does not.       *)

Decompose == DecomposeAt([q \in Present |-> PosOf(q)])

\* the index of a node as particles are looked up, set and erased
Forget(ix, p) == [q \in DOMAIN ix \ {p} |-> ix[q]]
Point(ix, p, x) == [q \in DOMAIN ix \cup {p} |-> IF q = p THEN x ELSE ix[q]]

\* addParticle: the owner appends the particle to its cell
AddParticle(p, pos) ==
  /\ AllAtEnd /\ p \notin Present
  /\ LET n == NodeClipped(pos)
         x == CellClipped(n, Folded(pos))
     IN  /\ cells' = [cells EXCEPT ![n][x] = Append(@, Copy(p, Folded(pos)))]
         /\ index' = [index EXCEPT ![n] = Point(@, p, x)]
  /\ touched' = TRUE
  /\ UNCHANGED <<at, packed, net>>

\* mapPositionToCellChecked leads to the cell p is in.  For a particle that
\* has left its cell since the last decompose() removeParticle is undefined:
\* it takes the distance of pointers into two vectors.
InItsCell(p) ==
  LET l == RealAt(p) IN ~Outside(l[1], PosOf(p)) /\ CellClipped(l[1], PosOf(p)) = l[2]

\* the last particle of a cell takes the place of particle i
Refilled(s, i) == SubSeq([s EXCEPT ![i] = s[Len(s)]], 1, Len(s) - 1)

\* removeParticle: the owner takes it out of its cell and its index; ghosts
\* of it stay where they are
RemoveParticle(p) ==
  /\ AllAtEnd /\ p \in Present /\ InItsCell(p)
  /\ LET l == RealAt(p)
         s == cells[l[1]][l[2]]
     IN  /\ cells' = [cells EXCEPT ![l[1]][l[2]] = Refilled(s, ById(s, p))]
         /\ index' = [index EXCEPT ![l[1]] = Forget(@, p)]
  /\ touched' = TRUE
  /\ UNCHANGED <<at, packed, net>>

\* removeAllParticles, on all nodes
RemoveAllParticles ==
  /\ AllAtEnd
  /\ cells' = [n \in Node |-> [x \in Cell |-> <<>>]]
  /\ index' = [n \in Node |-> <<>>]
  /\ touched' = TRUE
  /\ UNCHANGED <<at, packed, net>>

Next ==
  \/ \E n \in Node : CopyLocal(n) \/ Pack(n) \/ Unpack(n) \/ CalcForces(n)
  \/ \E p \in Present, v \in Moves : Integrate(p, v) \/ IntegrateAndResort(p, v)
  \/ Decompose
  \/ \E p \in Particle, pos \in Start : AddParticle(p, pos)
  \/ \E p \in Particle : RemoveParticle(p)
  \/ RemoveAllParticles

Spec == Init /\ [][Next]_vars

-----------------------------------------------------------------------------
(* Properties.                                                             *)

\* position of cell x of node n in the grid of the whole, unrolled system,
\* and the copy of the box that is in
Global(n, x, c) == n[c] * CellGridSize[c] + x[c] - Frame
BoxCopy(n, x, c) == Global(n, x, c) \div (GridSize[c] * CellGridSize[c])

\* the node and the real cell a ghost cell mirrors
MirrorNode(n, x) == [c \in Coord |-> (Global(n, x, c) \div CellGridSize[c]) % GridSize[c]]
MirrorCell(n, x) == [c \in Coord |-> (Global(n, x, c) % CellGridSize[c]) + Frame]

\* When a node computes forces, each of its ghost cells, corners included,
\* holds the particles of the cell it mirrors, at their present positions
\* moved by whole boxes.
GhostsAreImages ==
  \A n \in Node : at[n] = AtCalc => \A g \in GhostCell :
    LET home == cells[MirrorNode(n, g)][MirrorCell(n, g)]
    IN  /\ DOMAIN cells[n][g] = DOMAIN home
        /\ \A i \in DOMAIN home :
             /\ cells[n][g][i].id = home[i].id
             /\ \A c \in Coord :
                  cells[n][g][i].pos[c] = home[i].pos[c] + BoxCopy(n, g, c) * BoxL(c)

\* Places at which node and cell hold a copy of p, of the nodes that have
\* computed their forces: a node far away may still have to exchange its
\* ghosts, and to forget the copies of before.
Places(p) == {l \in Node \X Cell : at[l[1]] > AtCalc /\ p \in Ids(cells[l[1]][l[2]])}

\* When a node has collected the ghost forces, the force of each of its
\* particles has the share of every copy of it, on any node, exactly once, and
\* there is such a copy in every cell that mirrors the cell of the particle.
ForcesComeHome ==
  \A n \in Node : at[n] = AtEnd /\ ~touched => \A x \in RealCell : \A i \in DOMAIN cells[n][x] :
    LET r == cells[n][x][i]
    IN  /\ Len(r.f) = Cardinality(Places(r.id)) /\ {r.f[k] : k \in DOMAIN r.f} = Places(r.id)
        /\ \A m \in Node, y \in Cell :
             MirrorNode(m, y) = n /\ MirrorCell(m, y) = x => <<m, y>> \in Places(r.id)

\* Outside decompose() what a node finds by its id is a copy of that particle,
\* and the real one if the node has that; and unless the script has just added
\* or removed a particle it finds everything it has a copy of.
IndexSound ==
  \A n \in Node : at[n] >= AtUpdate =>
    /\ \A p \in DOMAIN index[n] : p \in Ids(cells[n][index[n][p]])
    /\ \A p \in Particle, x \in Cell : p \in Ids(cells[n][x]) =>
         /\ touched \/ p \in DOMAIN index[n]
         /\ x \in RealCell => p \in DOMAIN index[n] /\ index[n][p] \in RealCell
=============================================================================
