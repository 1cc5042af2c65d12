---------------------- MODULE DomainDecompositionProofs ----------------------
(***************************************************************************)
(* Proofs about DomainDecomposition, for every grid of nodes and cells,    *)
(* every set of particles and any number of operations.                    *)
(***************************************************************************)
EXTENDS DomainDecomposition, FiniteSetTheorems, TLAPS

-----------------------------------------------------------------------------
(* The inductive invariant: where particles are and what is known of them. *)

Traveller == [id : Particle, pos : Position, img : Position]
InnerCell == {k \in Position : \A c \in Coord : k[c] \in Frame .. Frame + CellGridSize[c] - 1}
Resident  == [id : Particle, pos : Position, img : Position, cell : InnerCell]
Message   == [dst : Node, coord : Coord, dir : {Left, Right}, parts : SUBSET Traveller]

Types ==
  /\ store \in [Node -> SUBSET Resident]
  /\ net \subseteq Message
  /\ pc \in [Node -> {"idle", "scan", "recv", "reduce"}]
  /\ coord \in [Node -> Coord]
  /\ finished \in [Node -> BOOLEAN]
  /\ fresh \in BOOLEAN
  /\ unfolded \in [DOMAIN unfolded -> Position] /\ DOMAIN unfolded \subseteq Particle
  /\ ops \in 0 .. MaxOps

\* a particle is in one place, and it is one that exists
OnePlace ==
  /\ \A k, n \in Node : \A r \in store[k], s \in store[n] : r.id = s.id => k = n /\ r = s
  /\ \A l, m \in net : \A r \in l.parts, s \in m.parts : r.id = s.id => l = m /\ r = s
  /\ \A n \in Node, m \in net : \A r \in store[n], s \in m.parts : r.id # s.id

SomePlace ==
  /\ \A n \in Node : \A r \in store[n] : Exists(r.id)
  /\ \A m \in net : \A r \in m.parts : Exists(r.id)
  /\ \A p \in DOMAIN unfolded : \/ \E n \in Node : \E r \in store[n] : r.id = p
                                \/ \E m \in net : \E r \in m.parts : r.id = p

\* position and image of a copy give its true position
AddsUp(r) == \A c \in Coord : r.pos[c] + r.img[c] * BoxL(c) = unfolded[r.id][c]

Accounted ==
  /\ \A n \in Node : \A r \in store[n] : AddsUp(r)
  /\ \A m \in net : \A r \in m.parts : AddsUp(r)

PInv == Types /\ (OnlyNewIds => OnePlace /\ SomePlace /\ Accounted)

-----------------------------------------------------------------------------
(* Lengths.                                                                *)

\* The product of two positive lengths is one.
LEMMA Product ==
  ASSUME NEW a \in Nat, NEW b \in Nat, a > 0, b > 0
  PROVE  a * b \in Nat /\ a * b > 0 /\ a * b >= b
  OBVIOUS

\* Domains and boxes have a positive size.
LEMMA Sizes ==
  ASSUME NEW c \in Coord
  PROVE  /\ GridSize[c] \in Nat /\ GridSize[c] > 0
         /\ CellGridSize[c] \in Nat /\ CellGridSize[c] > 0
         /\ CellWidth \in Nat /\ CellWidth > 0
         /\ LocalSize(c) \in Nat /\ LocalSize(c) > 0
         /\ BoxL(c) \in Nat /\ BoxL(c) > 0
<1>1. /\ GridSize[c] \in Nat /\ GridSize[c] > 0
      /\ CellGridSize[c] \in Nat /\ CellGridSize[c] > 0
      /\ CellWidth \in Nat /\ CellWidth > 0
  BY GridAssumption, CellGridAssumption
<1>2. LocalSize(c) \in Nat /\ LocalSize(c) > 0
  BY <1>1, Product DEF LocalSize
<1>3. BoxL(c) \in Nat /\ BoxL(c) > 0
  BY <1>1, <1>2, Product DEF BoxL
<1> QED
  BY <1>1, <1>2, <1>3

\* A shift by whole boxes is made up for by the image.
LEMMA Shift ==
  ASSUME NEW x \in Int, NEW i \in Int, NEW b \in Int, NEW l \in Int
  PROVE  (x - b * l) + (i + b) * l = x + i * l
  OBVIOUS

\* What foldCoordinate does to one coordinate of a particle.
LEMMA Folding ==
  ASSUME NEW c \in Coord, NEW r, r \in Resident \/ r \in Traveller
  PROVE  /\ Fold(c, r).id = r.id
         /\ \A d \in Coord : Fold(c, r).pos[d] + Fold(c, r).img[d] * BoxL(d)
                               = r.pos[d] + r.img[d] * BoxL(d)
         /\ \A d \in Coord \ {c} : Fold(c, r).pos[d] = r.pos[d]
         /\ Fold(c, r).pos[c] = r.pos[c] - BoxOf(c, r.pos[c]) * BoxL(c)
         /\ BoxOf(c, r.pos[c]) \in Int
         /\ r \in Resident => Fold(c, r) \in Resident /\ Fold(c, r).cell = r.cell
         /\ r \in Traveller => Fold(c, r) \in Traveller
<1> DEFINE b == BoxOf(c, r.pos[c])
           l == BoxL(c)
           f == Fold(c, r)
<1>1. r.pos \in Position /\ r.img \in Position
  BY DEF Resident, Traveller
<1>2. r.pos[c] \in Int /\ r.img[c] \in Int /\ l \in Nat /\ l > 0
  BY <1>1, Sizes DEF Position
<1>3. b \in Int
  BY <1>2 DEF BoxOf
<1> HIDE DEF l, b
<1>4. /\ f.id = r.id
      /\ f.pos = [r.pos EXCEPT ![c] = r.pos[c] - b * l]
      /\ f.img = [r.img EXCEPT ![c] = r.img[c] + b]
      /\ r \in Resident => f.cell = r.cell
  BY DEF Fold, b, l, Resident, Traveller
<1>5. r.pos[c] - b * l \in Int /\ r.img[c] + b \in Int
  BY <1>2, <1>3
<1>6. f.pos \in Position /\ f.img \in Position
  BY <1>1, <1>4, <1>5 DEF Position
<1>7. f.pos[c] = r.pos[c] - b * l /\ f.img[c] = r.img[c] + b
  BY <1>1, <1>4 DEF Position
<1>8. \A d \in Coord \ {c} : f.pos[d] = r.pos[d] /\ f.img[d] = r.img[d]
  BY <1>1, <1>4 DEF Position
<1>9. f.pos[c] + f.img[c] * l = r.pos[c] + r.img[c] * l
  BY <1>2, <1>3, <1>7, Shift
<1>10. r \in Resident => f \in Resident
  <2> SUFFICES ASSUME r \in Resident PROVE f \in Resident
    OBVIOUS
  <2>1. f = [r EXCEPT !.img = f.img, !.pos = f.pos]
    BY <1>4 DEF Fold, Resident, b, l
  <2> QED BY <1>6, <2>1 DEF Resident
<1>11. r \in Traveller => f \in Traveller
  <2> SUFFICES ASSUME r \in Traveller PROVE f \in Traveller
    OBVIOUS
  <2>1. f = [r EXCEPT !.img = f.img, !.pos = f.pos]
    BY <1>4 DEF Fold, Traveller, b, l
  <2> QED BY <1>6, <2>1 DEF Traveller
<1> QED
  BY <1>3, <1>4, <1>7, <1>8, <1>9, <1>10, <1>11 DEF l, b

\* The domain of a node lies where the node is on the grid.
LEMMA Borders ==
  ASSUME NEW n \in Node, NEW c \in Coord
  PROVE  /\ n[c] \in Nat /\ n[c] < GridSize[c]
         /\ MyLeft(n, c) \in Nat /\ MyRight(n, c) = MyLeft(n, c) + LocalSize(c)
<1>1. n[c] \in Nat /\ n[c] < GridSize[c] /\ LocalSize(c) \in Nat
  BY Sizes DEF Node, MaxExtent
<1> QED
  BY <1>1 DEF MyLeft, MyRight

\* A neighbour on the grid is a node.
LEMMA NeighborIsNode ==
  ASSUME NEW n \in Node, NEW c \in Coord, NEW dir
  PROVE  NodeNeighbor(n, c, dir) \in Node
<1>1. n[c] \in Nat /\ n[c] < GridSize[c]
  BY Borders
<1>2. \A d \in Coord : GridSize[d] \in Nat /\ GridSize[d] > 0 /\ GridSize[d] <= MaxExtent /\ MaxExtent \in Nat
  BY Sizes DEF Coord, MaxExtent
<1> DEFINE x == IF dir = Left
                THEN IF n[c] - 1 < 0 THEN n[c] - 1 + GridSize[c] ELSE n[c] - 1
                ELSE IF n[c] + 1 >= GridSize[c] THEN n[c] + 1 - GridSize[c] ELSE n[c] + 1
<1>3. x \in 0 .. MaxExtent /\ x < GridSize[c]
  BY <1>1, <1>2
<1>4. NodeNeighbor(n, c, dir) = [n EXCEPT ![c] = x]
  BY DEF NodeNeighbor
<1> HIDE DEF x
<1> QED
  BY <1>3, <1>4 DEF Node

\* A cast to int gives an integer.
LEMMA TruncateIsInt ==
  ASSUME NEW a \in Int, NEW b \in Nat, b > 0
  PROVE  Truncate(a, b) \in Int
  BY DEF Truncate

\* mapPositionToCellClipped gives an inner cell, wherever the position is.
LEMMA CellIsInner ==
  ASSUME NEW n \in Node, NEW x \in Position
  PROVE  CellClipped(n, x) \in InnerCell
<1>1. ASSUME NEW c \in Coord
      PROVE  Clip(c, RawCell(n, c, x[c])) \in Frame .. Frame + CellGridSize[c] - 1
  <2>1. x[c] - MyLeft(n, c) \in Int /\ CellWidth \in Nat /\ CellWidth > 0
    BY Borders, Sizes DEF Position
  <2>2. RawCell(n, c, x[c]) \in Int
    BY <2>1, TruncateIsInt DEF RawCell, Frame
  <2> QED BY <2>2, Sizes DEF Clip, Frame
<1>2. CellGridSize \in [Coord -> Nat]
  BY CellGridAssumption
<1>3. \A c \in Coord : Clip(c, RawCell(n, c, x[c])) \in Int
  BY <1>1, <1>2 DEF Frame
<1> QED
  BY <1>1, <1>3 DEF CellClipped, InnerCell, Position

\* mapPositionToNodeClipped gives a node, wherever the position is.
LEMMA ClippedIsNode ==
  ASSUME NEW x \in Position
  PROVE  NodeClipped(x) \in Node
<1>1. ASSUME NEW c \in Coord
      PROVE  NodeClipped(x)[c] \in 0 .. MaxExtent /\ NodeClipped(x)[c] < GridSize[c]
  <2> DEFINE i == Truncate(x[c], LocalSize(c))
  <2>1. i \in Int
    BY TruncateIsInt, Sizes DEF Position
  <2>2. GridSize[c] \in Nat /\ GridSize[c] > 0 /\ GridSize[c] <= MaxExtent /\ MaxExtent \in Nat
    BY Sizes DEF Coord, MaxExtent
  <2>3. NodeClipped(x)[c] = IF i < 0 THEN 0 ELSE IF i >= GridSize[c] THEN GridSize[c] - 1 ELSE i
    BY DEF NodeClipped
  <2> HIDE DEF i
  <2> QED BY <2>1, <2>2, <2>3
<1>2. NodeClipped(x) = [c \in Coord |-> NodeClipped(x)[c]]
  BY DEF NodeClipped
<1> QED
  BY <1>1, <1>2 DEF Node

\* Packing, unpacking and sorting leave id, position and image alone.
LEMMA Packing ==
  ASSUME NEW r \in Resident
  PROVE  /\ Strip(r) \in Traveller
         /\ Strip(r).id = r.id /\ Strip(r).pos = r.pos /\ Strip(r).img = r.img
  BY DEF Resident, Traveller, Strip

\* Filing a particle into its cell changes nothing else of it.
LEMMA Placing ==
  ASSUME NEW r, r \in Resident \/ r \in Traveller, NEW n \in Node
  PROVE  /\ Place(r, CellClipped(n, r.pos)) \in Resident
         /\ Place(r, CellClipped(n, r.pos)).id = r.id
         /\ Place(r, CellClipped(n, r.pos)).pos = r.pos
         /\ Place(r, CellClipped(n, r.pos)).img = r.img
         /\ Place(r, CellClipped(n, r.pos)).cell = CellClipped(n, r.pos)
<1>1. r.id \in Particle /\ r.pos \in Position /\ r.img \in Position
  BY DEF Resident, Traveller
<1>2. CellClipped(n, r.pos) \in InnerCell
  BY <1>1, CellIsInner
<1> QED
  BY <1>1, <1>2 DEF Place, Resident

\* Sorting a particle into another cell changes nothing else of it.
LEMMA Sorting ==
  ASSUME NEW r \in Resident, NEW n \in Node
  PROVE  /\ Sorted(n, r) \in Resident
         /\ Sorted(n, r).id = r.id /\ Sorted(n, r).pos = r.pos /\ Sorted(n, r).img = r.img
  BY Placing DEF Sorted

\* what becomes of a particle that comes in on a side
Unpacked(n, c, side, r) ==
  LET f == IF Boundary(n, c, side) # 0 THEN Fold(c, r) ELSE r
  IN  Place(f, CellClipped(n, f.pos))

\* A particle that comes in is folded where it crossed the border of the box,
\* and its position unfolded by its image stays.
LEMMA Unpacking ==
  ASSUME NEW r \in Traveller, NEW n \in Node, NEW c \in Coord, NEW side
  PROVE  /\ Unpacked(n, c, side, r) \in Resident
         /\ Unpacked(n, c, side, r).id = r.id
         /\ \A d \in Coord : Unpacked(n, c, side, r).pos[d] + Unpacked(n, c, side, r).img[d] * BoxL(d)
                               = r.pos[d] + r.img[d] * BoxL(d)
<1> DEFINE f == IF Boundary(n, c, side) # 0 THEN Fold(c, r) ELSE r
<1>1. /\ f \in Traveller /\ f.id = r.id
      /\ \A d \in Coord : f.pos[d] + f.img[d] * BoxL(d) = r.pos[d] + r.img[d] * BoxL(d)
  BY Folding
<1> HIDE DEF f
<1>2. Unpacked(n, c, side, r) = Place(f, CellClipped(n, f.pos))
  BY DEF Unpacked, f
<1> QED
  BY <1>1, <1>2, Placing

-----------------------------------------------------------------------------
(* Steps.                                                                  *)

\* An empty storage satisfies the invariant.
LEMMA InitPInv == Init => PInv
<1> SUFFICES ASSUME Init PROVE PInv
  OBVIOUS
<1>1. 0 \in Coord /\ 0 \in 0 .. MaxOps
  BY OperationAssumption DEF Coord
<1>2. unfolded \in [DOMAIN unfolded -> Position] /\ DOMAIN unfolded = {}
  BY DEF Init
<1>3. Types
  BY <1>1, <1>2 DEF Init, Types
<1>4. OnePlace /\ SomePlace /\ Accounted
  BY <1>2 DEF Init, OnePlace, SomePlace, Accounted
<1> QED
  BY <1>3, <1>4 DEF PInv

\* The particle as Storage::addParticle stores it.
Newcomer(p, x) == Fold(0, Fold(1, Fold(2, [id |-> p, pos |-> x, img |-> [c \in Coord |-> 0]])))

\* addParticle folds the position and keeps the particle on one node.
LEMMA Adding ==
  ASSUME NEW p \in Particle, NEW x \in Position, NEW n \in Node
  PROVE  /\ Added(n, p, x) = IF NodeClipped(x) = n
                             THEN {Place(Newcomer(p, x), CellClipped(n, Newcomer(p, x).pos))} ELSE {}
         /\ Newcomer(p, x) \in Traveller /\ Newcomer(p, x).id = p
         /\ \A c \in Coord : Newcomer(p, x).pos[c] + Newcomer(p, x).img[c] * BoxL(c) = x[c]
<1> DEFINE r0 == [id |-> p, pos |-> x, img |-> [c \in Coord |-> 0]]
           r1 == Fold(2, r0)
           r2 == Fold(1, r1)
           r3 == Fold(0, r2)
<1>1. r0 \in Traveller /\ r0.id = p /\ \A c \in Coord : r0.pos[c] + r0.img[c] * BoxL(c) = x[c]
  <2>1. \A c \in Coord : x[c] \in Int /\ BoxL(c) \in Int
    BY Sizes DEF Position
  <2> QED BY <2>1 DEF Traveller, Position
<1> HIDE DEF r0
<1>2. r1 \in Traveller /\ r1.id = p /\ \A c \in Coord : r1.pos[c] + r1.img[c] * BoxL(c) = x[c]
  BY <1>1, Folding DEF Coord
<1> HIDE DEF r1
<1>3. r2 \in Traveller /\ r2.id = p /\ \A c \in Coord : r2.pos[c] + r2.img[c] * BoxL(c) = x[c]
  BY <1>2, Folding DEF Coord
<1> HIDE DEF r2
<1>4. r3 \in Traveller /\ r3.id = p /\ \A c \in Coord : r3.pos[c] + r3.img[c] * BoxL(c) = x[c]
  BY <1>3, Folding DEF Coord
<1>5. Newcomer(p, x) = r3
  BY DEF Newcomer, r0, r1, r2
<1>6. Added(n, p, x) = IF NodeClipped(x) = n
                       THEN {Place(Newcomer(p, x), CellClipped(n, Newcomer(p, x).pos))} ELSE {}
  BY DEF Added, Newcomer
<1> QED
  BY <1>4, <1>5, <1>6

\* Each particle of a list is added by the one node that its position is
\* clipped to.
LEMMA AddStep ==
  ASSUME PInv, NEW l \in Lists, AddParticles(l)
  PROVE  PInv'
<1>1. /\ ops < MaxOps /\ ops' = ops + 1 /\ fresh' = FALSE
      /\ store' = [n \in Node |-> IF Skips(n, l) THEN store[n]
                     ELSE store[n] \cup UNION {Added(n, p, l[p]) : p \in DOMAIN l}]
      /\ unfolded' = [p \in DOMAIN unfolded \cup DOMAIN l |->
                        IF Exists(p) THEN unfolded[p] ELSE l[p]]
      /\ net' = net /\ pc' = pc /\ coord' = coord /\ finished' = finished
  BY DEF AddParticles
<1>2. /\ DOMAIN l \subseteq Particle /\ (OnlyNewIds => \A p \in DOMAIN l : ~Exists(p))
      /\ \A p \in DOMAIN l : l[p] \in Position
  BY OperationAssumption DEF Lists
<1>3. Types
  BY DEF PInv
<1> DEFINE Place0(p) == Place(Newcomer(p, l[p]), CellClipped(NodeClipped(l[p]), Newcomer(p, l[p]).pos))
<1>4. ASSUME NEW p \in DOMAIN l
      PROVE  /\ NodeClipped(l[p]) \in Node
             /\ \A n \in Node : Added(n, p, l[p]) = IF NodeClipped(l[p]) = n THEN {Place0(p)} ELSE {}
             /\ Place0(p) \in Resident /\ Place0(p).id = p
             /\ \A c \in Coord : Place0(p).pos[c] + Place0(p).img[c] * BoxL(c) = l[p][c]
  <2>1. p \in Particle /\ l[p] \in Position
    BY <1>2
  <2>2. NodeClipped(l[p]) \in Node
    BY <2>1, ClippedIsNode
  <2>3. /\ Newcomer(p, l[p]) \in Traveller /\ Newcomer(p, l[p]).id = p
        /\ \A c \in Coord : Newcomer(p, l[p]).pos[c] + Newcomer(p, l[p]).img[c] * BoxL(c) = l[p][c]
        /\ \A n \in Node : Added(n, p, l[p]) = IF NodeClipped(l[p]) = n
              THEN {Place(Newcomer(p, l[p]), CellClipped(n, Newcomer(p, l[p]).pos))} ELSE {}
    BY <2>1, <2>2, Adding
  <2> QED BY <2>2, <2>3, Placing
<1> HIDE DEF Place0
<1>5. ASSUME NEW n \in Node
      PROVE  UNION {Added(n, p, l[p]) : p \in DOMAIN l} = {Place0(p) : p \in {q \in DOMAIN l : NodeClipped(l[q]) = n}}
  BY <1>4
<1>6. Types'
  <2>1. store' \in [Node -> SUBSET Resident]
    BY <1>1, <1>3, <1>4, <1>5 DEF Types
  <2>2. unfolded' \in [DOMAIN unfolded' -> Position] /\ DOMAIN unfolded' \subseteq Particle
    BY <1>1, <1>2, <1>3 DEF Types, Exists
  <2>3. ops' \in 0 .. MaxOps
    BY <1>1, <1>3, OperationAssumption DEF Types
  <2> QED BY <1>1, <1>3, <2>1, <2>2, <2>3 DEF Types
<1>7. ASSUME OnlyNewIds PROVE OnePlace' /\ SomePlace' /\ Accounted'
  <2>1. OnePlace /\ SomePlace /\ Accounted
    BY <1>7 DEF PInv
  <2>2. \A p \in DOMAIN l : ~Exists(p)
    BY <1>2, <1>7
  <2>3. \A n \in Node : ~Skips(n, l)
    BY <2>1, <2>2 DEF Skips, HasReal, SomePlace
  <2>4. ASSUME NEW n \in Node
        PROVE  store'[n] = store[n] \cup {Place0(p) : p \in {q \in DOMAIN l : NodeClipped(l[q]) = n}}
    BY <1>1, <1>5, <2>3
  <2>5. ASSUME NEW n \in Node, NEW r \in store'[n]
        PROVE  \/ r \in store[n] /\ Exists(r.id)
               \/ r.id \in DOMAIN l /\ r = Place0(r.id) /\ n = NodeClipped(l[r.id])
    <3>1. CASE r \in store[n]
      BY <2>1, <3>1 DEF SomePlace
    <3>2. CASE r \notin store[n]
      <4>1. PICK p \in DOMAIN l : NodeClipped(l[p]) = n /\ r = Place0(p)
        BY <2>4, <3>2
      <4> QED BY <1>4, <4>1
    <3> QED BY <3>1, <3>2
  <2>6. OnePlace'
    <3>1. ASSUME NEW k \in Node, NEW n \in Node, NEW r \in store'[k], NEW s \in store'[n], r.id = s.id
          PROVE  k = n /\ r = s
      <4>1. CASE Exists(r.id)
        BY <2>1, <2>2, <2>5, <3>1, <4>1 DEF OnePlace
      <4>2. CASE ~Exists(r.id)
        BY <2>5, <3>1, <4>2
      <4> QED BY <4>1, <4>2
    <3>2. ASSUME NEW n \in Node, NEW m \in net, NEW r \in store'[n], NEW s \in m.parts PROVE r.id # s.id
      <4>1. Exists(s.id)
        BY <2>1 DEF SomePlace
      <4> QED BY <2>1, <2>2, <2>5, <4>1 DEF OnePlace
    <3>3. \A i, m \in net : \A r \in i.parts, s \in m.parts : r.id = s.id => i = m /\ r = s
      BY <2>1 DEF OnePlace
    <3> QED BY <1>1, <3>1, <3>2, <3>3 DEF OnePlace
  <2>7. DOMAIN unfolded' = DOMAIN unfolded \cup DOMAIN l
    BY <1>1
  <2>8. SomePlace'
    <3>1. ASSUME NEW n \in Node, NEW r \in store'[n] PROVE r.id \in DOMAIN unfolded'
      BY <2>5, <2>7 DEF Exists
    <3>2. ASSUME NEW m \in net, NEW r \in m.parts PROVE r.id \in DOMAIN unfolded'
      BY <2>1, <2>7 DEF SomePlace, Exists
    <3>3. ASSUME NEW p \in DOMAIN unfolded'
          PROVE  \/ \E n \in Node : \E r \in store'[n] : r.id = p
                 \/ \E m \in net : \E r \in m.parts : r.id = p
      <4>1. CASE p \in DOMAIN unfolded
        BY <2>1, <2>4, <4>1 DEF SomePlace
      <4>2. CASE p \in DOMAIN l
        <5>1. Place0(p) \in store'[NodeClipped(l[p])]
          BY <1>4, <2>4, <4>2
        <5> QED BY <1>4, <4>2, <5>1
      <4> QED BY <2>7, <4>1, <4>2
    <3> QED BY <1>1, <3>1, <3>2, <3>3 DEF SomePlace, Exists
  <2>9. Accounted'
    <3>1. \A p \in DOMAIN unfolded : unfolded'[p] = unfolded[p]
      BY <1>1 DEF Exists
    <3>2. \A p \in DOMAIN l : unfolded'[p] = l[p]
      BY <1>1, <2>2
    <3>3. ASSUME NEW n \in Node, NEW r \in store'[n] PROVE AddsUp(r)'
      <4>1. CASE r \in store[n] /\ Exists(r.id)
        BY <2>1, <3>1, <4>1 DEF Accounted, AddsUp, Exists, BoxL, LocalSize
      <4>2. CASE r.id \in DOMAIN l /\ r = Place0(r.id)
        BY <1>4, <3>2, <4>2 DEF AddsUp, BoxL, LocalSize
      <4> QED BY <2>5, <4>1, <4>2
    <3>4. ASSUME NEW m \in net, NEW r \in m.parts PROVE AddsUp(r)'
      BY <2>1, <3>1 DEF Accounted, SomePlace, AddsUp, Exists, BoxL, LocalSize
    <3> QED BY <1>1, <3>3, <3>4 DEF Accounted
  <2> QED BY <2>6, <2>8, <2>9
<1> QED
  BY <1>6, <1>7 DEF PInv

\* Motion and modifyParticle replace one resident of a node by another with
\* the same id.
LEMMA ReplaceStep ==
  ASSUME PInv, NEW n \in Node, NEW r \in store[n], NEW new \in Resident, new.id = r.id,
         Replace(n, r, new)
  PROVE  PInv'
<1>1. /\ ops < MaxOps /\ ops' = ops + 1 /\ fresh' = FALSE
      /\ store' = [store EXCEPT ![n] = (@ \ {r}) \cup {new}]
      /\ unfolded' = [unfolded EXCEPT ![r.id] =
                        [c \in Coord |-> new.pos[c] + new.img[c] * BoxL(c)]]
      /\ net' = net /\ pc' = pc /\ coord' = coord /\ finished' = finished
  BY DEF Replace
<1>2. Types
  BY DEF PInv
<1>3. /\ store'[n] = (store[n] \ {r}) \cup {new}
      /\ \A k \in Node \ {n} : store'[k] = store[k]
  BY <1>1, <1>2 DEF Types
<1> DEFINE x == [c \in Coord |-> new.pos[c] + new.img[c] * BoxL(c)]
<1>4. x \in Position
  <2>1. \A c \in Coord : new.pos[c] \in Int /\ new.img[c] \in Int /\ BoxL(c) \in Int
    BY Sizes DEF Resident, Position
  <2> QED BY <2>1 DEF Position
<1>5. Types'
  <2>1. store' \in [Node -> SUBSET Resident]
    BY <1>1, <1>2 DEF Types
  <2>2. unfolded' \in [DOMAIN unfolded' -> Position] /\ DOMAIN unfolded' \subseteq Particle
    BY <1>1, <1>2, <1>4 DEF Types
  <2>3. ops' \in 0 .. MaxOps
    BY <1>1, <1>2, OperationAssumption DEF Types
  <2> QED BY <1>1, <1>2, <2>1, <2>2, <2>3 DEF Types
<1>6. ASSUME OnlyNewIds PROVE OnePlace' /\ SomePlace' /\ Accounted'
  <2>1. OnePlace /\ SomePlace /\ Accounted
    BY <1>6 DEF PInv
  <2>2. ASSUME NEW k \in Node, NEW s \in store'[k]
        PROVE  \/ s \in store[k] /\ s.id # r.id
               \/ k = n /\ s = new
    BY <1>3, <2>1 DEF OnePlace
  <2>3. OnePlace'
    <3>1. ASSUME NEW j \in Node, NEW k \in Node, NEW q \in store'[j], NEW s \in store'[k], q.id = s.id
          PROVE  j = k /\ q = s
      BY <2>1, <2>2, <3>1 DEF OnePlace
    <3>2. ASSUME NEW k \in Node, NEW m \in net, NEW q \in store'[k], NEW s \in m.parts PROVE q.id # s.id
      BY <2>1, <2>2 DEF OnePlace
    <3>3. \A i, m \in net : \A q \in i.parts, s \in m.parts : q.id = s.id => i = m /\ q = s
      BY <2>1 DEF OnePlace
    <3> QED BY <1>1, <3>1, <3>2, <3>3 DEF OnePlace
  <2>4. DOMAIN unfolded' = DOMAIN unfolded /\ r.id \in DOMAIN unfolded
    BY <1>1, <2>1 DEF SomePlace, Exists
  <2>5. SomePlace'
    <3>1. ASSUME NEW k \in Node, NEW s \in store'[k] PROVE s.id \in DOMAIN unfolded'
      BY <2>1, <2>2, <2>4 DEF SomePlace, Exists
    <3>2. ASSUME NEW m \in net, NEW s \in m.parts PROVE s.id \in DOMAIN unfolded'
      BY <2>1, <2>4 DEF SomePlace, Exists
    <3>3. ASSUME NEW p \in DOMAIN unfolded
          PROVE  \/ \E k \in Node : \E s \in store'[k] : s.id = p
                 \/ \E m \in net : \E s \in m.parts : s.id = p
      <4>1. CASE p = r.id
        BY <1>3, <4>1
      <4>2. CASE p # r.id
        <5>1. CASE \E k \in Node : \E s \in store[k] : s.id = p
          <6>1. PICK k \in Node : \E s \in store[k] : s.id = p
            BY <5>1
          <6>2. PICK s \in store[k] : s.id = p
            BY <6>1
          <6>3. s \in store'[k]
            BY <1>3, <4>2, <6>2
          <6> QED BY <6>2, <6>3
        <5>2. CASE \E m \in net : \E s \in m.parts : s.id = p
          BY <5>2
        <5> QED BY <2>1, <5>1, <5>2 DEF SomePlace
      <4> QED BY <4>1, <4>2
    <3> QED BY <1>1, <2>4, <3>1, <3>2, <3>3 DEF SomePlace, Exists
  <2>6. Accounted'
    <3>1. unfolded'[r.id] = x /\ \A p \in DOMAIN unfolded : p # r.id => unfolded'[p] = unfolded[p]
      BY <1>1, <2>4
    <3>2. ASSUME NEW k \in Node, NEW s \in store'[k] PROVE AddsUp(s)'
      <4>1. CASE s \in store[k] /\ s.id # r.id
        BY <2>1, <3>1, <4>1 DEF Accounted, SomePlace, AddsUp, Exists, BoxL, LocalSize
      <4>2. CASE k = n /\ s = new
        BY <3>1, <4>2 DEF AddsUp, BoxL, LocalSize
      <4> QED BY <2>2, <4>1, <4>2
    <3>3. ASSUME NEW m \in net, NEW s \in m.parts PROVE AddsUp(s)'
      <4>1. s.id # r.id /\ s.id \in DOMAIN unfolded /\ AddsUp(s)
        BY <2>1 DEF Accounted, SomePlace, OnePlace, Exists
      <4> QED BY <3>1, <4>1 DEF AddsUp, BoxL, LocalSize
    <3> QED BY <1>1, <3>2, <3>3 DEF Accounted
  <2> QED BY <2>3, <2>5, <2>6
<1> QED
  BY <1>5, <1>6 DEF PInv

\* What motion and modifyParticle store is a resident again.
LEMMA MoveStep ==
  ASSUME PInv, NEW n \in Node, NEW r \in store[n], NEW x \in MovePositions,
         Integrate(n, r, x) \/ ModifyParticle(n, r, x)
  PROVE  PInv'
<1>1. r \in Resident /\ x \in Position
  BY OperationAssumption DEF PInv, Types
<1> DEFINE moved == [r EXCEPT !.pos = x]
           set   == [r EXCEPT !.pos = x, !.img = [c \in Coord |-> 0]]
<1>2. moved \in Resident /\ moved.id = r.id
  BY <1>1 DEF Resident
<1>3. set \in Resident /\ set.id = r.id
  <2>1. [c \in Coord |-> 0] \in Position
    BY DEF Position
  <2> QED BY <1>1, <2>1 DEF Resident
<1>4. Replace(n, r, moved) \/ Replace(n, r, set)
  BY DEF Integrate, ModifyParticle
<1> HIDE DEF moved, set
<1> QED
  BY <1>2, <1>3, <1>4, ReplaceStep

\* A node sorts or folds its particles and packs some of them: every
\* particle on the node stays, changed by G, or goes into exactly one of the
\* two buffers a and b.
Repacks(n, G, L, R, a, b, Sent) ==
  /\ L \subseteq store[n] /\ R \subseteq store[n] /\ L \cap R = {}
  /\ \A r \in store[n] :
       /\ G[r].id = r.id
       /\ \A c \in Coord : G[r].pos[c] + G[r].img[c] * BoxL(c) = r.pos[c] + r.img[c] * BoxL(c)
  /\ a.parts = {Strip(r) : r \in L} /\ b.parts = {Strip(r) : r \in R}
  /\ Sent \subseteq {a, b} /\ (L # {} => a \in Sent) /\ (R # {} => b \in Sent)
  /\ store' = [store EXCEPT ![n] = {G[r] : r \in store[n] \ (L \cup R)}]
  /\ net' = net \cup Sent /\ unfolded' = unfolded

\* Packing moves a particle, it neither copies nor drops it.
LEMMA Repacked ==
  ASSUME Types, OnePlace, SomePlace, Accounted, NEW n \in Node,
         NEW G, NEW L, NEW R, NEW a, NEW b, NEW Sent, Repacks(n, G, L, R, a, b, Sent)
  PROVE  OnePlace' /\ SomePlace' /\ Accounted'
<1> USE DEF Repacks
<1>0. store \in [Node -> SUBSET Resident]
  BY DEF Types
<1>1. /\ store'[n] = {G[r] : r \in store[n] \ (L \cup R)}
      /\ \A k \in Node \ {n} : store'[k] = store[k]
  BY <1>0
<1>2. \A r \in store[n] : Strip(r).id = r.id /\ Strip(r).pos = r.pos /\ Strip(r).img = r.img
  BY <1>0, Packing
<1>3. ASSUME NEW k \in Node, NEW s \in store'[k]
      PROVE  \E q \in store[k] : /\ q.id = s.id /\ (k = n => q \notin L \cup R /\ s = G[q])
                                 /\ (k # n => s = q)
  BY <1>1
<1>4. ASSUME NEW m \in net', NEW s \in m.parts
      PROVE  \/ m \in net
             \/ \E q \in store[n] : /\ q.id = s.id /\ s = Strip(q)
                                    /\ ((q \in L /\ m = a) \/ (q \in R /\ m = b))
  BY <1>2
<1>5. OnePlace'
  <2>1. ASSUME NEW j \in Node, NEW k \in Node, NEW r \in store'[j], NEW s \in store'[k], r.id = s.id
        PROVE  j = k /\ r = s
    BY <1>3, <2>1 DEF OnePlace
  <2>2. ASSUME NEW l \in net', NEW m \in net', NEW r \in l.parts, NEW s \in m.parts, r.id = s.id
        PROVE  l = m /\ r = s
    <3>1. CASE l \in net /\ m \in net
      BY <2>2, <3>1 DEF OnePlace
    <3>2. CASE l \notin net /\ m \notin net
      BY <1>4, <2>2, <3>2 DEF OnePlace
    <3>3. CASE l \in net /\ m \notin net
      BY <1>4, <2>2, <3>3 DEF OnePlace
    <3>4. CASE l \notin net /\ m \in net
      BY <1>4, <2>2, <3>4 DEF OnePlace
    <3> QED BY <3>1, <3>2, <3>3, <3>4
  <2>3. ASSUME NEW k \in Node, NEW m \in net', NEW r \in store'[k], NEW s \in m.parts
        PROVE  r.id # s.id
    <3>1. PICK q \in store[k] : q.id = r.id /\ (k = n => q \notin L \cup R)
      BY <1>3
    <3>2. CASE m \in net
      BY <3>1, <3>2 DEF OnePlace
    <3>3. CASE m \notin net
      BY <1>4, <3>1, <3>3 DEF OnePlace
    <3> QED BY <3>2, <3>3
  <2> QED BY <2>1, <2>2, <2>3 DEF OnePlace
<1>6. SomePlace'
  <2>1. ASSUME NEW k \in Node, NEW s \in store'[k] PROVE s.id \in DOMAIN unfolded
    BY <1>3 DEF SomePlace, Exists
  <2>2. ASSUME NEW m \in net', NEW s \in m.parts PROVE s.id \in DOMAIN unfolded
    BY <1>4 DEF SomePlace, Exists
  <2>3. ASSUME NEW p \in DOMAIN unfolded
        PROVE  \/ \E k \in Node : \E s \in store'[k] : s.id = p
               \/ \E m \in net' : \E s \in m.parts : s.id = p
    <3>1. CASE \E m \in net : \E s \in m.parts : s.id = p
      BY <3>1
    <3>2. CASE \E k \in Node : \E s \in store[k] : s.id = p
      <4>1. PICK k \in Node : \E s \in store[k] : s.id = p
        BY <3>2
      <4>2. PICK s \in store[k] : s.id = p
        BY <4>1
      <4>3. CASE k # n
        BY <1>1, <4>2, <4>3
      <4>4. CASE k = n /\ s \in L
        BY <1>2, <4>2, <4>4
      <4>5. CASE k = n /\ s \in R
        BY <1>2, <4>2, <4>5
      <4>6. CASE k = n /\ s \notin L \cup R
        <5>1. G[s] \in store'[n] /\ G[s].id = p
          BY <1>1, <4>2, <4>6
        <5> QED BY <5>1
      <4> QED BY <4>3, <4>4, <4>5, <4>6
    <3> QED BY <3>1, <3>2 DEF SomePlace
  <2> QED BY <2>1, <2>2, <2>3 DEF SomePlace, Exists
<1>7. Accounted'
  <2>1. ASSUME NEW k \in Node, NEW s \in store'[k] PROVE AddsUp(s)'
    <3>1. CASE k # n
      BY <1>1, <3>1 DEF Accounted, AddsUp, BoxL, LocalSize
    <3>2. CASE k = n
      <4>1. PICK q \in store[n] : q.id = s.id /\ s = G[q]
        BY <1>3, <3>2
      <4>2. AddsUp(q)
        BY DEF Accounted
      <4> QED BY <4>1, <4>2 DEF AddsUp, BoxL, LocalSize
    <3> QED BY <3>1, <3>2
  <2>2. ASSUME NEW m \in net', NEW s \in m.parts PROVE AddsUp(s)'
    <3>1. CASE m \in net
      BY <3>1 DEF Accounted, AddsUp, BoxL, LocalSize
    <3>2. CASE m \notin net
      <4>1. PICK q \in store[n] : s = Strip(q)
        BY <1>4, <3>2
      <4> QED BY <1>2, <4>1 DEF Accounted, AddsUp, BoxL, LocalSize
    <3> QED BY <3>1, <3>2
  <2> QED BY <2>1, <2>2 DEF Accounted
<1> QED
  BY <1>5, <1>6, <1>7

\* The scan of one coordinate: who leaves goes into one buffer, to the left
\* or to the right, and the last coordinate sorts who stays.
LEMMA ScanStep ==
  ASSUME PInv, NEW n \in Node, Scan(n)
  PROVE  PInv'
<1> DEFINE c == coord[n]
           L == {r \in store[n] : GoesLeft(n, c, r)}
           R == {r \in store[n] : GoesRight(n, c, r)}
           G == [r \in store[n] |-> IF c = 2 THEN Sorted(n, r) ELSE r]
           a == [dst |-> NodeNeighbor(n, c, Left),  coord |-> c, dir |-> Left,
                 parts |-> {Strip(r) : r \in L}]
           b == [dst |-> NodeNeighbor(n, c, Right), coord |-> c, dir |-> Right,
                 parts |-> {Strip(r) : r \in R}]
<1>1. Types /\ c \in Coord
  BY DEF PInv, Types
<1>2. \A r \in store[n] : r \in Resident
  BY <1>1 DEF Types
<1>3. ASSUME NEW r \in store[n]
      PROVE  G[r] \in Resident /\ G[r].id = r.id /\ G[r].pos = r.pos /\ G[r].img = r.img
  BY <1>2, Sorting
<1>4. /\ store' = [store EXCEPT ![n] = {G[r] : r \in store[n] \ (L \cup R)}]
      /\ net' = net \cup {a, b}
      /\ pc' = [pc EXCEPT ![n] = "recv"] /\ coord' = coord
      /\ \E f \in BOOLEAN : finished' = [finished EXCEPT ![n] = f]
      /\ fresh' = fresh /\ unfolded' = unfolded /\ ops' = ops
  <2> DEFINE stay == store[n] \ (L \cup R)
  <2>1. (IF c = 2 THEN {Sorted(n, r) : r \in stay} ELSE stay) = {G[r] : r \in stay}
    OBVIOUS
  <2>2. store' = [store EXCEPT ![n] = IF c = 2 THEN {Sorted(n, r) : r \in stay} ELSE stay]
    BY DEF Scan
  <2>3. store' = [store EXCEPT ![n] = {G[r] : r \in stay}]
    BY <2>1, <2>2
  <2>4. PICK f \in BOOLEAN : f = (finished[n] /\ ~(c = 2 /\ \E r \in stay : Outside(n, r.pos)))
    OBVIOUS
  <2>5. finished' = [finished EXCEPT ![n] = f]
    BY <1>1, <2>4 DEF Scan, Types
  <2> QED BY <2>3, <2>5 DEF Scan
<1>5. Types'
  <2>1. a \in Message /\ b \in Message
    <3>1. \A r \in store[n] : Strip(r) \in Traveller
      BY <1>2, Packing
    <3>2. a.parts \in SUBSET Traveller /\ b.parts \in SUBSET Traveller
      BY <3>1
    <3>3. NodeNeighbor(n, c, Left) \in Node /\ NodeNeighbor(n, c, Right) \in Node
      BY <1>1, NeighborIsNode
    <3> QED BY <1>1, <3>2, <3>3 DEF Message
  <2>2. store' \in [Node -> SUBSET Resident]
    <3> HIDE DEF G
    <3>1. {G[r] : r \in store[n] \ (L \cup R)} \in SUBSET Resident
      BY <1>3
    <3> QED BY <1>1, <1>4, <3>1 DEF Types
  <2>3. pc' \in [Node -> {"idle", "scan", "recv", "reduce"}] /\ finished' \in [Node -> BOOLEAN]
    BY <1>1, <1>4 DEF Types
  <2> HIDE DEF a, b, G
  <2> QED BY <1>1, <1>4, <2>1, <2>2, <2>3 DEF Types
<1>6. ASSUME OnlyNewIds PROVE OnePlace' /\ SomePlace' /\ Accounted'
  <2>1. OnePlace /\ SomePlace /\ Accounted
    BY <1>6 DEF PInv
  <2>2. L \subseteq store[n] /\ R \subseteq store[n] /\ L \cap R = {}
    BY DEF GoesRight
  <2>3. a.parts = {Strip(r) : r \in L} /\ b.parts = {Strip(r) : r \in R}
    OBVIOUS
  <2>4. \A r \in store[n] :
          /\ G[r].id = r.id
          /\ \A d \in Coord : G[r].pos[d] + G[r].img[d] * BoxL(d) = r.pos[d] + r.img[d] * BoxL(d)
    BY <1>3
  <2> HIDE DEF a, b, G, L, R
  <2>5. Repacks(n, G, L, R, a, b, {a, b})
    BY <1>4, <2>2, <2>3, <2>4 DEF Repacks
  <2> QED BY <1>1, <2>1, <2>5, Repacked
<1> QED
  BY <1>5, <1>6 DEF PInv

\* A coordinate with one node only folds, and sorts during the last one.
LEMMA FoldStep ==
  ASSUME PInv, NEW n \in Node, FoldLocal(n)
  PROVE  PInv'
<1> DEFINE c == coord[n]
           folded == {Fold(c, r) : r \in store[n]}
           G == [r \in store[n] |-> IF c = 2 THEN Sorted(n, Fold(c, r)) ELSE Fold(c, r)]
           a == [parts |-> {Strip(r) : r \in {}}]
<1>1. Types /\ c \in Coord
  BY DEF PInv, Types
<1>2. \A r \in store[n] : r \in Resident
  BY <1>1 DEF Types
<1>3. ASSUME NEW r \in store[n]
      PROVE  /\ G[r] \in Resident /\ G[r].id = r.id
             /\ \A d \in Coord : G[r].pos[d] + G[r].img[d] * BoxL(d) = r.pos[d] + r.img[d] * BoxL(d)
  BY <1>1, <1>2, Sorting, Folding
<1>4. /\ store' = [store EXCEPT ![n] = {G[r] : r \in store[n] \ ({} \cup {})}]
      /\ net' = net \cup {}
      /\ \E k \in {"scan", "reduce"} : pc' = [pc EXCEPT ![n] = k]
      /\ \E d \in Coord : coord' = [coord EXCEPT ![n] = d]
      /\ \E f \in BOOLEAN : finished' = [finished EXCEPT ![n] = f]
      /\ fresh' = fresh /\ unfolded' = unfolded /\ ops' = ops
  <2>1. (IF c = 2 THEN {Sorted(n, r) : r \in folded} ELSE folded) = {G[r] : r \in store[n]}
    OBVIOUS
  <2>2. store' = [store EXCEPT ![n] = IF c = 2 THEN {Sorted(n, r) : r \in folded} ELSE folded]
    BY DEF FoldLocal
  <2>3. store' = [store EXCEPT ![n] = {G[r] : r \in store[n]}]
    BY <2>1, <2>2
  <2>4. PICK f \in BOOLEAN : f = (finished[n] /\ ~(c = 2 /\ \E r \in folded : Outside(n, r.pos)))
    OBVIOUS
  <2>5. finished' = [finished EXCEPT ![n] = f]
    BY <1>1, <2>4 DEF FoldLocal, Types
  <2>6. (IF c = 2 THEN c ELSE c + 1) \in Coord
    BY <1>1 DEF Coord
  <2>7. store[n] \ ({} \cup {}) = store[n] /\ net \cup {} = net
    OBVIOUS
  <2> HIDE DEF G
  <2>8. store' = [store EXCEPT ![n] = {G[r] : r \in store[n] \ ({} \cup {})}]
    BY <2>3, <2>7
  <2>9. coord' = [coord EXCEPT ![n] = IF c = 2 THEN c ELSE c + 1]
    BY <1>1 DEF FoldLocal, Advance, Types
  <2>10. \E k \in {"scan", "reduce"} : pc' = [pc EXCEPT ![n] = k]
    BY DEF FoldLocal, Advance
  <2> QED BY <2>5, <2>6, <2>7, <2>8, <2>9, <2>10 DEF FoldLocal
<1>5. Types'
  <2>1. store' \in [Node -> SUBSET Resident]
    <3> HIDE DEF G
    <3>1. {G[r] : r \in store[n] \ ({} \cup {})} \in SUBSET Resident
      BY <1>3
    <3> QED BY <1>1, <1>4, <3>1 DEF Types
  <2>2. /\ pc' \in [Node -> {"idle", "scan", "recv", "reduce"}]
        /\ finished' \in [Node -> BOOLEAN] /\ coord' \in [Node -> Coord]
    BY <1>1, <1>4 DEF Types
  <2> HIDE DEF G
  <2> QED BY <1>1, <1>4, <2>1, <2>2 DEF Types
<1>6. ASSUME OnlyNewIds PROVE OnePlace' /\ SomePlace' /\ Accounted'
  <2>1. OnePlace /\ SomePlace /\ Accounted
    BY <1>6 DEF PInv
  <2>2. a.parts = {Strip(r) : r \in {}}
    OBVIOUS
  <2> HIDE DEF a, G
  <2>3. Repacks(n, G, {}, {}, a, a, {})
    BY <1>3, <1>4, <2>2 DEF Repacks
  <2> QED BY <1>1, <2>1, <2>3, Repacked
<1> QED
  BY <1>5, <1>6 DEF PInv

\* appendParticles takes both buffers off the network and stores what they
\* hold.
LEMMA AppendStep ==
  ASSUME PInv, NEW n \in Node, Append(n)
  PROVE  PInv'
<1> DEFINE c == coord[n]
<1>1. Types /\ c \in Coord
  BY DEF PInv, Types
<1>2. PICK ml \in net, mr \in net :
        /\ ml.dst = n /\ ml.coord = c /\ ml.dir = Right
        /\ mr.dst = n /\ mr.coord = c /\ mr.dir = Left
        /\ store' = [store EXCEPT ![n] = @ \cup (Arrived(n, c, Left, ml.parts) \cup Arrived(n, c, Right, mr.parts))]
        /\ finished' = [finished EXCEPT ![n] =
             @ /\ ~(c = 2 /\ \E r \in Arrived(n, c, Left, ml.parts) \cup Arrived(n, c, Right, mr.parts) : Outside(n, r.pos))]
        /\ net' = net \ {ml, mr}
        /\ Advance(n)
        /\ fresh' = fresh /\ unfolded' = unfolded /\ ops' = ops
  BY DEF Append
<1>3. ml # mr
  BY <1>2 DEF Left, Right
<1>4. ml \in Message /\ mr \in Message
  BY <1>1 DEF Types
<1>5. /\ Arrived(n, c, Left, ml.parts) = {Unpacked(n, c, Left, r) : r \in ml.parts}
      /\ Arrived(n, c, Right, mr.parts) = {Unpacked(n, c, Right, r) : r \in mr.parts}
  BY DEF Arrived, Unpacked
<1>6. ASSUME NEW m \in {ml, mr}, NEW r \in m.parts, NEW side
      PROVE  /\ Unpacked(n, c, side, r) \in Resident
             /\ Unpacked(n, c, side, r).id = r.id
             /\ \A d \in Coord : Unpacked(n, c, side, r).pos[d] + Unpacked(n, c, side, r).img[d] * BoxL(d)
                                   = r.pos[d] + r.img[d] * BoxL(d)
  <2>1. r \in Traveller
    BY <1>4 DEF Message
  <2> QED BY <1>1, <2>1, Unpacking
<1> DEFINE side(m) == IF m = ml THEN Left ELSE Right
<1>7. ASSUME NEW s
      PROVE  s \in Arrived(n, c, Left, ml.parts) \cup Arrived(n, c, Right, mr.parts)
               <=> \E m \in {ml, mr} : \E r \in m.parts : s = Unpacked(n, c, side(m), r)
  BY <1>3, <1>5
<1> DEFINE new == Arrived(n, c, Left, ml.parts) \cup Arrived(n, c, Right, mr.parts)
<1>8. new \subseteq Resident
  BY <1>6, <1>7
<1>9. /\ store'[n] = store[n] \cup new
      /\ \A k \in Node \ {n} : store'[k] = store[k]
  BY <1>1, <1>2 DEF Types
<1>10. Types'
  <2> HIDE DEF new
  <2>1. store' \in [Node -> SUBSET Resident]
    <3>1. store' = [store EXCEPT ![n] = @ \cup new]
      BY <1>2 DEF new
    <3> QED BY <1>1, <1>8, <3>1 DEF Types
  <2>2. PICK f \in BOOLEAN : f = (finished[n] /\ ~(c = 2 /\ \E r \in new : Outside(n, r.pos)))
    OBVIOUS
  <2>3. finished' = [finished EXCEPT ![n] = f]
    BY <1>1, <1>2, <2>2 DEF Types, new
  <2>4. (IF c = 2 THEN c ELSE c + 1) \in Coord
    BY <1>1 DEF Coord
  <2>5. coord' = [coord EXCEPT ![n] = IF c = 2 THEN c ELSE c + 1]
    BY <1>1, <1>2 DEF Advance, Types
  <2>6. \E k \in {"scan", "reduce"} : pc' = [pc EXCEPT ![n] = k]
    BY <1>2 DEF Advance
  <2>7. pc' \in [Node -> {"idle", "scan", "recv", "reduce"}] /\ coord' \in [Node -> Coord]
    BY <1>1, <2>4, <2>5, <2>6 DEF Types
  <2>8. finished' \in [Node -> BOOLEAN]
    BY <1>1, <2>3 DEF Types
  <2> QED BY <1>1, <1>2, <2>1, <2>7, <2>8 DEF Types
<1>11. ASSUME OnlyNewIds PROVE OnePlace' /\ SomePlace' /\ Accounted'
  <2>1. OnePlace /\ SomePlace /\ Accounted
    BY <1>11 DEF PInv
  <2>2. ASSUME NEW k \in Node, NEW s \in store'[k]
        PROVE  \/ s \in store[k]
               \/ k = n /\ \E m \in {ml, mr} : \E r \in m.parts : s = Unpacked(n, c, side(m), r) /\ s.id = r.id
    BY <1>6, <1>7, <1>9
  <2> HIDE DEF side, new
  <2>3. OnePlace'
    <3>1. ASSUME NEW j \in Node, NEW k \in Node, NEW r \in store'[j], NEW s \in store'[k], r.id = s.id
          PROVE  j = k /\ r = s
      <4>1. CASE r \in store[j] /\ s \in store[k]
        BY <2>1, <3>1, <4>1 DEF OnePlace
      <4>2. CASE r \in store[j] /\ s \notin store[k]
        BY <2>1, <2>2, <3>1, <4>2 DEF OnePlace
      <4>3. CASE r \notin store[j] /\ s \in store[k]
        BY <2>1, <2>2, <3>1, <4>3 DEF OnePlace
      <4>4. CASE r \notin store[j] /\ s \notin store[k]
        <5>1. PICK l \in {ml, mr} : \E q \in l.parts : r = Unpacked(n, c, side(l), q) /\ r.id = q.id
          BY <2>2, <4>4
        <5>2. PICK q \in l.parts : r = Unpacked(n, c, side(l), q) /\ r.id = q.id
          BY <5>1
        <5>3. PICK m \in {ml, mr} : \E u \in m.parts : s = Unpacked(n, c, side(m), u) /\ s.id = u.id
          BY <2>2, <4>4
        <5>4. PICK u \in m.parts : s = Unpacked(n, c, side(m), u) /\ s.id = u.id
          BY <5>3
        <5>5. l = m /\ q = u
          BY <2>1, <3>1, <5>2, <5>4 DEF OnePlace
        <5> QED BY <2>2, <4>4, <5>2, <5>4, <5>5
      <4> QED BY <4>1, <4>2, <4>3, <4>4
    <3>2. ASSUME NEW k \in Node, NEW m \in net', NEW r \in store'[k], NEW s \in m.parts
          PROVE  r.id # s.id
      <4>1. m \in net /\ m # ml /\ m # mr
        BY <1>2
      <4>2. CASE r \in store[k]
        BY <2>1, <4>1, <4>2 DEF OnePlace
      <4>3. CASE r \notin store[k]
        BY <2>1, <2>2, <4>1, <4>3 DEF OnePlace
      <4> QED BY <4>2, <4>3
    <3>3. \A l, m \in net' : \A r \in l.parts, s \in m.parts : r.id = s.id => l = m /\ r = s
      BY <1>2, <2>1 DEF OnePlace
    <3> QED BY <3>1, <3>2, <3>3 DEF OnePlace
  <2>4. SomePlace'
    <3>1. ASSUME NEW k \in Node, NEW s \in store'[k] PROVE s.id \in DOMAIN unfolded
      BY <2>1, <2>2 DEF SomePlace, Exists
    <3>2. ASSUME NEW m \in net', NEW s \in m.parts PROVE s.id \in DOMAIN unfolded
      BY <1>2, <2>1 DEF SomePlace, Exists
    <3>3. ASSUME NEW p \in DOMAIN unfolded
          PROVE  \/ \E k \in Node : \E s \in store'[k] : s.id = p
                 \/ \E m \in net' : \E s \in m.parts : s.id = p
      <4>1. CASE \E k \in Node : \E s \in store[k] : s.id = p
        BY <1>9, <4>1
      <4>2. CASE \E m \in net : \E s \in m.parts : s.id = p
        <5>1. PICK m \in net : \E s \in m.parts : s.id = p
          BY <4>2
        <5>2. PICK s \in m.parts : s.id = p
          BY <5>1
        <5>3. CASE m \in {ml, mr}
          <6>1. Unpacked(n, c, side(m), s) \in store'[n] /\ Unpacked(n, c, side(m), s).id = p
            BY <1>6, <1>7, <1>9, <5>2, <5>3 DEF new
          <6> QED BY <6>1
        <5>4. CASE m \notin {ml, mr}
          BY <1>2, <5>2, <5>4
        <5> QED BY <5>3, <5>4
      <4> QED BY <2>1, <4>1, <4>2 DEF SomePlace
    <3> QED BY <1>2, <3>1, <3>2, <3>3 DEF SomePlace, Exists
  <2>5. Accounted'
    <3>1. ASSUME NEW k \in Node, NEW s \in store'[k] PROVE AddsUp(s)'
      <4>1. CASE s \in store[k]
        BY <1>2, <2>1, <4>1 DEF Accounted, AddsUp, BoxL, LocalSize
      <4>2. CASE s \notin store[k]
        <5>1. PICK m \in {ml, mr} : \E r \in m.parts : s = Unpacked(n, c, side(m), r) /\ s.id = r.id
          BY <2>2, <4>2
        <5>2. PICK r \in m.parts : s = Unpacked(n, c, side(m), r) /\ s.id = r.id
          BY <5>1
        <5>3. AddsUp(r)
          BY <2>1 DEF Accounted
        <5>4. \A d \in Coord : s.pos[d] + s.img[d] * BoxL(d) = r.pos[d] + r.img[d] * BoxL(d)
          BY <1>6, <5>2
        <5> QED BY <1>2, <5>2, <5>3, <5>4 DEF AddsUp, BoxL, LocalSize
      <4> QED BY <4>1, <4>2
    <3>2. ASSUME NEW m \in net', NEW s \in m.parts PROVE AddsUp(s)'
      BY <1>2, <2>1 DEF Accounted, AddsUp, BoxL, LocalSize
    <3> QED BY <3>1, <3>2 DEF Accounted
  <2> QED BY <2>3, <2>4, <2>5
<1> QED
  BY <1>10, <1>11 DEF PInv

\* The beginning of a decomposition and the joint end of a round move nothing.
LEMMA RoundStep ==
  ASSUME PInv, Begin \/ AllReduce
  PROVE  PInv'
<1>1. Types /\ 0 \in Coord
  BY DEF PInv, Coord
<1>2. store' = store /\ net' = net /\ unfolded' = unfolded /\ ops' = ops
  BY DEF Begin, AllReduce
<1>3. /\ pc' \in [Node -> {"idle", "scan", "recv", "reduce"}]
      /\ coord' \in [Node -> Coord] /\ finished' \in [Node -> BOOLEAN] /\ fresh' \in BOOLEAN
  BY <1>1 DEF Begin, AllReduce, Types
<1>4. Types'
  BY <1>1, <1>2, <1>3 DEF Types
<1>5. OnePlace /\ SomePlace /\ Accounted => OnePlace' /\ SomePlace' /\ Accounted'
  BY <1>2 DEF OnePlace, SomePlace, Accounted, AddsUp, Exists, BoxL, LocalSize
<1> QED
  BY <1>4, <1>5 DEF PInv

\* Every step of every operation keeps the invariant.
LEMMA StepPInv == PInv /\ [Next]_vars => PInv'
<1> SUFFICES ASSUME PInv, [Next]_vars PROVE PInv'
  OBVIOUS
<1>1. CASE UNCHANGED vars
  BY <1>1 DEF vars, PInv, Types, OnePlace, SomePlace, Accounted, AddsUp, Exists, BoxL, LocalSize
<1>2. CASE \E l \in Lists : AddParticles(l)
  BY <1>2, AddStep
<1>3. CASE \E n \in Node : \E r \in store[n], x \in MovePositions :
             Integrate(n, r, x) \/ ModifyParticle(n, r, x)
  BY <1>3, MoveStep
<1>4. CASE Begin \/ AllReduce
  BY <1>4, RoundStep
<1>5. CASE \E n \in Node : Scan(n) \/ Append(n) \/ FoldLocal(n)
  BY <1>5, ScanStep, AppendStep, FoldStep
<1> QED
  BY <1>1, <1>2, <1>3, <1>4, <1>5 DEF Next, Decompose

\* In every reachable state particles are where the invariant says.
THEOREM Invariant == Spec => []PInv
<1> QED
  BY InitPInv, StepPInv, PTL DEF Spec

\* Types of the state; in particular every stored particle sits in an inner
\* cell of its node in each phase of decomposeRealParticles, wherever its
\* position is.
THEOREM Typing == Spec => []TypeOK
<1>1. PInv => TypeOK
  BY DEF PInv, Types, TypeOK, Resident, InnerCell, Message
<1> QED
  BY <1>1, Invariant, PTL

\* decomposeRealParticles neither loses nor duplicates a particle, in any
\* interleaving of the nodes, when scripts add only particles that do not
\* exist yet.
THEOREM NoneLostNoneTwice ==
  ASSUME OnlyNewIds
  PROVE  Spec => []Conserved
<1>1. ASSUME PInv PROVE Conserved
  <2>1. OnePlace /\ SomePlace
    BY <1>1 DEF PInv
  <2>2. SUFFICES ASSUME NEW p \in Particle
                 PROVE  Cardinality(Copies(p)) = IF Exists(p) THEN 1 ELSE 0
    BY DEF Conserved
  <2>3. ASSUME NEW x
        PROVE  x \in Copies(p) <=>
                 \/ \E n \in Node : \E r \in store[n] : r.id = p /\ x = <<n, r>>
                 \/ \E m \in net : \E r \in m.parts : r.id = p /\ x = <<m, r>>
    <3> DEFINE A == UNION {{n} \X store[n] : n \in Node}
               B == UNION {{<<m, r>> : r \in {q \in m.parts : q.id = p}} : m \in net}
    <3>1. x \in B <=> \E m \in net : \E r \in m.parts : r.id = p /\ x = <<m, r>>
      OBVIOUS
    <3>2. x \in A <=> \E n \in Node : \E r \in store[n] : x = <<n, r>>
      OBVIOUS
    <3>3. x \in {y \in A : y[2].id = p} <=> \E n \in Node : \E r \in store[n] : r.id = p /\ x = <<n, r>>
      BY <3>2
    <3>4. Copies(p) = {y \in A : y[2].id = p} \cup B
      BY DEF Copies
    <3> HIDE DEF A, B
    <3> QED BY <3>1, <3>3, <3>4
  <2>4. CASE ~Exists(p)
    <3>1. Copies(p) = {}
      BY <2>1, <2>3, <2>4 DEF SomePlace
    <3> QED BY <2>4, <3>1, FS_EmptySet
  <2>5. CASE Exists(p)
    <3>1. PICK x : x \in Copies(p)
      BY <2>1, <2>3, <2>5 DEF SomePlace, Exists
    <3>2. \A y \in Copies(p) : y = x
      BY <2>1, <2>3, <3>1 DEF OnePlace
    <3>3. Copies(p) = {x}
      BY <3>1, <3>2
    <3> QED BY <2>5, <3>3, FS_Singleton
  <2> QED BY <2>4, <2>5
<1> QED
  BY <1>1, Invariant, PTL

\* Folding during the exchange keeps position and image of a particle
\* consistent: they add up to where the particle really is, on a node and in
\* a buffer.
THEOREM ImagesKeepTrack ==
  ASSUME OnlyNewIds
  PROVE  Spec => []ImagesAddUp
<1>1. ASSUME PInv PROVE ImagesAddUp
  <2>1. Accounted
    BY <1>1 DEF PInv
  <2>2. SUFFICES ASSUME NEW p \in Particle, NEW x \in Copies(p), NEW c \in Coord
                 PROVE  x[2].pos[c] + x[2].img[c] * BoxL(c) = unfolded[p][c]
    BY DEF ImagesAddUp
  <2>3. x[2].id = p /\ AddsUp(x[2])
    <3>1. CASE x \in {y \in UNION {{n} \X store[n] : n \in Node} : y[2].id = p}
      BY <2>1, <3>1 DEF Accounted
    <3>2. CASE x \in UNION {{<<m, r>> : r \in {q \in m.parts : q.id = p}} : m \in net}
      BY <2>1, <3>2 DEF Accounted
    <3> QED BY <3>1, <3>2 DEF Copies
  <2> QED BY <2>3 DEF AddsUp
<1> QED
  BY <1>1, Invariant, PTL

-----------------------------------------------------------------------------
(* Where decompose() leaves the particles.  The invariant follows a round: *)
(* which nodes have dealt with which coordinate, and how far to the left   *)
(* of its node a particle can be at that moment.                           *)

\* Before decompose() a particle is at most one domain to the left of its
\* node, and scripts do not add particles beyond the right border of the box.
ShortMoves ==
  \A c \in Coord : /\ MaxLeftMove <= LocalSize(c)
                   /\ \A x \in AddPositions : x[c] < BoxL(c)

\* the node has sent or folded along c in this round; it has received as well
Sent(n, c)   == \/ pc[n] = "reduce"
                \/ pc[n] = "recv" /\ c <= coord[n]
                \/ pc[n] = "scan" /\ c < coord[n]
Passed(n, c) == \/ pc[n] = "reduce"
                \/ pc[n] \in {"scan", "recv"} /\ c < coord[n]

\* Nodes enter and leave together; a buffer under way was sent in this round
\* and its receiver still waits for it; no two are alike.
Rounds ==
  /\ \A k, n \in Node : pc[k] = "idle" => pc[n] = "idle"
  /\ \A m \in net : /\ GridSize[m.coord] > 1
                    /\ Sent(NodeNeighbor(m.dst, m.coord, Opposite(m.dir)), m.coord)
                    /\ ~Passed(m.dst, m.coord)
  /\ \A l, m \in net : l.dst = m.dst /\ l.coord = m.coord /\ l.dir = m.dir => l = m
  /\ \A n \in Node, c \in Coord, dir \in {Left, Right} :
       GridSize[c] > 1 /\ Passed(n, c) => Sent(NodeNeighbor(n, c, dir), c)

\* what is known of a coordinate before and after its node has dealt with it
Reached(n, c, x, sent) ==
  /\ x >= MyLeft(n, c) - LocalSize(c)
  /\ sent => x >= MyLeft(n, c) /\ (GridSize[c] = 1 => x < BoxL(c))

\* a buffer counts with what will be unpacked from it
Bounded ==
  /\ \A n \in Node : \A r \in store[n] : \A c \in Coord : Reached(n, c, r.pos[c], Sent(n, c))
  /\ \A m \in net : \A r \in m.parts : \A c \in Coord :
       Reached(m.dst, c, Unpacked(m.dst, m.coord, Opposite(m.dir), r).pos[c], c <= m.coord)

\* a node that still calls itself finished after the last coordinate
Checked ==
  \A n \in Node : Sent(n, 2) /\ finished[n] =>
    \A r \in store[n] : ~Outside(n, r.pos) /\ r.cell = CellClipped(n, r.pos)

\* at home, and in the box where a single node spans it
Settled(n, r) ==
  /\ InDomain(n, r.pos) /\ r.cell = HomeCell(n, r.pos)
  /\ \A c \in Coord : GridSize[c] = 1 => r.pos[c] < BoxL(c)

AllSettled ==
  fresh => /\ \A n \in Node : \A r \in store[n] : Settled(n, r)
           /\ \A m \in net : m.parts = {}

HInv == PInv /\ Rounds /\ Checked /\ (ShortMoves => Bounded /\ AllSettled)

\* Division of positions by a length rounds down.
LEMMA Division ==
  ASSUME NEW x \in Int, NEW l \in Nat, l > 0
  PROVE  x \div l \in Int /\ (x \div l) * l <= x /\ x < (x \div l) * l + l
  OBVIOUS

\* A multiple of a length that lies inside one length is zero.
LEMMA SmallMultiple ==
  ASSUME NEW q \in Int, NEW l \in Nat, l > 0, NEW x \in Int, 0 <= x, x < l, q * l <= x, x < q * l + l
  PROVE  q = 0
<1>1. CASE q > 0
  <2>1. q * l >= l
    BY <1>1
  <2> QED BY <2>1
<1>2. CASE q < 0
  <2>1. (-q) * l >= l
    BY <1>2
  <2>2. q * l = -((-q) * l)
    OBVIOUS
  <2>3. (-q) * l \in Int /\ q * l \in Int
    BY <1>2
  <2> QED BY <2>1, <2>2, <2>3
<1> QED
  BY <1>1, <1>2

\* foldCoordinate puts a coordinate into the box and leaves one alone that is
\* there already.
LEMMA FoldedIn ==
  ASSUME NEW c \in Coord, NEW x \in Int
  PROVE  /\ BoxOf(c, x) \in Int
         /\ 0 <= x - BoxOf(c, x) * BoxL(c) /\ x - BoxOf(c, x) * BoxL(c) < BoxL(c)
         /\ 0 <= x /\ x < BoxL(c) => BoxOf(c, x) = 0
<1> DEFINE l == BoxL(c)
           q == BoxOf(c, x)
<1>1. l \in Nat /\ l > 0
  BY Sizes
<1>2. q \in Int /\ q * l <= x /\ x < q * l + l
  BY <1>1, Division DEF BoxOf
<1>3. q * l \in Int
  BY <1>1, <1>2
<1>4. 0 <= x /\ x < l => q = 0
  BY <1>1, <1>2, SmallMultiple
<1> HIDE DEF l, q
<1> QED
  BY <1>1, <1>2, <1>3, <1>4 DEF l, q

\* The borders of a node and of its neighbours: equal, or the two ends of
\* the box, and there the receiver folds.
LEMMA Beside ==
  ASSUME NEW n \in Node, NEW c \in Coord, NEW dir \in {Left, Right}, NEW k,
         k = NodeNeighbor(n, c, dir)
  PROVE  /\ k \in Node /\ NodeNeighbor(k, c, Opposite(dir)) = n
         /\ \A d \in Coord \ {c} : MyLeft(k, d) = MyLeft(n, d)
         /\ dir = Left =>
              \/ /\ MyLeft(n, c) = 0 /\ MyLeft(k, c) = BoxL(c) - LocalSize(c)
                 /\ Boundary(k, c, Right) # 0
              \/ MyLeft(k, c) = MyLeft(n, c) - LocalSize(c) /\ Boundary(k, c, Right) = 0
         /\ dir = Right =>
              \/ /\ MyRight(n, c) = BoxL(c) /\ MyLeft(k, c) = 0
                 /\ Boundary(k, c, Left) # 0
              \/ MyLeft(k, c) = MyRight(n, c) /\ Boundary(k, c, Left) = 0
<1>1. n[c] \in Nat /\ n[c] < GridSize[c] /\ n \in [Coord -> 0 .. MaxExtent]
  BY Borders DEF Node
<1>2. GridSize[c] \in Nat /\ LocalSize(c) \in Nat
  BY Sizes
<1>3. k \in Node
  BY NeighborIsNode
<1>4. /\ k \in [Coord -> 0 .. MaxExtent] /\ \A d \in Coord \ {c} : k[d] = n[d]
      /\ dir = Left  => k[c] = IF n[c] - 1 < 0 THEN n[c] - 1 + GridSize[c] ELSE n[c] - 1
      /\ dir = Right => k[c] = IF n[c] + 1 >= GridSize[c] THEN n[c] + 1 - GridSize[c] ELSE n[c] + 1
  BY <1>1, <1>3 DEF NodeNeighbor, Node, Left, Right
<1>5. NodeNeighbor(k, c, Opposite(dir)) = n
  <2> DEFINE j == NodeNeighbor(k, c, Opposite(dir))
  <2>1. j \in [Coord -> 0 .. MaxExtent]
    <3>1. j \in Node
      BY <1>3, NeighborIsNode
    <3> QED BY <3>1 DEF Node
  <2>2. j[c] = n[c]
    BY <1>1, <1>2, <1>4 DEF NodeNeighbor, Opposite, Left, Right
  <2>3. \A d \in Coord \ {c} : j[d] = n[d]
    BY <1>4 DEF NodeNeighbor
  <2> HIDE DEF j
  <2>4. j = n
    BY <1>1, <2>1, <2>2, <2>3
  <2> QED BY <2>4 DEF j
<1>6. \A d \in Coord \ {c} : MyLeft(k, d) = MyLeft(n, d)
  BY <1>4 DEF MyLeft
<1>7. ASSUME dir = Left
      PROVE  \/ /\ MyLeft(n, c) = 0 /\ MyLeft(k, c) = BoxL(c) - LocalSize(c)
                /\ Boundary(k, c, Right) # 0
             \/ MyLeft(k, c) = MyLeft(n, c) - LocalSize(c) /\ Boundary(k, c, Right) = 0
  <2>1. CASE n[c] = 0
    <3>1. k[c] = GridSize[c] - 1
      BY <1>2, <1>4, <1>7, <2>1
    <3>2. MyLeft(n, c) = 0 /\ MyLeft(k, c) = BoxL(c) - LocalSize(c)
      BY <1>2, <2>1, <3>1 DEF MyLeft, BoxL
    <3> QED BY <3>1, <3>2 DEF Boundary, Left, Right
  <2>2. CASE n[c] # 0
    <3>1. k[c] = n[c] - 1
      BY <1>1, <1>4, <1>7, <2>2
    <3>2. MyLeft(k, c) = MyLeft(n, c) - LocalSize(c)
      BY <1>1, <1>2, <3>1 DEF MyLeft
    <3> QED BY <1>1, <1>2, <2>2, <3>1, <3>2 DEF Boundary, Left, Right
  <2> QED BY <2>1, <2>2
<1>8. ASSUME dir = Right
      PROVE  \/ /\ MyRight(n, c) = BoxL(c) /\ MyLeft(k, c) = 0
                /\ Boundary(k, c, Left) # 0
             \/ MyLeft(k, c) = MyRight(n, c) /\ Boundary(k, c, Left) = 0
  <2>1. CASE n[c] + 1 >= GridSize[c]
    <3>1. k[c] = 0 /\ n[c] + 1 = GridSize[c]
      BY <1>1, <1>2, <1>4, <1>8, <2>1
    <3> QED BY <1>2, <3>1 DEF MyLeft, MyRight, BoxL, Boundary, Left, Right
  <2>2. CASE n[c] + 1 < GridSize[c]
    <3>1. k[c] = n[c] + 1
      BY <1>1, <1>2, <1>4, <1>8, <2>2
    <3> QED BY <1>1, <1>2, <3>1 DEF MyLeft, MyRight, Boundary, Left, Right
  <2> QED BY <1>1, <1>2, <2>1, <2>2
<1> QED
  BY <1>3, <1>5, <1>6, <1>7, <1>8

\* The raw cell index of a position at or to the right of the left border.
LEMMA RawFromLeft ==
  ASSUME NEW n \in Node, NEW c \in Coord, NEW x \in Int, x >= MyLeft(n, c)
  PROVE  /\ RawCell(n, c, x) = (x - MyLeft(n, c)) \div CellWidth + Frame
         /\ RawCell(n, c, x) \in Int /\ RawCell(n, c, x) >= Frame
         /\ x < MyRight(n, c) => RawCell(n, c, x) < Frame + CellGridSize[c]
         /\ x >= MyRight(n, c) => RawCell(n, c, x) >= Frame + CellGridSize[c]
<1> DEFINE y == x - MyLeft(n, c)
           w == CellWidth
           q == y \div w
           g == CellGridSize[c]
<1>1. y \in Nat /\ w \in Nat /\ w > 0 /\ g \in Nat /\ MyLeft(n, c) \in Nat
  BY Borders, Sizes
<1>2. MyRight(n, c) = MyLeft(n, c) + g * w
  BY Borders DEF LocalSize
<1>3. q \in Int /\ q * w <= y /\ y < q * w + w
  BY <1>1, Division
<1>4. RawCell(n, c, x) = q + 1
  BY <1>1 DEF RawCell, Truncate, Frame
<1> HIDE DEF y, q, w, g
<1>5. q >= 0
  <2> SUFFICES ASSUME q <= -1 PROVE FALSE
    BY <1>3
  <2>1. (q + 1) * w <= 0
    BY <1>1, <1>3
  <2>2. (q + 1) * w = q * w + w
    BY <1>1, <1>3
  <2>3. q * w \in Int
    BY <1>1, <1>3
  <2> QED BY <1>1, <1>3, <2>1, <2>2, <2>3
<1>6. q < g => q * w + w <= g * w
  <2> SUFFICES ASSUME q < g PROVE q * w + w <= g * w
    OBVIOUS
  <2>1. (g - (q + 1)) * w >= 0
    BY <1>1, <1>3
  <2>2. (g - (q + 1)) * w = g * w - (q * w + w)
    BY <1>1, <1>3
  <2>3. q * w \in Int /\ g * w \in Int
    BY <1>1, <1>3
  <2> QED BY <1>1, <2>1, <2>2, <2>3
<1>7. q >= g => q * w >= g * w
  <2> SUFFICES ASSUME q >= g PROVE q * w >= g * w
    OBVIOUS
  <2>1. (q - g) * w >= 0
    BY <1>1, <1>3
  <2>2. (q - g) * w = q * w - g * w
    BY <1>1, <1>3
  <2>3. q * w \in Int /\ g * w \in Int
    BY <1>1, <1>3
  <2> QED BY <2>1, <2>2, <2>3
<1>8. q * w \in Int /\ g * w \in Int
  BY <1>1, <1>3
<1>9. y < g * w => q < g
  BY <1>1, <1>3, <1>7, <1>8
<1>10. y >= g * w => q >= g
  BY <1>1, <1>3, <1>6, <1>8
<1>11. (x < MyRight(n, c) => y < g * w) /\ (x >= MyRight(n, c) => y >= g * w)
  BY <1>1, <1>2, <1>8 DEF y
<1>12. RawCell(n, c, x) = y \div w + 1
  BY <1>4 DEF q
<1> QED
  BY <1>1, <1>3, <1>4, <1>5, <1>9, <1>10, <1>11, <1>12 DEF Frame, y, w, g

\* The checked map function accepts a position of the domain and finds its
\* cell.
LEMMA HomeIsFound ==
  ASSUME NEW n \in Node, NEW x \in Position, InDomain(n, x)
  PROVE  ~Outside(n, x) /\ CellClipped(n, x) = HomeCell(n, x)
<1>1. \A c \in Coord : /\ x[c] \in Int /\ MyLeft(n, c) \in Int /\ MyRight(n, c) \in Int
                       /\ MyLeft(n, c) <= x[c] /\ x[c] <= MyRight(n, c)
                       /\ CellGridSize[c] \in Nat /\ CellGridSize[c] > 0
  BY Borders, Sizes DEF Position, InDomain
<1>2. ~Outside(n, x)
  BY <1>1 DEF Outside, OutsideIn
<1>3. ASSUME NEW c \in Coord
      PROVE  Clip(c, RawCell(n, c, x[c])) =
               IF x[c] = MyRight(n, c) THEN Frame + CellGridSize[c] - 1
               ELSE (x[c] - MyLeft(n, c)) \div CellWidth + Frame
  <2> DEFINE i == RawCell(n, c, x[c])
  <2>1. /\ i = (x[c] - MyLeft(n, c)) \div CellWidth + Frame
        /\ i \in Int /\ i >= Frame
        /\ x[c] < MyRight(n, c) => i < Frame + CellGridSize[c]
        /\ x[c] >= MyRight(n, c) => i >= Frame + CellGridSize[c]
    BY <1>1, RawFromLeft
  <2>2. CASE x[c] = MyRight(n, c)
    <3>1. i >= Frame + CellGridSize[c]
      BY <1>1, <2>1, <2>2
    <3> HIDE DEF i
    <3>2. Clip(c, i) = Frame + CellGridSize[c] - 1
      BY <1>1, <2>1, <3>1 DEF Clip, Frame
    <3> QED BY <2>2, <3>2 DEF i
  <2>3. CASE x[c] # MyRight(n, c)
    <3>1. i < Frame + CellGridSize[c]
      BY <1>1, <2>1, <2>3
    <3>2. Clip(c, i) = i
      <4> HIDE DEF i
      <4> QED BY <1>1, <2>1, <3>1 DEF Clip, Frame
    <3> QED BY <2>1, <2>3, <3>2
  <2> QED BY <2>2, <2>3
<1> QED
  BY <1>2, <1>3 DEF CellClipped, HomeCell

\* A position that is neither left of the domain nor outside for the checked
\* map function is in the domain.
LEMMA NotOutside ==
  ASSUME NEW n \in Node, NEW x \in Position, ~Outside(n, x),
         \A c \in Coord : x[c] >= MyLeft(n, c)
  PROVE  InDomain(n, x)
<1> SUFFICES ASSUME NEW c \in Coord PROVE x[c] <= MyRight(n, c)
  BY DEF InDomain
<1>1. x[c] \in Int /\ MyRight(n, c) \in Int
  BY Borders, Sizes DEF Position
<1>2. x[c] >= MyRight(n, c) => RawCell(n, c, x[c]) >= Frame + CellGridSize[c]
  BY <1>1, RawFromLeft
<1>3. ~(RawCell(n, c, x[c]) >= Frame + CellGridSize[c] /\ x[c] > MyRight(n, c))
  BY DEF Outside, OutsideIn
<1> QED
  BY <1>1, <1>2, <1>3

-----------------------------------------------------------------------------
(* Steps of a round.                                                       *)

\* Before decompose() no round is under way.
LEMMA InitRounds == Init => Rounds
<1> SUFFICES ASSUME Init PROVE Rounds
  OBVIOUS
<1>1. net = {} /\ \A n \in Node : pc[n] = "idle"
  BY DEF Init
<1>2. \A n \in Node, c \in Coord : ~Passed(n, c)
  BY <1>1 DEF Passed
<1> QED
  BY <1>1, <1>2 DEF Rounds

\* A node that has received along a coordinate has sent along it before.
LEMMA PassedIsSent ==
  ASSUME Types, NEW n \in Node, NEW c \in Coord, Passed(n, c)
  PROVE  Sent(n, c)
<1>1. coord[n] \in Int /\ c \in Int
  BY DEF Types, Coord
<1> QED
  BY <1>1 DEF Passed, Sent

\* When every node has come to the end of a round, or is outside
\* decompose(), no buffer is under way.
LEMMA NothingUnderWay ==
  ASSUME Types, Rounds, Idle \/ \A n \in Node : pc[n] = "reduce"
  PROVE  net = {}
<1> SUFFICES ASSUME NEW m \in net PROVE FALSE
  OBVIOUS
<1>1. m.dst \in Node /\ m.coord \in Coord /\ m.dir \in {Left, Right}
  BY DEF Types, Message
<1>2. NodeNeighbor(m.dst, m.coord, Opposite(m.dir)) \in Node
  BY <1>1, NeighborIsNode
<1>3. /\ Sent(NodeNeighbor(m.dst, m.coord, Opposite(m.dir)), m.coord)
      /\ ~Passed(m.dst, m.coord)
  BY DEF Rounds
<1>4. CASE Idle
  BY <1>2, <1>3, <1>4 DEF Idle, Sent
<1>5. CASE \A n \in Node : pc[n] = "reduce"
  BY <1>1, <1>3, <1>5 DEF Passed
<1> QED
  BY <1>4, <1>5

\* Sending: the node becomes one that has sent along the coordinate, which
\* no receiver has passed before.
LEMMA ScanRounds ==
  ASSUME Types, Types', Rounds, NEW n \in Node, Scan(n)
  PROVE  Rounds'
<1> DEFINE c == coord[n]
           a == [dst |-> NodeNeighbor(n, c, Left),  coord |-> c, dir |-> Left,
                 parts |-> {Strip(r) : r \in {r \in store[n] : GoesLeft(n, c, r)}}]
           b == [dst |-> NodeNeighbor(n, c, Right), coord |-> c, dir |-> Right,
                 parts |-> {Strip(r) : r \in {r \in store[n] : GoesRight(n, c, r)}}]
<1>1. /\ net' = net \cup {a, b} /\ pc[n] = "scan" /\ GridSize[c] > 1
      /\ pc' = [pc EXCEPT ![n] = "recv"] /\ coord' = coord
  BY DEF Scan
<1>2. c \in Coord /\ \A k \in Node : coord[k] \in Int
  BY DEF Types, Coord
<1>3. pc'[n] = "recv" /\ \A k \in Node \ {n} : pc'[k] = pc[k]
  BY <1>1 DEF Types
<1>4. \A k \in Node, d \in Coord : Passed(k, d)' <=> Passed(k, d)
  BY <1>1, <1>3 DEF Passed
<1>5. \A k \in Node, d \in Coord : Sent(k, d) => Sent(k, d)'
  BY <1>1, <1>2, <1>3 DEF Sent, Coord
<1>6. Sent(n, c)' /\ ~Sent(n, c)
  BY <1>1, <1>2, <1>3 DEF Sent, Coord
<1>7. /\ a.dst \in Node /\ a.coord = c /\ a.dir = Left /\ NodeNeighbor(a.dst, c, Opposite(Left)) = n
      /\ b.dst \in Node /\ b.coord = c /\ b.dir = Right /\ NodeNeighbor(b.dst, c, Opposite(Right)) = n
  BY <1>2, Beside
<1> HIDE DEF a, b
<1>8. ASSUME NEW m \in net
      PROVE  m.dst \in Node /\ m.coord \in Coord /\ m.dir \in {Left, Right}
  BY DEF Types, Message
<1>9. \A j, k \in Node : pc'[j] = "idle" => pc'[k] = "idle"
  BY <1>1, <1>3 DEF Rounds
<1>10. ASSUME NEW m \in net'
       PROVE  /\ GridSize[m.coord] > 1
              /\ Sent(NodeNeighbor(m.dst, m.coord, Opposite(m.dir)), m.coord)'
              /\ ~Passed(m.dst, m.coord)'
  <2>1. CASE m \in net
    <3>1. NodeNeighbor(m.dst, m.coord, Opposite(m.dir)) \in Node
      BY <1>8, <2>1, NeighborIsNode
    <3> QED BY <1>4, <1>5, <1>8, <2>1, <3>1 DEF Rounds
  <2>2. CASE m \in {a, b}
    <3>1. m.dst \in Node /\ m.coord = c /\ m.dir \in {Left, Right} /\ NodeNeighbor(m.dst, c, Opposite(m.dir)) = n
      BY <1>7, <2>2
    <3>2. Opposite(m.dir) \in {Left, Right}
      BY <3>1 DEF Opposite, Left, Right
    <3>3. ~Passed(m.dst, c)
      BY <1>1, <1>2, <1>6, <3>1, <3>2 DEF Rounds
    <3> QED BY <1>1, <1>2, <1>4, <1>6, <3>1, <3>3
  <2> QED BY <1>1, <2>1, <2>2
<1>11. ASSUME NEW l \in net', NEW m \in net', l.dst = m.dst, l.coord = m.coord, l.dir = m.dir
       PROVE  l = m
  <2>1. CASE l \in net /\ m \in net
    BY <1>11, <2>1 DEF Rounds
  <2>2. CASE l \in {a, b} /\ m \in {a, b}
    BY <1>7, <1>11, <2>2 DEF Left, Right
  <2>3. CASE (l \in net /\ m \in {a, b}) \/ (l \in {a, b} /\ m \in net)
    BY <1>6, <1>7, <1>11, <2>3 DEF Rounds
  <2> QED BY <1>1, <2>1, <2>2, <2>3
<1>12. ASSUME NEW k \in Node, NEW d \in Coord, NEW dir \in {Left, Right}, GridSize[d] > 1, Passed(k, d)'
       PROVE  Sent(NodeNeighbor(k, d, dir), d)'
  <2>1. NodeNeighbor(k, d, dir) \in Node
    BY NeighborIsNode
  <2> QED BY <1>4, <1>5, <1>12, <2>1 DEF Rounds
<1> QED
  BY <1>9, <1>10, <1>11, <1>12 DEF Rounds, NodeNeighbor

\* Passing on to the next coordinate, by what came in or by folding alone.
LEMMA AdvanceRounds ==
  ASSUME Types, Rounds, NEW n \in Node, Advance(n), NEW Taken, net' = net \ Taken,
         \/ pc[n] = "recv" /\ \A dir \in {Left, Right} :
              \E m \in Taken \cap net : m.dst = n /\ m.coord = coord[n] /\ m.dir = dir
         \/ pc[n] = "scan" /\ GridSize[coord[n]] = 1
  PROVE  Rounds'
<1> DEFINE c == coord[n]
<1>1. c \in Coord /\ \A k \in Node : coord[k] \in Int
  BY DEF Types, Coord
<1>2. /\ pc'[n] = (IF c = 2 THEN "reduce" ELSE "scan")
      /\ coord'[n] = (IF c = 2 THEN c ELSE c + 1)
      /\ \A k \in Node \ {n} : pc'[k] = pc[k] /\ coord'[k] = coord[k]
  BY DEF Advance, Types
<1>3. \A k \in Node, d \in Coord : k # n => (Passed(k, d)' <=> Passed(k, d)) /\ (Sent(k, d)' <=> Sent(k, d))
  BY <1>2 DEF Passed, Sent
<1>4. \A d \in Coord : Passed(n, d)' <=> Passed(n, d) \/ d = c
  BY <1>1, <1>2 DEF Passed, Coord
<1>5. \A d \in Coord : Sent(n, d) => Sent(n, d)'
  BY <1>1, <1>2 DEF Sent, Coord
<1>6. ASSUME NEW m \in net
      PROVE  /\ m.dst \in Node /\ m.coord \in Coord /\ m.dir \in {Left, Right}
             /\ NodeNeighbor(m.dst, m.coord, Opposite(m.dir)) \in Node
  BY NeighborIsNode DEF Types, Message
<1>7. \A j, k \in Node : pc'[j] = "idle" => pc'[k] = "idle"
  BY <1>2 DEF Rounds
<1>8. ASSUME NEW m \in net'
      PROVE  /\ GridSize[m.coord] > 1
             /\ Sent(NodeNeighbor(m.dst, m.coord, Opposite(m.dir)), m.coord)'
             /\ ~Passed(m.dst, m.coord)'
  <2>1. /\ m \in net /\ GridSize[m.coord] > 1
        /\ Sent(NodeNeighbor(m.dst, m.coord, Opposite(m.dir)), m.coord)
        /\ ~Passed(m.dst, m.coord)
    BY DEF Rounds
  <2>2. Sent(NodeNeighbor(m.dst, m.coord, Opposite(m.dir)), m.coord)'
    BY <1>3, <1>5, <1>6, <2>1
  <2>3. ASSUME m.dst = n, m.coord = c PROVE FALSE
    <3>1. \E l \in Taken \cap net : l.dst = n /\ l.coord = c /\ l.dir = m.dir
      BY <1>6, <2>1, <2>3, Sizes
    <3>2. PICK l \in Taken \cap net : l.dst = n /\ l.coord = c /\ l.dir = m.dir
      BY <3>1
    <3>3. l = m
      BY <2>1, <2>3, <3>2 DEF Rounds
    <3> QED BY <3>3
  <2>4. ~Passed(m.dst, m.coord)'
    BY <1>3, <1>4, <1>6, <2>1, <2>3
  <2> QED BY <2>1, <2>2, <2>4
<1>9. \A l, m \in net' : l.dst = m.dst /\ l.coord = m.coord /\ l.dir = m.dir => l = m
  BY DEF Rounds
<1>10. ASSUME NEW k \in Node, NEW d \in Coord, NEW dir \in {Left, Right}, GridSize[d] > 1, Passed(k, d)'
       PROVE  Sent(NodeNeighbor(k, d, dir), d)'
  <2>1. NodeNeighbor(k, d, dir) \in Node
    BY NeighborIsNode
  <2>2. CASE Passed(k, d)
    BY <1>3, <1>5, <1>10, <2>1, <2>2 DEF Rounds
  <2>3. CASE ~Passed(k, d)
    <3>1. k = n /\ d = c
      BY <1>3, <1>4, <1>10, <2>3
    <3>2. Opposite(dir) \in {Left, Right} /\ Opposite(Opposite(dir)) = dir
      BY DEF Opposite, Left, Right
    <3>3. PICK m \in net : m.dst = n /\ m.coord = c /\ m.dir = Opposite(dir)
      BY <1>10, <3>1, <3>2
    <3>4. Sent(NodeNeighbor(n, c, dir), c)
      BY <3>2, <3>3 DEF Rounds
    <3> QED BY <1>3, <1>5, <2>1, <3>1, <3>4
  <2> QED BY <2>2, <2>3
<1> QED
  BY <1>7, <1>8, <1>9, <1>10 DEF Rounds, NodeNeighbor

\* No node goes ahead of its neighbours by more than what they have sent.
LEMMA StepRounds ==
  ASSUME PInv, PInv', Rounds, [Next]_vars
  PROVE  Rounds'
<1>1. Types /\ Types'
  BY DEF PInv
<1>2. CASE pc' = pc /\ coord' = coord /\ net' = net
  BY <1>2 DEF Rounds, Passed, Sent, NodeNeighbor
<1>3. CASE Begin \/ AllReduce
  <2>1. net = {} /\ net' = {}
    BY <1>1, <1>3, NothingUnderWay DEF Begin, AllReduce
  <2>2. \E k \in {"idle", "scan"} : \A n \in Node : pc'[n] = k /\ coord'[n] = 0
    BY <1>3 DEF Begin, AllReduce
  <2>3. \A n \in Node, c \in Coord : ~Passed(n, c)'
    BY <2>2 DEF Passed, Coord
  <2> QED BY <2>1, <2>2, <2>3 DEF Rounds
<1>4. ASSUME NEW n \in Node, Scan(n) PROVE Rounds'
  BY <1>1, <1>4, ScanRounds
<1>5. ASSUME NEW n \in Node, Append(n) PROVE Rounds'
  <2>1. PICK ml \in net, mr \in net :
          /\ pc[n] = "recv"
          /\ ml.dst = n /\ ml.coord = coord[n] /\ ml.dir = Right
          /\ mr.dst = n /\ mr.coord = coord[n] /\ mr.dir = Left
          /\ net' = net \ {ml, mr}
          /\ Advance(n)
    BY <1>5 DEF Append
  <2>2. \A dir \in {Left, Right} : \E m \in {ml, mr} \cap net : m.dst = n /\ m.coord = coord[n] /\ m.dir = dir
    BY <2>1
  <2> QED BY <1>1, <2>1, <2>2, AdvanceRounds
<1>6. ASSUME NEW n \in Node, FoldLocal(n) PROVE Rounds'
  <2>1. pc[n] = "scan" /\ GridSize[coord[n]] = 1 /\ net' = net \ {} /\ Advance(n)
    BY <1>6 DEF FoldLocal
  <2> QED BY <1>1, <2>1, AdvanceRounds
<1>7. CASE UNCHANGED vars
  BY <1>2, <1>7 DEF vars
<1>8. CASE \E l \in Lists : AddParticles(l)
  BY <1>2, <1>8 DEF AddParticles
<1>9. CASE \E n \in Node : \E r \in store[n], x \in MovePositions :
             Integrate(n, r, x) \/ ModifyParticle(n, r, x)
  BY <1>2, <1>9 DEF Integrate, ModifyParticle, Replace
<1> QED
  BY <1>3, <1>4, <1>5, <1>6, <1>7, <1>8, <1>9 DEF Next, Decompose

-----------------------------------------------------------------------------
(* Where particles are after a step.                                       *)

\* What is unpacked keeps the coordinates that are not exchanged, is folded
\* along the other at the border of the box, and is sorted in.
LEMMA UnpackedAt ==
  ASSUME NEW r \in Traveller, NEW n \in Node, NEW c \in Coord, NEW side
  PROVE  /\ \A d \in Coord \ {c} : Unpacked(n, c, side, r).pos[d] = r.pos[d]
         /\ Boundary(n, c, side) = 0 => Unpacked(n, c, side, r).pos[c] = r.pos[c]
         /\ Boundary(n, c, side) # 0 =>
              Unpacked(n, c, side, r).pos[c] = r.pos[c] - BoxOf(c, r.pos[c]) * BoxL(c)
         /\ Unpacked(n, c, side, r).pos \in Position
         /\ Unpacked(n, c, side, r).cell = CellClipped(n, Unpacked(n, c, side, r).pos)
<1> DEFINE f == IF Boundary(n, c, side) # 0 THEN Fold(c, r) ELSE r
<1>1. /\ f \in Traveller /\ f.pos \in Position
      /\ \A d \in Coord \ {c} : f.pos[d] = r.pos[d]
      /\ Boundary(n, c, side) = 0 => f.pos[c] = r.pos[c]
      /\ Boundary(n, c, side) # 0 => f.pos[c] = r.pos[c] - BoxOf(c, r.pos[c]) * BoxL(c)
  BY Folding DEF Traveller
<1>2. Unpacked(n, c, side, r) = Place(f, CellClipped(n, f.pos))
  BY DEF Unpacked
<1> HIDE DEF f
<1>3. Unpacked(n, c, side, r).pos = f.pos /\ Unpacked(n, c, side, r).cell = CellClipped(n, f.pos)
  BY <1>1, <1>2, Placing
<1> QED
  BY <1>1, <1>3

\* A particle that leaves a domain to the left, at most one domain away, or
\* to the right, is not left of the domain of the neighbour that unpacks it.
LEMMA Crossing ==
  ASSUME NEW n \in Node, NEW c \in Coord, NEW dir \in {Left, Right}, NEW r \in Traveller,
         NEW k, k = NodeNeighbor(n, c, dir),
         dir = Left  => r.pos[c] < MyLeft(n, c) /\ r.pos[c] >= MyLeft(n, c) - LocalSize(c),
         dir = Right => r.pos[c] > MyRight(n, c)
  PROVE  Unpacked(k, c, Opposite(dir), r).pos[c] >= MyLeft(k, c)
<1> DEFINE u == Unpacked(k, c, Opposite(dir), r).pos[c]
           x == r.pos[c]
           q == BoxOf(c, x)
<1>1. x \in Int
  BY DEF Traveller, Position
<1>2. BoxL(c) \in Nat /\ LocalSize(c) \in Nat /\ MyLeft(n, c) \in Int /\ k \in Node
  BY Sizes, Borders, NeighborIsNode
<1>3. /\ Boundary(k, c, Opposite(dir)) = 0 => u = x
      /\ Boundary(k, c, Opposite(dir)) # 0 => u = x - q * BoxL(c)
  BY <1>2, UnpackedAt
<1>4. q \in Int /\ 0 <= x - q * BoxL(c) /\ x - q * BoxL(c) < BoxL(c)
  BY <1>1, FoldedIn
<1>5. CASE dir = Left
  <2>1. Opposite(dir) = Right
    BY <1>5 DEF Opposite, Left, Right
  <2>2. CASE MyLeft(k, c) = MyLeft(n, c) - LocalSize(c) /\ Boundary(k, c, Right) = 0
    BY <1>1, <1>2, <1>3, <1>5, <2>1, <2>2
  <2>3. CASE /\ MyLeft(n, c) = 0 /\ MyLeft(k, c) = BoxL(c) - LocalSize(c)
             /\ Boundary(k, c, Right) # 0
    <3>1. BoxL(c) >= LocalSize(c)
      BY Sizes, Product DEF BoxL
    <3>2. x < 0 /\ x >= -LocalSize(c)
      BY <1>1, <1>2, <1>5, <2>3
    <3>3. 0 <= x + BoxL(c) /\ x + BoxL(c) < BoxL(c)
      BY <1>1, <1>2, <3>1, <3>2
    <3>4. q = -1
      <4>1. (q + 1) * BoxL(c) <= x + BoxL(c) /\ x + BoxL(c) < (q + 1) * BoxL(c) + BoxL(c)
        <5>1. (q + 1) * BoxL(c) = q * BoxL(c) + BoxL(c) /\ q * BoxL(c) \in Int
          BY <1>2, <1>4
        <5> QED BY <1>1, <1>2, <1>4, <5>1
      <4>2. q + 1 \in Int /\ x + BoxL(c) \in Int /\ BoxL(c) > 0
        BY <1>1, <1>2, <1>4, <3>3
      <4>3. q + 1 = 0
        BY <1>2, <3>3, <4>1, <4>2, SmallMultiple
      <4> QED BY <1>4, <4>3
    <3>5. u = x + BoxL(c)
      BY <1>1, <1>2, <1>3, <2>1, <2>3, <3>4
    <3> QED BY <1>1, <1>2, <2>3, <3>2, <3>5
  <2> QED BY <1>5, <2>2, <2>3, Beside
<1>6. CASE dir = Right
  <2>1. Opposite(dir) = Left
    BY <1>6 DEF Opposite, Left, Right
  <2>2. CASE MyLeft(k, c) = MyRight(n, c) /\ Boundary(k, c, Left) = 0
    <3>1. MyRight(n, c) \in Int
      BY Borders, Sizes
    <3> QED BY <1>1, <1>3, <1>6, <2>1, <2>2, <3>1
  <2>3. CASE MyLeft(k, c) = 0 /\ Boundary(k, c, Left) # 0
    BY <1>3, <1>4, <2>1, <2>3
  <2> QED BY <1>6, <2>2, <2>3, Beside
<1> QED
  BY <1>5, <1>6

\* addParticle stores a particle on a node whose left border it is not left of.
LEMMA AddedAt ==
  ASSUME NEW p \in Particle, NEW x \in Position, \A c \in Coord : x[c] < BoxL(c), NEW c \in Coord
  PROVE  Newcomer(p, x).pos[c] >= MyLeft(NodeClipped(x), c)
<1> DEFINE r0 == [id |-> p, pos |-> x, img |-> [d \in Coord |-> 0]]
           r1 == Fold(2, r0)
           r2 == Fold(1, r1)
           l == LocalSize(c)
           y == x[c] - BoxOf(c, x[c]) * BoxL(c)
<1>1. r0 \in Traveller /\ r0.pos[c] = x[c]
  BY DEF Traveller, Position
<1> HIDE DEF r0
<1>2. r1 \in Traveller /\ (c = 2 => r1.pos[c] = y) /\ (c # 2 => r1.pos[c] = x[c])
  BY <1>1, Folding DEF Coord
<1> HIDE DEF r1
<1>3. r2 \in Traveller /\ (c \in {1, 2} => r2.pos[c] = y) /\ (c = 0 => r2.pos[c] = x[c])
  BY <1>2, Folding DEF Coord
<1> HIDE DEF r2
<1>4. Fold(0, r2).pos[c] = y
  BY <1>3, Folding DEF Coord
<1>5. Newcomer(p, x).pos[c] = y
  BY <1>4 DEF Newcomer, r0, r1, r2
<1>6. x[c] \in Int /\ l \in Nat /\ l > 0 /\ BoxL(c) \in Nat /\ GridSize[c] \in Nat /\ GridSize[c] > 0
  BY Sizes DEF Position
<1>7. 0 <= y /\ y \in Int /\ (0 <= x[c] => y = x[c])
  BY <1>6, FoldedIn
<1> DEFINE i == Truncate(x[c], l)
<1>8. NodeClipped(x)[c] = IF i < 0 THEN 0 ELSE IF i >= GridSize[c] THEN GridSize[c] - 1 ELSE i
  BY DEF NodeClipped
<1> HIDE DEF y, l, i
<1>9. CASE x[c] < 0
  <2>1. -x[c] \in Int /\ (-x[c]) \div l >= 0
    BY <1>6, <1>9
  <2>2. i \in Int /\ i <= 0
    BY <1>6, <1>9, <2>1 DEF i, Truncate
  <2>3. NodeClipped(x)[c] = 0
    BY <1>6, <1>8, <2>2
  <2>4. MyLeft(NodeClipped(x), c) = 0
    BY <1>6, <2>3 DEF MyLeft, l
  <2> QED BY <1>5, <1>7, <2>4
<1>10. CASE x[c] >= 0
  <2>1. i = x[c] \div l /\ i \in Int /\ i * l <= x[c]
    BY <1>6, <1>10, Division DEF i, Truncate
  <2>2. i >= 0
    BY <1>6, <1>10, <2>1
  <2>3. CASE i < GridSize[c]
    <3>1. MyLeft(NodeClipped(x), c) = i * l
      BY <1>6, <1>8, <2>1, <2>2, <2>3 DEF MyLeft, l
    <3> QED BY <1>5, <1>7, <1>10, <2>1, <3>1
  <2>4. CASE i >= GridSize[c]
    <3>1. i * l >= GridSize[c] * l
      <4>1. (i - GridSize[c]) * l >= 0
        BY <1>6, <2>1, <2>4
      <4>2. (i - GridSize[c]) * l = i * l - GridSize[c] * l
        BY <1>6, <2>1
      <4>3. i * l \in Int /\ GridSize[c] * l \in Int
        BY <1>6, <2>1
      <4> QED BY <4>1, <4>2, <4>3
    <3>2. BoxL(c) = GridSize[c] * l
      BY DEF BoxL, l
    <3>3. i * l \in Int
      BY <1>6, <2>1
    <3> QED BY <1>6, <2>1, <3>1, <3>2, <3>3
  <2> QED BY <1>6, <2>1, <2>3, <2>4
<1> QED
  BY <1>6, <1>9, <1>10

-----------------------------------------------------------------------------
(* Steps of the operations and of a round, for the rest of the invariant.  *)

\* In an empty storage everybody is at home.
LEMMA InitHome == Init => Checked /\ Bounded /\ AllSettled
  BY DEF Init, Checked, Bounded, AllSettled

\* Outside decompose() no node has sent anything, nor at the start of a round.
LEMMA NotSent ==
  ASSUME NEW n \in Node, NEW c \in Coord
  PROVE  /\ pc[n] = "idle" => ~Sent(n, c)
         /\ pc[n] = "scan" /\ coord[n] = 0 => ~Sent(n, c)
  BY DEF Sent, Coord

\* Operations between two decompositions end freshness and keep particles
\* within reach of their nodes.
LEMMA OperationHome ==
  ASSUME PInv, PInv', Rounds, Checked, ShortMoves => Bounded,
         \/ \E l \in Lists : AddParticles(l)
         \/ \E n \in Node : \E r \in store[n], x \in MovePositions :
              Integrate(n, r, x) \/ ModifyParticle(n, r, x)
  PROVE  Checked' /\ (ShortMoves => Bounded' /\ AllSettled')
<1>1. Types /\ Types'
  BY DEF PInv
<1>2. fresh' = FALSE /\ Idle /\ net' = net /\ pc' = pc /\ coord' = coord
  BY DEF AddParticles, Integrate, ModifyParticle, Replace
<1>3. net = {}
  BY <1>1, <1>2, NothingUnderWay
<1>4. \A n \in Node, c \in Coord : ~Sent(n, c)'
  BY <1>2 DEF Idle, Sent
<1>5. 2 \in Coord
  BY DEF Coord
<1>6. Checked' /\ AllSettled'
  BY <1>2, <1>4, <1>5 DEF Checked, AllSettled
<1>7. ASSUME ShortMoves PROVE Bounded'
  <2> SUFFICES ASSUME NEW n \in Node, NEW s \in store'[n], NEW c \in Coord
               PROVE  s.pos[c] >= MyLeft(n, c) - LocalSize(c)
    BY <1>2, <1>3, <1>4 DEF Bounded, Reached, MyLeft, LocalSize
  <2>1. s \in store[n] => s.pos[c] >= MyLeft(n, c) - LocalSize(c)
    BY <1>7 DEF Bounded, Reached
  <2>2. CASE \E l \in Lists : AddParticles(l)
    <3>1. PICK l \in Lists : AddParticles(l)
      BY <2>2
    <3>2. store'[n] = IF Skips(n, l) THEN store[n]
                      ELSE store[n] \cup UNION {Added(n, p, l[p]) : p \in DOMAIN l}
      BY <3>1 DEF AddParticles
    <3>3. CASE s \notin store[n]
      <4>1. PICK p \in DOMAIN l : s \in Added(n, p, l[p])
        BY <3>2, <3>3
      <4>2. p \in Particle /\ l[p] \in AddPositions /\ l[p] \in Position
        BY OperationAssumption DEF Lists
      <4>3. NodeClipped(l[p]) = n /\ Newcomer(p, l[p]) \in Traveller
            /\ s = Place(Newcomer(p, l[p]), CellClipped(n, Newcomer(p, l[p]).pos))
        BY <4>1, <4>2, Adding
      <4>4. s.pos = Newcomer(p, l[p]).pos
        BY <4>3, Placing
      <4>5. s.pos[c] >= MyLeft(n, c)
        BY <1>7, <4>2, <4>3, <4>4, AddedAt DEF ShortMoves
      <4>6. s.pos[c] \in Int /\ MyLeft(n, c) \in Int /\ LocalSize(c) \in Nat
        BY <1>1, Borders, Sizes DEF Types, Resident, Position
      <4> QED BY <4>5, <4>6
    <3> QED BY <2>1, <3>3
  <2>3. CASE \E k \in Node : \E r \in store[k], x \in MovePositions :
               Integrate(k, r, x) \/ ModifyParticle(k, r, x)
    <3>0. PICK k \in Node : \E r \in store[k], x \in MovePositions : Integrate(k, r, x) \/ ModifyParticle(k, r, x)
      BY <2>3
    <3>1. PICK r \in store[k], x \in MovePositions : Integrate(k, r, x) \/ ModifyParticle(k, r, x)
      BY <3>0
    <3>2. r \in Resident
      BY <1>1 DEF Types
    <3>3. PICK new : new.pos = x /\ Replace(k, r, new)
      <4> DEFINE moved == [r EXCEPT !.pos = x]
                 set   == [r EXCEPT !.pos = x, !.img = [d \in Coord |-> 0]]
      <4>1. moved.pos = x /\ set.pos = x
        BY <3>2 DEF Resident
      <4>2. Replace(k, r, moved) \/ Replace(k, r, set)
        BY <3>1 DEF Integrate, ModifyParticle
      <4> HIDE DEF moved, set
      <4> QED BY <4>1, <4>2
    <3>4. CASE s \notin store[n]
      <4>1. n = k /\ s = new
        BY <1>1, <3>3, <3>4 DEF Replace, Types
      <4>2. s.pos[c] >= MyLeft(n, c) - MaxLeftMove
        BY <3>3, <4>1 DEF Replace, InReach
      <4>3. s.pos[c] \in Int /\ MyLeft(n, c) \in Int /\ LocalSize(c) \in Nat /\ MaxLeftMove <= LocalSize(c)
        BY <1>1, <1>7, Borders, Sizes DEF Types, Resident, Position, ShortMoves
      <4> QED BY <4>2, <4>3, OperationAssumption
    <3> QED BY <2>1, <3>4
  <2> QED BY <2>2, <2>3
<1> QED
  BY <1>6, <1>7

\* The start of a decomposition, and the joint end of a round: if every node
\* is finished, every particle is at home.
LEMMA RoundHome ==
  ASSUME PInv, PInv', Rounds, Checked, ShortMoves => Bounded /\ AllSettled, Begin \/ AllReduce
  PROVE  Checked' /\ (ShortMoves => Bounded' /\ AllSettled')
<1>1. Types /\ Types'
  BY DEF PInv
<1>2. net = {} /\ net' = {} /\ store' = store
  BY <1>1, NothingUnderWay DEF Begin, AllReduce
<1>3. \A n \in Node : pc'[n] \in {"idle", "scan"} /\ coord'[n] = 0
  BY DEF Begin, AllReduce
<1>4. \A n \in Node, c \in Coord : ~Sent(n, c)'
  BY <1>3 DEF Sent, Coord
<1>5. 2 \in Coord
  BY DEF Coord
<1>6. Checked'
  BY <1>4, <1>5 DEF Checked
<1>7. ASSUME ShortMoves PROVE Bounded'
  <2> SUFFICES ASSUME NEW n \in Node, NEW s \in store[n], NEW c \in Coord
               PROVE  s.pos[c] >= MyLeft(n, c) - LocalSize(c)
    BY <1>2, <1>4 DEF Bounded, Reached, MyLeft, LocalSize
  <2> QED BY <1>7 DEF Bounded, Reached
<1>8. ASSUME ShortMoves, fresh' PROVE \A n \in Node : \A r \in store[n] : Settled(n, r)
  <2>1. CASE Begin
    BY <1>8, <2>1 DEF Begin, AllSettled
  <2>2. CASE AllReduce
    <3>1. \A n \in Node : pc[n] = "reduce" /\ finished[n]
      BY <1>8, <2>2 DEF AllReduce
    <3> SUFFICES ASSUME NEW n \in Node, NEW r \in store[n] PROVE Settled(n, r)
      OBVIOUS
    <3>2. \A c \in Coord : Sent(n, c)
      BY <3>1 DEF Sent
    <3>3. ~Outside(n, r.pos) /\ r.cell = CellClipped(n, r.pos)
      BY <1>5, <3>1, <3>2 DEF Checked
    <3>4. \A c \in Coord : r.pos[c] >= MyLeft(n, c) /\ (GridSize[c] = 1 => r.pos[c] < BoxL(c))
      BY <1>8, <3>2 DEF Bounded, Reached
    <3>5. r.pos \in Position
      BY <1>1 DEF Types, Resident
    <3>6. InDomain(n, r.pos)
      BY <3>3, <3>4, <3>5, NotOutside
    <3>7. r.cell = HomeCell(n, r.pos)
      BY <3>3, <3>5, <3>6, HomeIsFound
    <3> QED BY <3>4, <3>6, <3>7 DEF Settled
  <2> QED BY <2>1, <2>2
<1>9. ShortMoves => AllSettled'
  <2> SUFFICES ASSUME ShortMoves, fresh' PROVE AllSettled'
    BY DEF AllSettled
  <2>1. \A n \in Node : \A r \in store'[n] : Settled(n, r)
    BY <1>2, <1>8
  <2> QED BY <1>2, <2>1 DEF AllSettled, Settled, InDomain, HomeCell, MyLeft, MyRight, LocalSize, BoxL
<1> QED
  BY <1>6, <1>7, <1>9

\* What is known of a particle depends on the node and the position only.
LEMMA SettledAt ==
  ASSUME NEW n \in Node, NEW r, NEW s, Settled(n, r),
         s.pos = r.pos, s.cell \in {r.cell, CellClipped(n, r.pos)}, r.pos \in Position
  PROVE  Settled(n, s)
<1>1. InDomain(n, r.pos) /\ r.cell = HomeCell(n, r.pos)
  BY DEF Settled
<1>2. CellClipped(n, r.pos) = HomeCell(n, r.pos)
  BY <1>1, HomeIsFound
<1> QED
  BY <1>1, <1>2 DEF Settled

\* Sending along a coordinate: who stays is not left of the domain, who goes
\* will not be left of the neighbour's.
LEMMA ScanHome ==
  ASSUME PInv, PInv', Rounds, Checked, ShortMoves => Bounded /\ AllSettled, NEW n \in Node, Scan(n)
  PROVE  Checked' /\ (ShortMoves => Bounded' /\ AllSettled')
<1> DEFINE c == coord[n]
           L == {r \in store[n] : GoesLeft(n, c, r)}
           R == {r \in store[n] : GoesRight(n, c, r)}
           stay == store[n] \ (L \cup R)
           G(r) == IF c = 2 THEN Sorted(n, r) ELSE r
           a == [dst |-> NodeNeighbor(n, c, Left),  coord |-> c, dir |-> Left,
                 parts |-> {Strip(r) : r \in L}]
           b == [dst |-> NodeNeighbor(n, c, Right), coord |-> c, dir |-> Right,
                 parts |-> {Strip(r) : r \in R}]
<1>1. Types /\ c \in Coord /\ \A k \in Node : coord[k] \in Int
  BY DEF PInv, Types, Coord
<1>2. \A k \in Node : \A r \in store[k] : r \in Resident /\ r.pos \in Position
  BY <1>1 DEF Types, Resident
<1>3. /\ net' = net \cup {a, b} /\ pc[n] = "scan" /\ GridSize[c] > 1
      /\ pc' = [pc EXCEPT ![n] = "recv"] /\ coord' = coord /\ fresh' = fresh
  BY DEF Scan
<1>4. store'[n] = {G(r) : r \in stay} /\ \A k \in Node \ {n} : store'[k] = store[k]
  BY <1>1 DEF Scan, Types
<1>5. /\ finished'[n] = (finished[n] /\ ~(c = 2 /\ \E r \in stay : Outside(n, r.pos)))
      /\ \A k \in Node \ {n} : finished'[k] = finished[k]
  BY <1>1 DEF Scan, Types
<1>6. ASSUME NEW r \in stay
      PROVE  /\ G(r).pos = r.pos /\ G(r).cell \in {r.cell, CellClipped(n, r.pos)}
             /\ c = 2 /\ ~Outside(n, r.pos) => G(r).cell = CellClipped(n, r.pos)
  BY <1>2, Placing DEF Sorted
<1>7. pc'[n] = "recv" /\ \A k \in Node \ {n} : pc'[k] = pc[k]
  BY <1>1, <1>3 DEF Types
<1>8. \A k \in Node, d \in Coord : Sent(k, d)' <=> Sent(k, d) \/ (k = n /\ d = c)
  BY <1>1, <1>3, <1>7 DEF Sent, Coord
<1> HIDE DEF G
<1>9. Checked'
  <2> SUFFICES ASSUME NEW k \in Node, Sent(k, 2)', finished'[k], NEW s \in store'[k]
               PROVE  ~Outside(k, s.pos) /\ s.cell = CellClipped(k, s.pos)
    BY DEF Checked, Outside, OutsideIn, CellClipped, Clip, RawCell, Truncate, MyLeft, MyRight, LocalSize, Frame
  <2>1. 2 \in Coord
    BY DEF Coord
  <2>2. CASE k # n
    BY <1>4, <1>5, <1>8, <2>1, <2>2 DEF Checked
  <2>3. CASE k = n
    <3>1. c = 2
      BY <1>1, <1>3, <1>8, <2>1, <2>3 DEF Sent, Coord
    <3>2. PICK r \in stay : s = G(r)
      BY <1>4, <2>3
    <3>3. ~Outside(n, r.pos)
      BY <1>5, <2>3, <3>1
    <3> QED BY <1>6, <2>3, <3>1, <3>2, <3>3
  <2> QED BY <2>2, <2>3
<1>10. ASSUME ShortMoves PROVE Bounded'
  <2>1. ASSUME NEW k \in Node, NEW s \in store'[k], NEW d \in Coord
        PROVE  Reached(k, d, s.pos[d], Sent(k, d)')
    <3>1. CASE k # n
      BY <1>4, <1>8, <1>10, <3>1 DEF Bounded, Reached
    <3>2. CASE k = n
      <4>1. PICK r \in stay : s = G(r)
        BY <1>4, <3>2
      <4>2. s.pos = r.pos /\ Reached(n, d, r.pos[d], Sent(n, d))
        BY <1>6, <1>10, <4>1 DEF Bounded
      <4>3. r.pos[c] >= MyLeft(n, c)
        <5>1. r.pos[c] \in Int /\ MyLeft(n, c) \in Int
          BY <1>1, <1>2, Borders DEF Position
        <5> QED BY <5>1 DEF GoesLeft
      <4> QED BY <1>3, <1>8, <3>2, <4>2, <4>3 DEF Reached
    <3> QED BY <3>1, <3>2
  <2>2. ASSUME NEW m \in {a, b}, NEW s \in m.parts, NEW d \in Coord
        PROVE  Reached(m.dst, d, Unpacked(m.dst, m.coord, Opposite(m.dir), s).pos[d], d <= m.coord)
    <3>1. PICK q \in store[n] : /\ s = Strip(q)
                                /\ \/ m = a /\ GoesLeft(n, c, q)
                                   \/ m = b /\ GoesRight(n, c, q)
      BY <2>2
    <3>2. s \in Traveller /\ s.pos = q.pos /\ q.pos[c] \in Int /\ q.pos[d] \in Int
      BY <1>1, <1>2, <3>1, Packing DEF Position
    <3>3. /\ m.dir \in {Left, Right} /\ m.coord = c /\ m.dst = NodeNeighbor(n, c, m.dir)
          /\ m.dir = Left => GoesLeft(n, c, q)
          /\ m.dir = Right => GoesRight(n, c, q)
      BY <3>1 DEF Left, Right
    <3>4. Reached(n, d, q.pos[d], Sent(n, d)) /\ Reached(n, c, q.pos[c], Sent(n, c))
      BY <1>1, <1>10 DEF Bounded
    <3>5. m.dst \in Node /\ \A e \in Coord \ {c} : MyLeft(m.dst, e) = MyLeft(n, e)
      BY <1>1, <3>3, Beside
    <3>6. CASE d # c
      <4>1. Unpacked(m.dst, c, Opposite(m.dir), s).pos[d] = q.pos[d]
        BY <1>1, <3>2, <3>5, <3>6, UnpackedAt
      <4>2. d <= c => Sent(n, d)
        BY <1>1, <1>3, <3>6 DEF Sent, Coord
      <4> QED BY <3>3, <3>4, <3>5, <3>6, <4>1, <4>2 DEF Reached
    <3>7. CASE d = c
      <4>1. Unpacked(m.dst, c, Opposite(m.dir), s).pos[c] >= MyLeft(m.dst, c)
        <5>1. m.dir = Left => s.pos[c] < MyLeft(n, c) /\ s.pos[c] >= MyLeft(n, c) - LocalSize(c)
          BY <3>2, <3>3, <3>4 DEF GoesLeft, Reached
        <5>2. m.dir = Right => s.pos[c] > MyRight(n, c)
          BY <3>2, <3>3 DEF GoesRight
        <5> QED BY <1>1, <3>2, <3>3, <5>1, <5>2, Crossing
      <4>2. Unpacked(m.dst, c, Opposite(m.dir), s).pos[c] \in Int
        BY <1>1, <3>2, <3>5, UnpackedAt DEF Position
      <4>3. MyLeft(m.dst, c) \in Int /\ LocalSize(c) \in Nat
        BY <1>1, <3>5, Borders, Sizes
      <4> QED BY <1>3, <3>3, <3>7, <4>1, <4>2, <4>3 DEF Reached
    <3> QED BY <3>6, <3>7
  <2> HIDE DEF a, b
  <2>3. ASSUME NEW m \in net', NEW s \in m.parts, NEW d \in Coord
        PROVE  Reached(m.dst, d, Unpacked(m.dst, m.coord, Opposite(m.dir), s).pos[d], d <= m.coord)
    BY <1>3, <1>10, <2>2 DEF Bounded
  <2> QED BY <2>1, <2>3 DEF Bounded
<1>11. ASSUME ShortMoves, fresh PROVE AllSettled'
  <2>1. \A k \in Node : \A r \in store[k] : Settled(k, r)
    BY <1>11 DEF AllSettled
  <2>2. L = {} /\ R = {}
    <3> SUFFICES ASSUME NEW r \in store[n] PROVE ~GoesLeft(n, c, r) /\ ~GoesRight(n, c, r)
      OBVIOUS
    <3>1. /\ MyLeft(n, c) <= r.pos[c] /\ r.pos[c] <= MyRight(n, c)
          /\ r.pos[c] \in Int /\ MyLeft(n, c) \in Int /\ MyRight(n, c) \in Int
      BY <1>1, <1>2, <2>1, Borders, Sizes DEF Settled, InDomain, Position
    <3> QED BY <3>1 DEF GoesLeft, GoesRight
  <2>3. a.parts = {} /\ b.parts = {}
    BY <2>2
  <2>4. \A m \in net' : m.parts = {}
    BY <1>3, <1>11, <2>3 DEF AllSettled
  <2>5. ASSUME NEW k \in Node, NEW s \in store'[k] PROVE Settled(k, s)
    <3>1. CASE k # n
      BY <1>4, <2>1, <3>1
    <3>2. CASE k = n
      <4>1. PICK r \in stay : s = G(r)
        BY <1>4, <3>2
      <4> QED BY <1>2, <1>6, <2>1, <3>2, <4>1, SettledAt
    <3> QED BY <3>1, <3>2
  <2> QED BY <2>4, <2>5 DEF AllSettled, Settled, InDomain, HomeCell, MyLeft, MyRight, LocalSize, BoxL
<1>12. ASSUME ~fresh PROVE AllSettled'
  BY <1>3, <1>12 DEF AllSettled
<1> QED
  BY <1>9, <1>10, <1>11, <1>12

\* Receiving: what comes in along the last coordinate is checked, and what
\* comes in is within the bounds that the buffer promised.
LEMMA AppendHome ==
  ASSUME PInv, PInv', Rounds, Checked, ShortMoves => Bounded /\ AllSettled, NEW n \in Node, Append(n)
  PROVE  Checked' /\ (ShortMoves => Bounded' /\ AllSettled')
<1> DEFINE c == coord[n]
<1>1. Types /\ c \in Coord /\ \A k \in Node : coord[k] \in Int
  BY DEF PInv, Types, Coord
<1>2. PICK ml \in net, mr \in net :
        /\ pc[n] = "recv"
        /\ ml.dst = n /\ ml.coord = c /\ ml.dir = Right
        /\ mr.dst = n /\ mr.coord = c /\ mr.dir = Left
        /\ store' = [store EXCEPT ![n] = @ \cup (Arrived(n, c, Left, ml.parts) \cup Arrived(n, c, Right, mr.parts))]
        /\ finished' = [finished EXCEPT ![n] =
             @ /\ ~(c = 2 /\ \E r \in Arrived(n, c, Left, ml.parts) \cup Arrived(n, c, Right, mr.parts) : Outside(n, r.pos))]
        /\ net' = net \ {ml, mr}
        /\ Advance(n)
        /\ fresh' = fresh
  BY DEF Append
<1> DEFINE new == Arrived(n, c, Left, ml.parts) \cup Arrived(n, c, Right, mr.parts)
<1>3. ml \in Message /\ mr \in Message
  BY <1>1 DEF Types
<1>4. /\ Arrived(n, c, Left, ml.parts) = {Unpacked(n, c, Left, r) : r \in ml.parts}
      /\ Arrived(n, c, Right, mr.parts) = {Unpacked(n, c, Right, r) : r \in mr.parts}
  BY DEF Arrived, Unpacked
<1>5. ASSUME NEW s \in new
      PROVE  \E m \in {ml, mr} : \E r \in m.parts : s = Unpacked(n, c, Opposite(m.dir), r) /\ r \in Traveller
  BY <1>2, <1>3, <1>4 DEF Opposite, Left, Right, Message
<1>6. ml.parts = {} /\ mr.parts = {} => new = {}
  BY <1>4
<1> HIDE DEF new
<1>7. store'[n] = store[n] \cup new /\ \A k \in Node \ {n} : store'[k] = store[k]
  BY <1>1, <1>2 DEF Types, new
<1>8. /\ finished'[n] = (finished[n] /\ ~(c = 2 /\ \E r \in new : Outside(n, r.pos)))
      /\ \A k \in Node \ {n} : finished'[k] = finished[k]
  BY <1>1, <1>2 DEF Types, new
<1>9. /\ pc'[n] = (IF c = 2 THEN "reduce" ELSE "scan")
      /\ coord'[n] = (IF c = 2 THEN c ELSE c + 1)
      /\ \A k \in Node \ {n} : pc'[k] = pc[k] /\ coord'[k] = coord[k]
  BY <1>1, <1>2 DEF Advance, Types
<1>10. \A k \in Node, d \in Coord : Sent(k, d)' <=> Sent(k, d)
  BY <1>1, <1>2, <1>9 DEF Sent, Coord
<1>11. \A d \in Coord : Sent(n, d) <=> d <= c
  BY <1>1, <1>2 DEF Sent, Coord
<1>12. Checked'
  <2> SUFFICES ASSUME NEW k \in Node, Sent(k, 2)', finished'[k], NEW s \in store'[k]
               PROVE  ~Outside(k, s.pos) /\ s.cell = CellClipped(k, s.pos)
    BY DEF Checked, Outside, OutsideIn, CellClipped, Clip, RawCell, Truncate, MyLeft, MyRight, LocalSize, Frame
  <2>1. 2 \in Coord
    BY DEF Coord
  <2>2. CASE s \in store[k]
    BY <1>8, <1>10, <2>1, <2>2 DEF Checked
  <2>3. CASE s \notin store[k]
    <3>1. k = n /\ s \in new
      BY <1>7, <2>3
    <3>2. c = 2
      BY <1>1, <1>10, <1>11, <2>1, <3>1 DEF Coord
    <3>3. ~Outside(n, s.pos)
      BY <1>8, <3>1, <3>2
    <3>4. s.cell = CellClipped(n, s.pos)
      BY <1>1, <1>5, <3>1, UnpackedAt
    <3> QED BY <3>1, <3>3, <3>4
  <2> QED BY <2>2, <2>3
<1>13. ASSUME ShortMoves PROVE Bounded'
  <2>1. ASSUME NEW k \in Node, NEW s \in store'[k], NEW d \in Coord
        PROVE  Reached(k, d, s.pos[d], Sent(k, d)')
    <3>1. CASE s \in store[k]
      BY <1>10, <1>13, <3>1 DEF Bounded, Reached
    <3>2. CASE s \notin store[k]
      <4>1. k = n /\ s \in new
        BY <1>7, <3>2
      <4>2. PICK m \in {ml, mr} : \E r \in m.parts : s = Unpacked(n, c, Opposite(m.dir), r)
        BY <1>5, <4>1
      <4>3. PICK r \in m.parts : s = Unpacked(n, c, Opposite(m.dir), r)
        BY <4>2
      <4>4. Reached(n, d, s.pos[d], d <= c)
        BY <1>2, <1>13, <4>3 DEF Bounded
      <4> QED BY <1>10, <1>11, <4>1, <4>4 DEF Reached
    <3> QED BY <3>1, <3>2
  <2>2. ASSUME NEW m \in net', NEW s \in m.parts, NEW d \in Coord
        PROVE  Reached(m.dst, d, Unpacked(m.dst, m.coord, Opposite(m.dir), s).pos[d], d <= m.coord)
    BY <1>2, <1>13 DEF Bounded
  <2> QED BY <2>1, <2>2 DEF Bounded
<1>14. ASSUME ShortMoves, fresh PROVE AllSettled'
  <2>1. /\ \A k \in Node : \A r \in store[k] : Settled(k, r)
        /\ \A m \in net : m.parts = {}
    BY <1>14 DEF AllSettled
  <2>2. new = {} /\ \A k \in Node : store'[k] = store[k]
    BY <1>6, <1>7, <2>1
  <2>3. \A m \in net' : m.parts = {}
    BY <1>2, <2>1
  <2>4. \A k \in Node : \A s \in store'[k] : Settled(k, s)
    BY <2>1, <2>2
  <2> QED BY <2>3, <2>4 DEF AllSettled, Settled, InDomain, HomeCell, MyLeft, MyRight, LocalSize, BoxL
<1>15. ASSUME ~fresh PROVE AllSettled'
  BY <1>2, <1>15 DEF AllSettled
<1> QED
  BY <1>12, <1>13, <1>14, <1>15

\* Folding along a coordinate with one node puts the particles into the box.
LEMMA FoldHome ==
  ASSUME PInv, PInv', Rounds, Checked, ShortMoves => Bounded /\ AllSettled, NEW n \in Node, FoldLocal(n)
  PROVE  Checked' /\ (ShortMoves => Bounded' /\ AllSettled')
<1> DEFINE c == coord[n]
           folded == {Fold(c, r) : r \in store[n]}
           G(r) == IF c = 2 THEN Sorted(n, Fold(c, r)) ELSE Fold(c, r)
<1>1. Types /\ c \in Coord /\ \A k \in Node : coord[k] \in Int
  BY DEF PInv, Types, Coord
<1>2. \A k \in Node : \A r \in store[k] : r \in Resident /\ r.pos \in Position
  BY <1>1 DEF Types, Resident
<1>3. /\ net' = net /\ pc[n] = "scan" /\ GridSize[c] = 1 /\ Advance(n) /\ fresh' = fresh
  BY DEF FoldLocal
<1>4. store'[n] = {G(r) : r \in store[n]} /\ \A k \in Node \ {n} : store'[k] = store[k]
  <2>1. (IF c = 2 THEN {Sorted(n, r) : r \in folded} ELSE folded) = {G(r) : r \in store[n]}
    OBVIOUS
  <2>2. store' = [store EXCEPT ![n] = IF c = 2 THEN {Sorted(n, r) : r \in folded} ELSE folded]
    BY DEF FoldLocal
  <2> HIDE DEF G, folded
  <2> QED BY <1>1, <2>1, <2>2 DEF Types
<1>5. /\ finished'[n] = (finished[n] /\ ~(c = 2 /\ \E r \in folded : Outside(n, r.pos)))
      /\ \A k \in Node \ {n} : finished'[k] = finished[k]
  BY <1>1 DEF FoldLocal, Types
<1>6. ASSUME NEW r \in store[n]
      PROVE  /\ G(r).pos = Fold(c, r).pos
             /\ G(r).cell \in {r.cell, CellClipped(n, Fold(c, r).pos)}
             /\ c = 2 /\ ~Outside(n, Fold(c, r).pos) => G(r).cell = CellClipped(n, Fold(c, r).pos)
             /\ Fold(c, r).pos \in Position
             /\ \A d \in Coord \ {c} : Fold(c, r).pos[d] = r.pos[d]
             /\ Fold(c, r).pos[c] = r.pos[c] - BoxOf(c, r.pos[c]) * BoxL(c)
  <2>1. /\ Fold(c, r) \in Resident /\ Fold(c, r).cell = r.cell
        /\ \A d \in Coord \ {c} : Fold(c, r).pos[d] = r.pos[d]
        /\ Fold(c, r).pos[c] = r.pos[c] - BoxOf(c, r.pos[c]) * BoxL(c)
    BY <1>1, <1>2, Folding
  <2>2. Fold(c, r).pos \in Position
    BY <2>1 DEF Resident
  <2> QED BY <2>1, <2>2, Placing DEF Sorted
<1>7. /\ pc'[n] = (IF c = 2 THEN "reduce" ELSE "scan")
      /\ coord'[n] = (IF c = 2 THEN c ELSE c + 1)
      /\ \A k \in Node \ {n} : pc'[k] = pc[k] /\ coord'[k] = coord[k]
  BY <1>1, <1>3 DEF Advance, Types
<1>8. \A k \in Node, d \in Coord : Sent(k, d)' <=> Sent(k, d) \/ (k = n /\ d = c)
  BY <1>1, <1>3, <1>7 DEF Sent, Coord
<1> HIDE DEF G
<1>9. Checked'
  <2> SUFFICES ASSUME NEW k \in Node, Sent(k, 2)', finished'[k], NEW s \in store'[k]
               PROVE  ~Outside(k, s.pos) /\ s.cell = CellClipped(k, s.pos)
    BY DEF Checked, Outside, OutsideIn, CellClipped, Clip, RawCell, Truncate, MyLeft, MyRight, LocalSize, Frame
  <2>1. 2 \in Coord
    BY DEF Coord
  <2>2. CASE k # n
    BY <1>4, <1>5, <1>8, <2>1, <2>2 DEF Checked
  <2>3. CASE k = n
    <3>1. c = 2
      BY <1>1, <1>3, <1>8, <2>1, <2>3 DEF Sent, Coord
    <3>2. PICK r \in store[n] : s = G(r)
      BY <1>4, <2>3
    <3>3. ~Outside(n, Fold(c, r).pos)
      BY <1>5, <2>3, <3>1
    <3> QED BY <1>6, <2>3, <3>1, <3>2, <3>3
  <2> QED BY <2>2, <2>3
<1>10. ASSUME ShortMoves PROVE Bounded'
  <2>1. ASSUME NEW k \in Node, NEW s \in store'[k], NEW d \in Coord
        PROVE  Reached(k, d, s.pos[d], Sent(k, d)')
    <3>1. CASE k # n
      BY <1>4, <1>8, <1>10, <3>1 DEF Bounded, Reached
    <3>2. CASE k = n
      <4>1. PICK r \in store[n] : s = G(r)
        BY <1>4, <3>2
      <4>2. Reached(n, d, r.pos[d], Sent(n, d))
        BY <1>10 DEF Bounded
      <4>3. CASE d # c
        BY <1>6, <1>8, <3>2, <4>1, <4>2, <4>3 DEF Reached
      <4>4. CASE d = c
        <5>1. s.pos[c] = r.pos[c] - BoxOf(c, r.pos[c]) * BoxL(c) /\ r.pos[c] \in Int
          BY <1>1, <1>2, <1>6, <4>1 DEF Position
        <5>2. 0 <= s.pos[c] /\ s.pos[c] < BoxL(c)
          BY <1>1, <5>1, FoldedIn
        <5>3. MyLeft(n, c) = 0 /\ LocalSize(c) \in Nat
          BY <1>1, <1>3, Borders, Sizes DEF MyLeft
        <5>4. s.pos[c] \in Int
          BY <1>1, <1>6, <4>1 DEF Position
        <5> QED BY <3>2, <4>4, <5>2, <5>3, <5>4 DEF Reached
      <4> QED BY <4>3, <4>4
    <3> QED BY <3>1, <3>2
  <2>2. ASSUME NEW m \in net', NEW s \in m.parts, NEW d \in Coord
        PROVE  Reached(m.dst, d, Unpacked(m.dst, m.coord, Opposite(m.dir), s).pos[d], d <= m.coord)
    BY <1>3, <1>10 DEF Bounded
  <2> QED BY <2>1, <2>2 DEF Bounded
<1>11. ASSUME ShortMoves, fresh PROVE AllSettled'
  <2>1. \A k \in Node : \A r \in store[k] : Settled(k, r)
    BY <1>11 DEF AllSettled
  <2>2. \A m \in net' : m.parts = {}
    BY <1>3, <1>11 DEF AllSettled
  <2>3. ASSUME NEW k \in Node, NEW s \in store'[k] PROVE Settled(k, s)
    <3>1. CASE k # n
      BY <1>4, <2>1, <3>1
    <3>2. CASE k = n
      <4>1. PICK r \in store[n] : s = G(r)
        BY <1>4, <3>2
      <4>2. r.pos \in Position /\ r.pos[c] \in Int /\ Settled(n, r)
        BY <1>1, <1>2, <2>1 DEF Position
      <4>3. MyLeft(n, c) <= r.pos[c] /\ r.pos[c] < BoxL(c) /\ MyLeft(n, c) \in Nat
        BY <1>1, <1>3, <4>2, Borders DEF Settled, InDomain
      <4>4. BoxOf(c, r.pos[c]) = 0
        BY <1>1, <4>2, <4>3, FoldedIn
      <4>5. Fold(c, r).pos[c] = r.pos[c]
        BY <1>1, <1>6, <4>2, <4>4, Sizes
      <4>6. Fold(c, r).pos = r.pos
        BY <1>1, <1>6, <4>2, <4>5 DEF Position
      <4> QED BY <1>6, <3>2, <4>1, <4>2, <4>6, SettledAt
    <3> QED BY <3>1, <3>2
  <2> QED BY <2>2, <2>3 DEF AllSettled, Settled, InDomain, HomeCell, MyLeft, MyRight, LocalSize, BoxL
<1>12. ASSUME ~fresh PROVE AllSettled'
  BY <1>3, <1>12 DEF AllSettled
<1> QED
  BY <1>9, <1>10, <1>11, <1>12

\* In every reachable state the exchange is where the invariant says.
THEOREM HomeInvariant == Spec => []HInv
<1>1. Init => HInv
  BY InitPInv, InitRounds, InitHome DEF HInv
<1>2. HInv /\ [Next]_vars => HInv'
  <2> SUFFICES ASSUME HInv, [Next]_vars PROVE HInv'
    OBVIOUS
  <2>1. PInv /\ PInv' /\ Rounds /\ Rounds' /\ Checked /\ (ShortMoves => Bounded /\ AllSettled)
    BY StepPInv, StepRounds DEF HInv
  <2>2. (ShortMoves => Bounded' /\ AllSettled') => (ShortMoves => Bounded /\ AllSettled)'
    BY DEF ShortMoves, LocalSize, BoxL
  <2>3. CASE UNCHANGED vars
    <3>1. \A n \in Node, c \in Coord : Sent(n, c)' <=> Sent(n, c)
      BY <2>3 DEF vars, Sent
    <3>2. Checked'
      <4> SUFFICES ASSUME NEW k \in Node, Sent(k, 2)', finished'[k], NEW s \in store'[k]
                   PROVE  ~Outside(k, s.pos) /\ s.cell = CellClipped(k, s.pos)
        BY DEF Checked, Outside, OutsideIn, CellClipped, Clip, RawCell, Truncate, MyLeft, MyRight, LocalSize, Frame
      <4> QED BY <2>1, <2>3, <3>1 DEF vars, Checked, Coord
    <3>3. Bounded => Bounded'
      BY <2>3 DEF vars, Bounded, Reached, Sent
    <3>4. AllSettled => AllSettled'
      BY <2>3 DEF vars, AllSettled, Settled, InDomain, HomeCell, MyLeft, MyRight, LocalSize, BoxL
    <3> QED BY <2>1, <2>2, <3>2, <3>3, <3>4 DEF HInv
  <2>4. CASE \/ \E l \in Lists : AddParticles(l)
             \/ \E n \in Node : \E r \in store[n], x \in MovePositions :
                  Integrate(n, r, x) \/ ModifyParticle(n, r, x)
    BY <2>1, <2>2, <2>4, OperationHome DEF HInv
  <2>5. CASE Begin \/ AllReduce
    BY <2>1, <2>2, <2>5, RoundHome DEF HInv
  <2>6. CASE \E n \in Node : Scan(n) \/ Append(n) \/ FoldLocal(n)
    BY <2>1, <2>2, <2>6, ScanHome, AppendHome, FoldHome DEF HInv
  <2> QED BY <2>3, <2>4, <2>5, <2>6 DEF Next, Decompose
<1> QED
  BY <1>1, <1>2, PTL DEF Spec

\* decompose() leaves every particle in the box, on the node whose domain it
\* is in and in the cell of its position, if no particle was more than one
\* domain to the left of its node when it began: the loop over rounds does
\* not stop too early.
THEOREM ComesHome ==
  ASSUME ShortMoves
  PROVE  Spec => []AtHome
<1>1. HInv => AtHome
  BY DEF HInv, AllSettled, Settled, AtHome
<1> QED
  BY <1>1, HomeInvariant, PTL

=============================================================================
