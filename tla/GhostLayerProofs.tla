-------------------------- MODULE GhostLayerProofs --------------------------
(***************************************************************************)
(* Proofs about GhostLayer, for every grid of nodes and cells, every set   *)
(* of particles and any number of steps.                                   *)
(***************************************************************************)
EXTENDS GhostLayer, FiniteSetTheorems, SequenceTheorems, WellFoundedInduction, TLAPS

-----------------------------------------------------------------------------
(* Sizes, cells and slabs.                                                 *)

\* The coordinates.
LEMMA Coords == Coord = {0, 1, 2}
  BY DEF Coord

\* Grids and lengths are positive.
LEMMA Sizes ==
  ASSUME NEW c \in Coord
  PROVE  /\ GridSize[c] \in Nat /\ GridSize[c] > 0
         /\ CellGridSize[c] \in Nat /\ CellGridSize[c] > 0
         /\ CellWidth \in Nat /\ CellWidth > 0
  BY GridAssumption, CellGridAssumption

\* A vector of three integers is its components.
LEMMA Vector ==
  ASSUME NEW x \in [Coord -> Int]
  PROVE  x = [c \in Coord |-> IF c = 0 THEN x[0] ELSE IF c = 1 THEN x[1] ELSE x[2]]
  BY Coords

\* A box of cells, by their coordinates.
LEMMA BoxIs ==
  ASSUME NEW X \in SUBSET Int, NEW Y \in SUBSET Int, NEW Z \in SUBSET Int, NEW x
  PROVE  x \in Box(X, Y, Z) <=> x \in [Coord -> Int] /\ x[0] \in X /\ x[1] \in Y /\ x[2] \in Z
<1>1. ASSUME x \in Box(X, Y, Z)
      PROVE  x \in [Coord -> Int] /\ x[0] \in X /\ x[1] \in Y /\ x[2] \in Z
  <2>1. PICK a \in X, b \in Y, e \in Z :
          x = [c \in Coord |-> IF c = 0 THEN a ELSE IF c = 1 THEN b ELSE e]
    BY <1>1 DEF Box
  <2> QED BY <2>1, Coords
<1>2. ASSUME x \in [Coord -> Int], x[0] \in X, x[1] \in Y, x[2] \in Z
      PROVE  x \in Box(X, Y, Z)
  <2>1. x = [c \in Coord |-> IF c = 0 THEN x[0] ELSE IF c = 1 THEN x[1] ELSE x[2]]
    BY <1>2, Vector
  <2>2. \E a \in X, b \in Y, e \in Z :
          x = [c \in Coord |-> IF c = 0 THEN a ELSE IF c = 1 THEN b ELSE e]
    BY <1>2, <2>1, Zenon
  <2> QED BY <2>2 DEF Box
<1> QED BY <1>1, <1>2

\* The ranges of the coordinates.
LEMMA Ranges ==
  ASSUME NEW d \in Coord
  PROVE  /\ Full(d) = 0 .. CellGridSize[d] + 1 /\ Full(d) \subseteq Int
         /\ Inner(d) = 1 .. CellGridSize[d] /\ Inner(d) \subseteq Int
  BY Sizes DEF Full, FrameGridSize, Inner, Frame

\* Cells and inner cells, by their coordinates.
LEMMA CellIs ==
  ASSUME NEW x
  PROVE  x \in Cell <=> x \in [Coord -> Int] /\ \A d \in Coord : x[d] \in 0 .. CellGridSize[d] + 1
<1>1. x \in Cell <=> x \in [Coord -> Int] /\ x[0] \in Full(0) /\ x[1] \in Full(1) /\ x[2] \in Full(2)
  BY Ranges, BoxIs, Coords, Zenon DEF Cell
<1> QED BY <1>1, Ranges, Coords

\* Inner cells, by their coordinates.
LEMMA RealCellIs ==
  ASSUME NEW x
  PROVE  x \in RealCell <=> x \in [Coord -> Int] /\ \A d \in Coord : x[d] \in 1 .. CellGridSize[d]
<1>1. x \in RealCell <=> x \in [Coord -> Int] /\ x[0] \in Inner(0) /\ x[1] \in Inner(1) /\ x[2] \in Inner(2)
  BY Ranges, BoxIs, Coords, Zenon DEF RealCell
<1> QED BY <1>1, Ranges, Coords

\* The cells of a slab: the frame belongs to it for the coordinates before c.
LEMMA SlabIs ==
  ASSUME NEW c \in Coord, NEW range \in SUBSET Int, NEW x
  PROVE  x \in Slab(c, range) <=>
           /\ x \in [Coord -> Int] /\ x[c] \in range
           /\ \A d \in Coord : /\ d < c => x[d] \in 0 .. CellGridSize[d] + 1
                               /\ d > c => x[d] \in 1 .. CellGridSize[d]
<1> DEFINE R(d) == IF d = c THEN range ELSE IF d < c THEN Full(d) ELSE Inner(d)
<1>1. Slab(c, range) = Box(R(0), R(1), R(2))
  BY DEF Slab
<1>2. \A d \in Coord : /\ d = c => R(d) = range
                       /\ d < c => R(d) = 0 .. CellGridSize[d] + 1
                       /\ d > c => R(d) = 1 .. CellGridSize[d]
                       /\ R(d) \subseteq Int
  <2> SUFFICES ASSUME NEW d \in Coord
               PROVE  /\ d = c => R(d) = range
                      /\ d < c => R(d) = 0 .. CellGridSize[d] + 1
                      /\ d > c => R(d) = 1 .. CellGridSize[d]
                      /\ R(d) \subseteq Int
    OBVIOUS
  <2>1. CASE d = c
    BY <2>1 DEF Coord
  <2>2. CASE d < c
    <3>1. R(d) = Full(d) BY <2>2 DEF Coord
    <3> QED BY <2>2, <3>1, Ranges DEF Coord
  <2>3. CASE d > c
    <3>1. R(d) = Inner(d) BY <2>3 DEF Coord
    <3> QED BY <2>3, <3>1, Ranges DEF Coord
  <2> QED BY <2>1, <2>2, <2>3 DEF Coord
<1> HIDE DEF R
<1>3. x \in Slab(c, range) <=> x \in [Coord -> Int] /\ x[0] \in R(0) /\ x[1] \in R(1) /\ x[2] \in R(2)
  BY <1>1, <1>2, BoxIs, Coords
<1>4. (x[0] \in R(0) /\ x[1] \in R(1) /\ x[2] \in R(2)) <=>
        /\ x[c] \in range
        /\ \A d \in Coord : /\ d < c => x[d] \in 0 .. CellGridSize[d] + 1
                            /\ d > c => x[d] \in 1 .. CellGridSize[d]
  <2>1. (x[0] \in R(0) /\ x[1] \in R(1) /\ x[2] \in R(2)) <=> \A d \in Coord : x[d] \in R(d)
    BY Coords, Zenon
  <2>2. \A d \in Coord : d = c \/ d < c \/ d > c
    BY DEF Coord
  <2>3. (\A d \in Coord : x[d] \in R(d)) <=>
          /\ x[c] \in R(c)
          /\ \A d \in Coord : /\ d < c => x[d] \in R(d)
                              /\ d > c => x[d] \in R(d)
    BY <2>2, Zenon
  <2> QED BY <1>2, <2>1, <2>3, Zenon
<1> QED BY <1>3, <1>4

\* The cells a direction reads and the ghost cells it fills.
LEMMA GhostsAre ==
  ASSUME NEW c \in Coord, NEW dir \in {Left, Right}, NEW x
  PROVE  x \in Ghosts(c, dir) <=>
           /\ x \in [Coord -> Int]
           /\ x[c] = IF dir = Left THEN CellGridSize[c] + 1 ELSE 0
           /\ \A d \in Coord : /\ d < c => x[d] \in 0 .. CellGridSize[d] + 1
                               /\ d > c => x[d] \in 1 .. CellGridSize[d]
<1> DEFINE range == IF dir = Left THEN Frame + CellGridSize[c] .. FrameGridSize(c) - 1
                                  ELSE 0 .. Frame - 1
<1>1. range \subseteq Int /\ (x[c] \in range <=> x[c] = IF dir = Left THEN CellGridSize[c] + 1 ELSE 0)
  BY Sizes DEF Left, Right, Frame, FrameGridSize
<1>2. Ghosts(c, dir) = Slab(c, range)
  BY DEF Ghosts
<1> HIDE DEF range
<1> QED BY <1>1, <1>2, SlabIs

\* The cells that a direction reads.
LEMMA RealsAre ==
  ASSUME NEW c \in Coord, NEW dir \in {Left, Right}, NEW x
  PROVE  x \in Reals(c, dir) <=>
           /\ x \in [Coord -> Int]
           /\ x[c] = IF dir = Left THEN 1 ELSE CellGridSize[c]
           /\ \A d \in Coord : /\ d < c => x[d] \in 0 .. CellGridSize[d] + 1
                               /\ d > c => x[d] \in 1 .. CellGridSize[d]
<1> DEFINE range == IF dir = Left THEN Frame .. Frame + Frame - 1
                                  ELSE CellGridSize[c] .. CellGridSize[c] + Frame - 1
<1>1. range \subseteq Int /\ (x[c] \in range <=> x[c] = IF dir = Left THEN 1 ELSE CellGridSize[c])
  BY Sizes DEF Left, Right, Frame
<1>2. Reals(c, dir) = Slab(c, range)
  BY DEF Reals
<1> HIDE DEF range
<1> QED BY <1>1, <1>2, SlabIs

\* The phases of the program.
Op(k) == Program[k].op
Co(k) == Program[k].coord
Di(k) == Program[k].dir

\* What the phases do: numbers, coordinates and directions.
LEMMA Phases ==
  ASSUME NEW k \in 1 .. AtEnd - 1
  PROVE  /\ Co(k) \in Coord /\ Di(k) \in {Left, Right}
         /\ k < 7 => Op(k) = "exchange" /\ k = 2 * Co(k) + Di(k) + 1
         /\ 7 <= k /\ k < 13 => Op(k) = "update" /\ k = 2 * Co(k) + Di(k) + 7
         /\ k = 13 => Op(k) = "calc"
         /\ 13 < k => Op(k) = "collect" /\ k = 14 + 2 * (2 - Co(k)) + Di(k)
<1>1. \A i \in 0 .. 5 : /\ i % 2 \in {0, 1} /\ i \div 2 \in {0, 1, 2}
                        /\ i = 2 * (i \div 2) + (i % 2)
  OBVIOUS
<1>2. CASE k < 7
  <2>1. Program[k] = Exchange("exchange", Forward((k - 1) \div 2), k - 1)
    BY <1>2 DEF Program, AtUpdate, AtCalc
  <2> QED BY <1>1, <1>2, <2>1 DEF Op, Co, Di, Coord, Left, Right, Exchange, Forward
<1>3. CASE 7 <= k /\ k < 13
  <2>1. Program[k] = Exchange("update", Forward((k - 7) \div 2), k - 7)
    BY <1>3 DEF Program, AtUpdate, AtCalc
  <2> QED BY <1>1, <1>3, <2>1 DEF Op, Co, Di, Coord, Left, Right, Exchange, Forward
<1>4. CASE k = 13
  <2>1. Program[k] = [op |-> "calc", coord |-> 0, dir |-> Left]
    BY <1>4 DEF Program, AtUpdate, AtCalc
  <2> QED BY <1>4, <2>1 DEF Op, Co, Di, Coord, Left, Right
<1>5. CASE 13 < k
  <2>1. Program[k] = Exchange("collect", Backward((k - 14) \div 2), k - 14)
    BY <1>5 DEF Program, AtUpdate, AtCalc
  <2> QED BY <1>1, <1>5, <2>1 DEF Op, Co, Di, AtEnd, Coord, Left, Right, Exchange, Backward
<1> QED BY <1>2, <1>3, <1>4, <1>5 DEF AtEnd

-----------------------------------------------------------------------------
(* What a cell mirrors, coordinate by coordinate.                          *)

\* A quotient and its remainder.
LEMMA Quotient ==
  ASSUME NEW q \in Int, NEW l \in Nat, l > 0, NEW r \in Int, 0 <= r, r < l
  PROVE  (q * l + r) \div l = q /\ (q * l + r) % l = r
<1> DEFINE z == q * l + r
           u == z \div l
<1>1. z \in Int /\ q * l \in Int
  OBVIOUS
<1>2. u \in Int /\ u * l \in Int /\ u * l <= z /\ z < u * l + l /\ z % l = z - u * l
  BY <1>1
<1> DEFINE w == u - q
<1>3. w \in Int /\ w * l = u * l - q * l
  BY <1>2
<1>4. w * l <= r /\ r < w * l + l
  BY <1>1, <1>2, <1>3
<1> HIDE DEF w, u
<1>5. w = 0
  <2>1. CASE w > 0
    <3>1. w * l >= l BY <1>3, <2>1
    <3> QED BY <1>3, <1>4, <3>1
  <2>2. CASE w < 0
    <3>1. (-w) * l >= l BY <1>3, <2>2
    <3>2. w * l = -((-w) * l) /\ (-w) * l \in Int /\ w * l \in Int BY <1>3
    <3> QED BY <1>4, <3>1, <3>2
  <2> QED BY <1>3, <2>1, <2>2
<1> QED BY <1>1, <1>2, <1>5 DEF w, u

\* node, cell and copy of the box of what cell y of node a mirrors
NodeAt(c, a, y) == IF y = 0 THEN IF a = 0 THEN GridSize[c] - 1 ELSE a - 1
                   ELSE IF y = CellGridSize[c] + 1 THEN IF a = GridSize[c] - 1 THEN 0 ELSE a + 1
                   ELSE a
CellAt(c, y)    == IF y = 0 THEN CellGridSize[c] ELSE IF y = CellGridSize[c] + 1 THEN 1 ELSE y
BoxAt(c, a, y)  == IF y = 0 /\ a = 0 THEN -1
                   ELSE IF y = CellGridSize[c] + 1 /\ a = GridSize[c] - 1 THEN 1 ELSE 0

\* Positions of nodes.
LEMMA NodeIs ==
  ASSUME NEW n
  PROVE  n \in Node <=> n \in [Coord -> Int] /\ \A c \in Coord : n[c] \in 0 .. GridSize[c] - 1
<1>1. \A c \in Coord : GridSize[c] \in Nat /\ GridSize[c] > 0 /\ GridSize[c] <= MaxExtent /\ MaxExtent \in Nat
  BY Sizes, Coords DEF MaxExtent
<1>2. ASSUME n \in Node PROVE n \in [Coord -> Int] /\ \A c \in Coord : n[c] \in 0 .. GridSize[c] - 1
  BY <1>1, <1>2 DEF Node
<1>3. ASSUME n \in [Coord -> Int], \A c \in Coord : n[c] \in 0 .. GridSize[c] - 1 PROVE n \in Node
  <2>1. \A c \in Coord : n[c] \in 0 .. MaxExtent /\ n[c] < GridSize[c]
    BY <1>1, <1>3
  <2>2. n \in [Coord -> 0 .. MaxExtent]
    BY <1>3, <2>1
  <2> QED BY <2>1, <2>2 DEF Node
<1> QED BY <1>2, <1>3

\* What a cell mirrors along one coordinate.
LEMMA MirrorAt ==
  ASSUME NEW n \in Node, NEW x \in Cell, NEW c \in Coord
  PROVE  /\ MirrorNode(n, x)[c] = NodeAt(c, n[c], x[c])
         /\ MirrorCell(n, x)[c] = CellAt(c, x[c])
         /\ BoxCopy(n, x, c) = BoxAt(c, n[c], x[c])
<1> DEFINE G == GridSize[c]
           S == CellGridSize[c]
           a == n[c]
           y == x[c]
           q == IF y = 0 THEN a - 1 ELSE IF y = S + 1 THEN a + 1 ELSE a
           r == CellAt(c, y) - 1
           b == BoxAt(c, a, y)
           w == NodeAt(c, a, y)
<1>1. /\ G \in Nat /\ G > 0 /\ S \in Nat /\ S > 0
      /\ a \in Int /\ 0 <= a /\ a < G /\ y \in Int /\ 0 <= y /\ y <= S + 1
  BY Sizes, NodeIs, CellIs
<1>2. MirrorNode(n, x)[c] = (Global(n, x, c) \div S) % G /\ MirrorCell(n, x)[c] = (Global(n, x, c) % S) + 1
      /\ BoxCopy(n, x, c) = Global(n, x, c) \div (G * S) /\ Global(n, x, c) = a * S + y - 1
  BY DEF MirrorNode, MirrorCell, BoxCopy, Global, Frame
<1>3. /\ q \in Int /\ r \in Int /\ 0 <= r /\ r < S /\ b \in Int /\ w \in Int /\ 0 <= w /\ w < G
      /\ CellAt(c, y) = r + 1
  BY <1>1 DEF CellAt, NodeAt, BoxAt
<1>4. a * S + y - 1 = q * S + r
  <2>1. (a - 1) * S = a * S - S /\ (a + 1) * S = a * S + S /\ a * S \in Int
    BY <1>1
  <2> QED BY <1>1, <2>1 DEF CellAt
<1>5. q = b * G + w
  BY <1>1 DEF BoxAt, NodeAt
<1> HIDE DEF G, S, a, y, q, r, b, w
<1>6. (q * S + r) \div S = q /\ (q * S + r) % S = r
  BY <1>1, <1>3, Quotient
<1>7. q % G = w
  BY <1>1, <1>3, <1>5, Quotient
<1>8. (q * S + r) \div (G * S) = b
  <2>1. q * S + r = b * (G * S) + (w * S + r)
    BY <1>1, <1>3, <1>5
  <2>2. G * S \in Nat /\ G * S > 0
    BY <1>1
  <2>3. w * S + r \in Int /\ 0 <= w * S + r
    BY <1>1, <1>3
  <2>4. w * S + r < G * S
    <3>1. (w + 1) * S <= G * S BY <1>1, <1>3
    <3>2. (w + 1) * S = w * S + S /\ w * S \in Int BY <1>1, <1>3
    <3> QED BY <1>1, <1>3, <2>2, <3>1, <3>2
  <2> HIDE DEF G, S
  <2> QED BY <1>3, <2>1, <2>2, <2>3, <2>4, Quotient
<1> QED BY <1>2, <1>3, <1>4, <1>6, <1>7, <1>8 DEF b, w, a, y

\* Vectors are equal if their components are.
LEMMA SameVector ==
  ASSUME NEW S, NEW T, NEW x \in [Coord -> S], NEW y \in [Coord -> T], \A c \in Coord : x[c] = y[c]
  PROVE  x = y
  OBVIOUS

\* A cell mirrors an inner cell of a node; an inner cell mirrors itself.
LEMMA Mirrors ==
  ASSUME NEW n \in Node, NEW x \in Cell
  PROVE  /\ MirrorNode(n, x) \in Node /\ MirrorCell(n, x) \in RealCell
         /\ \A c \in Coord : BoxCopy(n, x, c) \in Int
         /\ x \in RealCell => /\ MirrorNode(n, x) = n /\ MirrorCell(n, x) = x
                              /\ \A c \in Coord : BoxCopy(n, x, c) = 0
<1>1. \A c \in Coord : /\ GridSize[c] \in Nat /\ GridSize[c] > 0
                       /\ CellGridSize[c] \in Nat /\ CellGridSize[c] > 0
                       /\ n[c] \in 0 .. GridSize[c] - 1 /\ x[c] \in 0 .. CellGridSize[c] + 1
  BY Sizes, NodeIs, CellIs
<1>2. \A c \in Coord : /\ MirrorNode(n, x)[c] \in 0 .. GridSize[c] - 1
                       /\ MirrorCell(n, x)[c] \in 1 .. CellGridSize[c]
                       /\ BoxCopy(n, x, c) \in Int
  BY <1>1, MirrorAt DEF NodeAt, CellAt, BoxAt
<1>3. MirrorNode(n, x) \in [Coord -> Int] /\ MirrorCell(n, x) \in [Coord -> Int]
  <2>1. /\ MirrorNode(n, x) = [c \in Coord |-> MirrorNode(n, x)[c]]
        /\ MirrorCell(n, x) = [c \in Coord |-> MirrorCell(n, x)[c]]
    BY DEF MirrorNode, MirrorCell
  <2>2. \A c \in Coord : MirrorNode(n, x)[c] \in Int /\ MirrorCell(n, x)[c] \in Int
    BY <1>1, <1>2
  <2> QED BY <2>1, <2>2
<1>4. MirrorNode(n, x) \in Node /\ MirrorCell(n, x) \in RealCell
  BY <1>2, <1>3, NodeIs, RealCellIs
<1>5. ASSUME x \in RealCell
      PROVE  /\ MirrorNode(n, x) = n /\ MirrorCell(n, x) = x
             /\ \A c \in Coord : BoxCopy(n, x, c) = 0
  <2>1. \A c \in Coord : x[c] \in 1 .. CellGridSize[c]
    BY <1>5, RealCellIs
  <2>2. \A c \in Coord : MirrorNode(n, x)[c] = n[c] /\ MirrorCell(n, x)[c] = x[c] /\ BoxCopy(n, x, c) = 0
    BY <1>1, <2>1, MirrorAt DEF NodeAt, CellAt, BoxAt
  <2>3. n \in [Coord -> Int] /\ x \in [Coord -> Int]
    BY NodeIs, CellIs
  <2> QED BY <1>3, <2>2, <2>3, SameVector
<1> QED BY <1>2, <1>4, <1>5

\* The neighbours of a node on the grid.
LEMMA Neighbours ==
  ASSUME NEW n \in Node, NEW c \in Coord, NEW dir \in {Left, Right}
  PROVE  /\ NodeNeighbor(n, c, dir) \in Node
         /\ NodeNeighbor(NodeNeighbor(n, c, dir), c, Opposite(dir)) = n
         /\ \A d \in Coord \ {c} : NodeNeighbor(n, c, dir)[d] = n[d]
         /\ NodeNeighbor(n, c, dir)[c] =
              IF dir = Left THEN IF n[c] = 0 THEN GridSize[c] - 1 ELSE n[c] - 1
                            ELSE IF n[c] = GridSize[c] - 1 THEN 0 ELSE n[c] + 1
         /\ GridSize[c] = 1 => NodeNeighbor(n, c, dir) = n
<1> DEFINE w == NodeNeighbor(n, c, dir)
           v == IF dir = Left THEN IF n[c] = 0 THEN GridSize[c] - 1 ELSE n[c] - 1
                              ELSE IF n[c] = GridSize[c] - 1 THEN 0 ELSE n[c] + 1
           u == NodeNeighbor(w, c, Opposite(dir))
<1>1. /\ n \in [Coord -> Int] /\ GridSize[c] \in Nat /\ GridSize[c] > 0
      /\ \A d \in Coord : n[d] \in 0 .. GridSize[d] - 1
  BY NodeIs, Sizes
<1>2. v \in 0 .. GridSize[c] - 1
  BY <1>1
<1>3. w \in [Coord -> Int] /\ w[c] = v /\ \A d \in Coord \ {c} : w[d] = n[d]
  <2> DEFINE z == IF dir = Left
                  THEN IF n[c] - 1 < 0 THEN n[c] - 1 + GridSize[c] ELSE n[c] - 1
                  ELSE IF n[c] + 1 >= GridSize[c] THEN n[c] + 1 - GridSize[c] ELSE n[c] + 1
  <2>1. w = [n EXCEPT ![c] = z] BY DEF NodeNeighbor
  <2>2. z = v BY <1>1
  <2> HIDE DEF w, z, v
  <2> QED BY <1>1, <1>2, <2>1, <2>2
<1>4. w \in Node
  BY <1>1, <1>2, <1>3, NodeIs
<1> HIDE DEF w
<1>5. u \in [Coord -> Int] /\ u[c] = n[c] /\ \A d \in Coord \ {c} : u[d] = n[d]
  BY <1>1, <1>2, <1>3 DEF NodeNeighbor, Left, Right, Opposite
<1>6. u = n
  BY <1>1, <1>5
<1>7. GridSize[c] = 1 => w = n
  BY <1>1, <1>2, <1>3
<1> QED BY <1>3, <1>4, <1>6, <1>7 DEF w

\* The opposite of a direction, and back.
LEMMA Opposites ==
  ASSUME NEW dir \in {Left, Right}
  PROVE  Opposite(dir) \in {Left, Right} /\ Opposite(Opposite(dir)) = dir
  BY DEF Left, Right, Opposite

\* A ghost cell mirrors what its source on the sending node mirrors, one
\* box further where the direction crosses the border.
LEMMA SourceMirrors ==
  ASSUME NEW n \in Node, NEW c \in Coord, NEW dir \in {Left, Right}, NEW g \in Ghosts(c, dir)
  PROVE  /\ g \in GhostCell /\ Source(c, dir, g) \in Reals(c, dir) /\ Source(c, dir, g) \in Cell
         /\ Target(c, dir, Source(c, dir, g)) = g
         /\ MirrorNode(NodeNeighbor(n, c, dir), g) = MirrorNode(n, Source(c, dir, g))
         /\ MirrorCell(NodeNeighbor(n, c, dir), g) = MirrorCell(n, Source(c, dir, g))
         /\ \A e \in Coord : BoxCopy(NodeNeighbor(n, c, dir), g, e)
              = BoxCopy(n, Source(c, dir, g), e) + IF e = c THEN Boundary(n, c, dir) ELSE 0
<1> DEFINE w == NodeNeighbor(n, c, dir)
           y == Source(c, dir, g)
<1>1. /\ g \in [Coord -> Int] /\ g[c] = IF dir = Left THEN CellGridSize[c] + 1 ELSE 0
      /\ \A d \in Coord : /\ d < c => g[d] \in 0 .. CellGridSize[d] + 1
                          /\ d > c => g[d] \in 1 .. CellGridSize[d]
  BY GhostsAre
<1>2. \A d \in Coord : /\ GridSize[d] \in Nat /\ GridSize[d] > 0
                       /\ CellGridSize[d] \in Nat /\ CellGridSize[d] > 0
                       /\ n[d] \in 0 .. GridSize[d] - 1
  BY Sizes, NodeIs
<1>3. \A d \in Coord : d = c \/ d < c \/ d > c
  BY DEF Coord
<1>4. g \in Cell
  <2>1. \A d \in Coord : g[d] \in 0 .. CellGridSize[d] + 1
    BY <1>1, <1>2, <1>3
  <2> QED BY <1>1, <2>1, CellIs
<1>5. g \notin RealCell
  <2>1. ~(g[c] \in 1 .. CellGridSize[c])
    BY <1>1, <1>2
  <2> QED BY <2>1, RealCellIs
<1>6. /\ y \in [Coord -> Int] /\ y[c] = (IF dir = Left THEN 1 ELSE CellGridSize[c])
      /\ \A d \in Coord \ {c} : y[d] = g[d]
  BY <1>1, <1>2 DEF Source, Left, Right
<1> HIDE DEF y
<1>7. y \in Reals(c, dir)
  <2>1. \A d \in Coord : d # c => y[d] = g[d]
    BY <1>6
  <2>2. \A d \in Coord : (d < c => d # c) /\ (d > c => d # c)
    BY DEF Coord
  <2> QED BY <1>1, <1>6, <2>1, <2>2, RealsAre
<1>8. y \in Cell
  <2>1. \A d \in Coord : y[d] \in 0 .. CellGridSize[d] + 1
    <3> TAKE d \in Coord
    <3>1. CASE d = c BY <1>2, <1>6, <3>1
    <3>2. CASE d # c BY <1>4, <1>6, <3>2, CellIs
    <3> QED BY <3>1, <3>2
  <2> QED BY <1>6, <2>1, CellIs
<1>9. Target(c, dir, y) = g
  BY <1>1, <1>2, <1>6 DEF Target, Left, Right
<1>10. w \in Node /\ \A d \in Coord \ {c} : w[d] = n[d]
  BY Neighbours
<1>11. w[c] = IF dir = Left THEN IF n[c] = 0 THEN GridSize[c] - 1 ELSE n[c] - 1
                            ELSE IF n[c] = GridSize[c] - 1 THEN 0 ELSE n[c] + 1
  BY Neighbours
<1> HIDE DEF w
<1>12. /\ NodeAt(c, w[c], g[c]) = NodeAt(c, n[c], y[c])
       /\ CellAt(c, g[c]) = CellAt(c, y[c])
       /\ BoxAt(c, w[c], g[c]) = BoxAt(c, n[c], y[c]) + Boundary(n, c, dir)
  <2>1. y[c] \in 1 .. CellGridSize[c]
    BY <1>2, <1>6
  <2>2. CASE dir = Left
    BY <1>1, <1>2, <1>6, <1>11, <2>1, <2>2 DEF NodeAt, CellAt, BoxAt, Boundary
  <2>3. CASE dir = Right
    BY <1>1, <1>2, <1>6, <1>11, <2>1, <2>3 DEF NodeAt, CellAt, BoxAt, Boundary, Left, Right
  <2> QED BY <2>2, <2>3
<1>13. \A e \in Coord : /\ MirrorNode(w, g)[e] = MirrorNode(n, y)[e]
                        /\ MirrorCell(w, g)[e] = MirrorCell(n, y)[e]
                        /\ BoxCopy(w, g, e) = BoxCopy(n, y, e) + IF e = c THEN Boundary(n, c, dir) ELSE 0
  <2> TAKE e \in Coord
  <2>1. CASE e = c
    BY <1>4, <1>8, <1>10, <1>12, <2>1, MirrorAt
  <2>2. CASE e # c
    <3>1. w[e] = n[e] /\ y[e] = g[e] BY <1>6, <1>10, <2>2
    <3>2. /\ MirrorNode(w, g)[e] = MirrorNode(n, y)[e]
          /\ MirrorCell(w, g)[e] = MirrorCell(n, y)[e]
          /\ BoxCopy(w, g, e) = BoxCopy(n, y, e)
      BY <1>4, <1>8, <1>10, <3>1, MirrorAt
    <3>3. BoxCopy(n, y, e) \in Int BY <1>8, Mirrors
    <3> QED BY <2>2, <3>2, <3>3
  <2> QED BY <2>1, <2>2
<1>14. MirrorNode(w, g) = MirrorNode(n, y) /\ MirrorCell(w, g) = MirrorCell(n, y)
  <2>1. /\ MirrorNode(w, g) \in Node /\ MirrorNode(n, y) \in Node
        /\ MirrorCell(w, g) \in RealCell /\ MirrorCell(n, y) \in RealCell
    BY <1>4, <1>8, <1>10, Mirrors
  <2>2. /\ MirrorNode(w, g) \in [Coord -> Int] /\ MirrorNode(n, y) \in [Coord -> Int]
        /\ MirrorCell(w, g) \in [Coord -> Int] /\ MirrorCell(n, y) \in [Coord -> Int]
    BY <2>1, NodeIs, RealCellIs
  <2> QED BY <1>13, <2>2, SameVector
<1> QED BY <1>4, <1>5, <1>7, <1>8, <1>9, <1>13, <1>14 DEF w, y, GhostCell

\* The place of a cell among the ghosts of the direction.
LEMMA TargetMirrors ==
  ASSUME NEW n \in Node, NEW c \in Coord, NEW dir \in {Left, Right}, NEW x \in Reals(c, dir)
  PROVE  /\ x \in Cell /\ Target(c, dir, x) \in Ghosts(c, dir) /\ Target(c, dir, x) \in Cell
         /\ Source(c, dir, Target(c, dir, x)) = x
         /\ MirrorNode(NodeNeighbor(n, c, dir), Target(c, dir, x)) = MirrorNode(n, x)
         /\ MirrorCell(NodeNeighbor(n, c, dir), Target(c, dir, x)) = MirrorCell(n, x)
<1> DEFINE g == Target(c, dir, x)
<1>1. /\ x \in [Coord -> Int] /\ x[c] = IF dir = Left THEN 1 ELSE CellGridSize[c]
      /\ \A d \in Coord : /\ d < c => x[d] \in 0 .. CellGridSize[d] + 1
                          /\ d > c => x[d] \in 1 .. CellGridSize[d]
  BY RealsAre
<1>2. CellGridSize[c] \in Nat /\ CellGridSize[c] > 0
  BY Sizes
<1>3. /\ g \in [Coord -> Int] /\ g[c] = (IF dir = Left THEN CellGridSize[c] + 1 ELSE 0)
      /\ \A d \in Coord \ {c} : g[d] = x[d]
  BY <1>1, <1>2 DEF Target, Left, Right
<1> HIDE DEF g
<1>4. g \in Ghosts(c, dir)
  <2>1. \A d \in Coord : d # c => g[d] = x[d]
    BY <1>3
  <2>2. \A d \in Coord : (d < c => d # c) /\ (d > c => d # c)
    BY DEF Coord
  <2> QED BY <1>1, <1>3, <2>1, <2>2, GhostsAre
<1>5. Source(c, dir, g) = x
  BY <1>1, <1>2, <1>3 DEF Source, Left, Right
<1>6. g \in Cell
  BY <1>4, SourceMirrors DEF GhostCell
<1> QED BY <1>4, <1>5, <1>6, SourceMirrors DEF g

-----------------------------------------------------------------------------
(* The inductive invariant.                                                *)

Position == [Coord -> Int]
Share    == Node \X Cell
Rec      == [id : Particle, pos : Position, f : Seq(Share)]
Index    == UNION {[D -> Cell] : D \in SUBSET Particle}

Types ==
  /\ cells \in [Node -> [Cell -> Seq(Rec)]]
  /\ index \in [Node -> Index]
  /\ at \in [Node -> 1 .. AtEnd]
  /\ packed \in [Node -> BOOLEAN]
  /\ touched \in BOOLEAN

\* a particle is real in one place
OnePlace ==
  \A n, m \in Node, x, y \in RealCell : \A i \in DOMAIN cells[n][x], j \in DOMAIN cells[m][y] :
    cells[n][x][i].id = cells[m][y][j].id => n = m /\ x = y /\ i = j

\* phases with a message, and where it comes from
Talks(k)   == k \in 1 .. AtEnd - 1 /\ k # AtCalc /\ GridSize[Co(k)] > 1
From(n, k) == NodeNeighbor(n, Co(k), IF k < AtCalc THEN Opposite(Di(k)) ELSE Di(k))
Sent(n, k) == at[n] > k \/ (at[n] = k /\ packed[n])

\* one message to each node and phase, sent before it is received and
\* received before the node goes on
InStep ==
  /\ touched => AllAtEnd
  /\ \A n \in Node : packed[n] => Talks(at[n])
  /\ \A n \in Node, k \in 1 .. AtEnd - 1 : Talks(k) /\ at[n] > k => Sent(From(n, k), k)
  /\ \A m \in net : /\ m.dst \in Node /\ Talks(m.phase)
                    /\ at[m.dst] <= m.phase /\ Sent(From(m.dst, m.phase), m.phase)
  /\ \A l, m \in net : l.dst = m.dst /\ l.phase = m.phase => l = m

\* the real cell that cell x of node n mirrors, and its positions seen there
Home(n, x) == cells[MirrorNode(n, x)][MirrorCell(n, x)]
Seen(n, x, pos) == [c \in Coord |-> pos[c] + BoxCopy(n, x, c) * BoxL(c)]

SameIds(n, x) ==
  /\ DOMAIN cells[n][x] = DOMAIN Home(n, x)
  /\ \A i \in DOMAIN Home(n, x) : cells[n][x][i].id = Home(n, x)[i].id

Image(n, x) ==
  /\ SameIds(n, x)
  /\ \A i \in DOMAIN Home(n, x) : cells[n][x][i].pos = Seen(n, x, Home(n, x)[i].pos)

\* cell x is real or filled by a phase of the sweep before phase k
Done(x, k) ==
  \A c \in Coord, dir \in {Left, Right} : x \in Ghosts(c, dir) => 2 * c + dir + 1 < k

GhostsFilled ==
  \A n \in Node, x \in Cell :
    /\ at[n] < AtUpdate /\ Done(x, at[n]) => Image(n, x)
    /\ at[n] >= AtUpdate /\ ~touched =>
         /\ SameIds(n, x)
         /\ Done(x, at[n] - 6) => Image(n, x)

\* The copies whose forces cell x of node n has got before phase k: along
\* each coordinate the cell itself or, once the coordinate and all after it
\* are inner and the direction is done, the ghosts of it.
Got(n, x, d, k, a, y) ==
  \/ a = n[d] /\ y = x[d]
  \/ /\ \A e \in Coord : e >= d => x[e] \in 1 .. CellGridSize[e]
     /\ NodeAt(d, a, y) = n[d] /\ CellAt(d, y) = x[d]
     /\ \/ y = CellGridSize[d] + 1 /\ 14 + 2 * (2 - d) + Left < k
        \/ y = 0 /\ 14 + 2 * (2 - d) + Right < k

Shares(n, x, k) == {l \in Share : \A d \in Coord : Got(n, x, d, k, l[1][d], l[2][d])}

Once(f, S) ==
  /\ f \in Seq(Share)
  /\ {f[i] : i \in DOMAIN f} = S
  /\ \A i, j \in DOMAIN f : f[i] = f[j] => i = j

ForcesAdded ==
  \A n \in Node : at[n] > AtCalc =>
    /\ \A x \in Cell : \A l \in Shares(n, x, at[n]) : at[l[1]] > AtCalc
    /\ ~touched => \A x \in Cell : \A i \in DOMAIN cells[n][x] : Once(cells[n][x][i].f, Shares(n, x, at[n]))

\* the buffer that node n is to get in phase k
Good(n, k, buf) ==
  IF k < AtCalc
  THEN /\ DOMAIN buf = Ghosts(Co(k), Di(k))
       /\ \A g \in DOMAIN buf :
            /\ DOMAIN buf[g] = DOMAIN Home(n, g)
            /\ \A i \in DOMAIN Home(n, g) : /\ buf[g][i].id = Home(n, g)[i].id
                                            /\ buf[g][i].pos = Seen(n, g, Home(n, g)[i].pos)
  ELSE /\ DOMAIN buf = Reals(Co(k), Di(k))
       /\ \A x \in DOMAIN buf :
            /\ DOMAIN buf[x] = DOMAIN Home(n, x)
            /\ \A i \in DOMAIN Home(n, x) :
                 Once(buf[x][i], Shares(From(n, k), Target(Co(k), Di(k), x), k))

MailIsGood == \A m \in net : Good(m.dst, m.phase, m.buf)

\* the index leads to copies, and to the real one if the node has that
IndexLeads ==
  \A n \in Node :
    /\ \A p \in DOMAIN index[n] : /\ p \in Ids(cells[n][index[n][p]])
                                  /\ at[n] < AtUpdate => Done(index[n][p], at[n])
    /\ \A x \in Cell : \A p \in Ids(cells[n][x]) :
         /\ x \in RealCell => p \in DOMAIN index[n] /\ index[n][p] \in RealCell
         /\ Done(x, at[n]) /\ ~touched => p \in DOMAIN index[n]

GInv == /\ Types /\ OnePlace /\ InStep /\ GhostsFilled
        /\ ForcesAdded /\ MailIsGood /\ IndexLeads

-----------------------------------------------------------------------------
(* Which cells are filled when.                                            *)

\* A cell is a ghost of one direction at most.
LEMMA OneDirection ==
  ASSUME NEW c \in Coord, NEW dir \in {Left, Right}, NEW d \in Coord, NEW ort \in {Left, Right},
         NEW x \in Ghosts(c, dir), x \in Ghosts(d, ort)
  PROVE  c = d /\ dir = ort
<1>1. \A e \in Coord : CellGridSize[e] \in Nat /\ CellGridSize[e] > 0
  BY Sizes
<1>2. /\ x[c] = IF dir = Left THEN CellGridSize[c] + 1 ELSE 0
      /\ \A e \in Coord : e > c => x[e] \in 1 .. CellGridSize[e]
  BY GhostsAre
<1>3. /\ x[d] = IF ort = Left THEN CellGridSize[d] + 1 ELSE 0
      /\ \A e \in Coord : e > d => x[e] \in 1 .. CellGridSize[e]
  BY GhostsAre
<1>4. ~(x[c] \in 1 .. CellGridSize[c]) /\ ~(x[d] \in 1 .. CellGridSize[d])
  BY <1>1, <1>2, <1>3
<1>5. ~(d > c) /\ ~(c > d)
  BY <1>2, <1>3, <1>4
<1>6. c = d
  BY <1>5 DEF Coord
<1> QED BY <1>1, <1>2, <1>3, <1>6 DEF Left, Right

\* A cell that is not real is a ghost of a direction.
LEMMA SomeDirection ==
  ASSUME NEW x \in Cell, x \notin RealCell
  PROVE  \E c \in Coord, dir \in {Left, Right} : x \in Ghosts(c, dir)
<1>1. /\ x \in [Coord -> Int] /\ \A e \in Coord : x[e] \in 0 .. CellGridSize[e] + 1
      /\ ~(\A e \in Coord : x[e] \in 1 .. CellGridSize[e])
      /\ \A e \in Coord : CellGridSize[e] \in Nat /\ CellGridSize[e] > 0
  BY CellIs, RealCellIs, Sizes
<1>2. PICK c \in Coord : /\ ~(x[c] \in 1 .. CellGridSize[c])
                         /\ \A e \in Coord : e > c => x[e] \in 1 .. CellGridSize[e]
  <2>1. CASE ~(x[2] \in 1 .. CellGridSize[2]) BY <2>1 DEF Coord
  <2>2. CASE x[2] \in 1 .. CellGridSize[2] /\ ~(x[1] \in 1 .. CellGridSize[1]) BY <2>2 DEF Coord
  <2>3. CASE x[2] \in 1 .. CellGridSize[2] /\ x[1] \in 1 .. CellGridSize[1]
    <3>1. ~(x[0] \in 1 .. CellGridSize[0]) BY <1>1, <2>3, Coords
    <3> QED BY <2>3, <3>1 DEF Coord
  <2> QED BY <2>1, <2>2, <2>3
<1>3. x[c] = CellGridSize[c] + 1 \/ x[c] = 0
  BY <1>1, <1>2
<1>4. x[c] = CellGridSize[c] + 1 => x \in Ghosts(c, Left)
  BY <1>1, <1>2, GhostsAre
<1>5. x[c] = 0 => x \in Ghosts(c, Right)
  BY <1>1, <1>2, GhostsAre DEF Left, Right
<1> QED BY <1>3, <1>4, <1>5

\* Ghosts are not real.
LEMMA RealIsNoGhost ==
  ASSUME NEW x \in RealCell, NEW c \in Coord, NEW dir \in {Left, Right}
  PROVE  x \notin Ghosts(c, dir)
  BY RealCellIs, GhostsAre, Sizes

\* Real cells are there from the start, and nothing else is.
LEMMA DoneFirst ==
  ASSUME NEW x \in Cell
  PROVE  Done(x, 1) <=> x \in RealCell
<1>1. ASSUME x \in RealCell PROVE Done(x, 1)
  BY <1>1, RealIsNoGhost DEF Done
<1>2. ASSUME x \notin RealCell PROVE ~Done(x, 1)
  BY <1>2, SomeDirection DEF Done, Coord, Left, Right
<1> QED BY <1>1, <1>2

\* A phase fills its ghosts.
LEMMA DoneNext ==
  ASSUME NEW x, NEW c \in Coord, NEW dir \in {Left, Right}, NEW k, k = 2 * c + dir + 1
  PROVE  Done(x, k + 1) <=> Done(x, k) \/ x \in Ghosts(c, dir)
<1>1. \A d \in Coord, ort \in {Left, Right} :
        /\ 2 * d + ort + 1 < k => 2 * d + ort + 1 < k + 1
        /\ 2 * d + ort + 1 < k + 1 => 2 * d + ort + 1 < k \/ (d = c /\ ort = dir)
        /\ d = c /\ ort = dir => 2 * d + ort + 1 < k + 1
  BY DEF Coord, Left, Right
<1> QED BY <1>1, OneDirection DEF Done

\* At the end of a sweep all is filled.
LEMMA DoneLast ==
  ASSUME NEW x, NEW k \in Int, k >= 7
  PROVE  Done(x, k)
  BY DEF Done, Coord, Left, Right

\* What a phase sends has been filled.
LEMMA DoneReals ==
  ASSUME NEW c \in Coord, NEW dir \in {Left, Right}, NEW x \in Reals(c, dir)
  PROVE  Done(x, 2 * c + dir + 1)
<1> SUFFICES ASSUME NEW d \in Coord, NEW ort \in {Left, Right}, x \in Ghosts(d, ort)
             PROVE  2 * d + ort + 1 < 2 * c + dir + 1
  BY DEF Done
<1>1. ~(x[d] \in 1 .. CellGridSize[d])
  BY GhostsAre, Sizes
<1>2. x[c] \in 1 .. CellGridSize[c] /\ \A e \in Coord : e > c => x[e] \in 1 .. CellGridSize[e]
  BY RealsAre, Sizes
<1>3. d < c
  BY <1>1, <1>2 DEF Coord
<1> QED BY <1>3 DEF Coord, Left, Right

-----------------------------------------------------------------------------
(* Whose forces a cell has got.                                            *)

\* Places, by their coordinates.
LEMMA ShareIs ==
  ASSUME NEW l \in Share
  PROVE  /\ l = <<l[1], l[2]>> /\ l[1] \in Node /\ l[2] \in Cell
         /\ \A d \in Coord : l[1][d] \in 0 .. GridSize[d] - 1 /\ l[2][d] \in 0 .. CellGridSize[d] + 1
<1>1. l = <<l[1], l[2]>> /\ l[1] \in Node /\ l[2] \in Cell
  BY DEF Share
<1> QED BY <1>1, NodeIs, CellIs

\* At first a cell has its own forces.
LEMMA SharesFirst ==
  ASSUME NEW n \in Node, NEW x \in Cell
  PROVE  Shares(n, x, 14) = {<<n, x>>}
<1>1. ASSUME NEW l \in Share
      PROVE  l \in Shares(n, x, 14) <=> l = <<n, x>>
  <2>1. \A d \in Coord : Got(n, x, d, 14, l[1][d], l[2][d]) <=> l[1][d] = n[d] /\ l[2][d] = x[d]
    BY DEF Got, Coord, Left, Right
  <2>2. l \in Shares(n, x, 14) <=> \A d \in Coord : l[1][d] = n[d] /\ l[2][d] = x[d]
    BY <2>1 DEF Shares
  <2>3. (\A d \in Coord : l[1][d] = n[d] /\ l[2][d] = x[d]) <=> l[1] = n /\ l[2] = x
    <3>1. l[1] \in [Coord -> Int] /\ n \in [Coord -> Int] /\ l[2] \in [Coord -> Int] /\ x \in [Coord -> Int]
      BY ShareIs, NodeIs, CellIs
    <3> QED BY <3>1, SameVector
  <2>4. l = <<l[1], l[2]>>
    BY ShareIs
  <2> QED BY <2>2, <2>3, <2>4
<1>2. <<n, x>> \in Share
  BY DEF Share
<1> QED BY <1>1, <1>2 DEF Shares

\* Forces that have come stay.
LEMMA SharesGrow ==
  ASSUME NEW n, NEW x, NEW i \in Int, NEW j \in Int, i <= j
  PROVE  Shares(n, x, i) \subseteq Shares(n, x, j)
<1> SUFFICES ASSUME NEW l \in Share, NEW d \in Coord, Got(n, x, d, i, l[1][d], l[2][d])
             PROVE  Got(n, x, d, j, l[1][d], l[2][d])
  BY DEF Shares
<1>1. 14 + 2 * (2 - d) + Left \in Int /\ 14 + 2 * (2 - d) + Right \in Int
  BY DEF Coord, Left, Right
<1>2. /\ 14 + 2 * (2 - d) + Left < i => 14 + 2 * (2 - d) + Left < j
      /\ 14 + 2 * (2 - d) + Right < i => 14 + 2 * (2 - d) + Right < j
  BY <1>1
<1> QED BY <1>2, Zenon DEF Got

\* A collecting phase adds what the ghost of a cell has got.
LEMMA SharesMore ==
  ASSUME NEW n \in Node, NEW c \in Coord, NEW dir \in {Left, Right}, NEW x \in Reals(c, dir),
         NEW k, k = 14 + 2 * (2 - c) + dir
  PROVE  LET w == NodeNeighbor(n, c, dir)
             g == Target(c, dir, x)
         IN  /\ Shares(n, x, k + 1) = Shares(n, x, k) \cup Shares(w, g, k)
             /\ Shares(n, x, k) \cap Shares(w, g, k) = {}
<1> DEFINE w == NodeNeighbor(n, c, dir)
           g == Target(c, dir, x)
<1>1. /\ x \in [Coord -> Int] /\ x[c] = IF dir = Left THEN 1 ELSE CellGridSize[c]
      /\ \A d \in Coord : d > c => x[d] \in 1 .. CellGridSize[d]
  BY RealsAre
<1>2. \A d \in Coord : /\ GridSize[d] \in Nat /\ GridSize[d] > 0
                       /\ CellGridSize[d] \in Nat /\ CellGridSize[d] > 0
                       /\ n[d] \in 0 .. GridSize[d] - 1
  BY Sizes, NodeIs
<1>3. /\ g[c] = (IF dir = Left THEN CellGridSize[c] + 1 ELSE 0)
      /\ \A d \in Coord \ {c} : g[d] = x[d]
  BY <1>1, <1>2 DEF Target, Left, Right
<1>4. /\ \A d \in Coord \ {c} : w[d] = n[d]
      /\ w[c] = IF dir = Left THEN IF n[c] = 0 THEN GridSize[c] - 1 ELSE n[c] - 1
                              ELSE IF n[c] = GridSize[c] - 1 THEN 0 ELSE n[c] + 1
  BY Neighbours
<1> HIDE DEF w, g
<1>5. ASSUME NEW d \in Coord, d < c, NEW a, NEW y
      PROVE  /\ Got(n, x, d, k, a, y) <=> Got(n, x, d, k + 1, a, y)
             /\ Got(w, g, d, k, a, y) <=> Got(n, x, d, k + 1, a, y)
  <2>1. w[d] = n[d] /\ g[d] = x[d]
    <3>1. d # c BY <1>5 DEF Coord
    <3> QED BY <1>3, <1>4, <3>1
  <2>2. /\ ~(14 + 2 * (2 - d) + Left < k) /\ ~(14 + 2 * (2 - d) + Right < k)
        /\ ~(14 + 2 * (2 - d) + Left < k + 1) /\ ~(14 + 2 * (2 - d) + Right < k + 1)
    BY <1>5 DEF Coord, Left, Right
  <2> QED BY <2>1, <2>2, Zenon DEF Got
<1>6. ASSUME NEW d \in Coord, d > c, NEW a, NEW y
      PROVE  /\ Got(n, x, d, k, a, y) <=> Got(n, x, d, k + 1, a, y)
             /\ Got(w, g, d, k, a, y) <=> Got(n, x, d, k + 1, a, y)
  <2>1. w[d] = n[d] /\ g[d] = x[d] /\ \A e \in Coord : e >= d => g[e] = x[e]
    <3>1. d # c /\ \A e \in Coord : e >= d => e # c BY <1>6 DEF Coord
    <3> QED BY <1>3, <1>4, <3>1
  <2>2. /\ 14 + 2 * (2 - d) + Left < k /\ 14 + 2 * (2 - d) + Right < k
        /\ 14 + 2 * (2 - d) + Left < k + 1 /\ 14 + 2 * (2 - d) + Right < k + 1
    BY <1>6 DEF Coord, Left, Right
  <2>3. (\A e \in Coord : e >= d => x[e] \in 1 .. CellGridSize[e])
           <=> \A e \in Coord : e >= d => g[e] \in 1 .. CellGridSize[e]
    BY <2>1
  <2> QED BY <2>1, <2>2, <2>3, Zenon DEF Got
<1>7. ASSUME NEW a \in 0 .. GridSize[c] - 1, NEW y \in 0 .. CellGridSize[c] + 1
      PROVE  /\ Got(n, x, c, k + 1, a, y) <=> Got(n, x, c, k, a, y) \/ (a = w[c] /\ y = g[c])
             /\ Got(w, g, c, k, a, y) <=> a = w[c] /\ y = g[c]
             /\ ~(Got(n, x, c, k, a, y) /\ a = w[c] /\ y = g[c])
  <2>1. \A e \in Coord : e >= c => x[e] \in 1 .. CellGridSize[e]
    <3> SUFFICES ASSUME NEW e \in Coord, e >= c PROVE x[e] \in 1 .. CellGridSize[e]
      OBVIOUS
    <3>1. CASE e = c BY <1>1, <1>2, <3>1
    <3>2. CASE e > c BY <1>1, <3>2
    <3> QED BY <3>1, <3>2 DEF Coord
  <2>2. ~(\A e \in Coord : e >= c => g[e] \in 1 .. CellGridSize[e])
    BY <1>2, <1>3 DEF Coord
  <2>3. Got(w, g, c, k, a, y) <=> a = w[c] /\ y = g[c]
    BY <2>2, Zenon DEF Got
  <2>4. CASE dir = Left
    <3>1. /\ ~(14 + 2 * (2 - c) + Left < k) /\ ~(14 + 2 * (2 - c) + Right < k)
          /\ 14 + 2 * (2 - c) + Left < k + 1 /\ ~(14 + 2 * (2 - c) + Right < k + 1)
      BY <2>4 DEF Coord, Left, Right
    <3>2. /\ NodeAt(c, a, y) = n[c] /\ CellAt(c, y) = x[c] /\ y = CellGridSize[c] + 1
               <=> a = w[c] /\ y = g[c]
          /\ y = g[c] => y # x[c]
      BY <1>1, <1>2, <1>3, <1>4, <1>7, <2>4 DEF NodeAt, CellAt
    <3> QED BY <2>1, <2>3, <3>1, <3>2, Zenon DEF Got
  <2>5. CASE dir = Right
    <3>1. /\ 14 + 2 * (2 - c) + Left < k /\ ~(14 + 2 * (2 - c) + Right < k)
          /\ 14 + 2 * (2 - c) + Left < k + 1 /\ 14 + 2 * (2 - c) + Right < k + 1
      BY <2>5 DEF Coord, Left, Right
    <3>2. /\ NodeAt(c, a, y) = n[c] /\ CellAt(c, y) = x[c] /\ y = 0
               <=> a = w[c] /\ y = g[c]
          /\ y = g[c] => y # x[c] /\ y # CellGridSize[c] + 1
      BY <1>1, <1>2, <1>3, <1>4, <1>7, <2>5 DEF NodeAt, CellAt, Left, Right
    <3> QED BY <2>1, <2>3, <3>1, <3>2, Zenon DEF Got
  <2> QED BY <2>4, <2>5
<1>8. \A d \in Coord : d = c \/ d < c \/ d > c
  BY DEF Coord
<1>9. ASSUME NEW l \in Share
      PROVE  /\ l \in Shares(n, x, k + 1) <=> l \in Shares(n, x, k) \/ l \in Shares(w, g, k)
             /\ ~(l \in Shares(n, x, k) /\ l \in Shares(w, g, k))
  <2> DEFINE P(d) == Got(n, x, d, k + 1, l[1][d], l[2][d])
             Q(d) == Got(n, x, d, k, l[1][d], l[2][d])
             R(d) == Got(w, g, d, k, l[1][d], l[2][d])
  <2>1. \A d \in Coord : d # c => (P(d) <=> Q(d)) /\ (P(d) <=> R(d))
    BY <1>5, <1>6, <1>8
  <2>2. (P(c) <=> Q(c) \/ R(c)) /\ ~(Q(c) /\ R(c))
    <3>1. l[1][c] \in 0 .. GridSize[c] - 1 /\ l[2][c] \in 0 .. CellGridSize[c] + 1
      BY ShareIs
    <3> QED BY <1>7, <3>1
  <2>3. /\ l \in Shares(n, x, k + 1) <=> \A d \in Coord : P(d)
        /\ l \in Shares(n, x, k) <=> \A d \in Coord : Q(d)
        /\ l \in Shares(w, g, k) <=> \A d \in Coord : R(d)
    BY DEF Shares
  <2> HIDE DEF P, Q, R
  <2> QED BY <2>1, <2>2, <2>3, Zenon
<1> QED BY <1>9 DEF Shares, w, g

\* Other cells get nothing.
LEMMA SharesSame ==
  ASSUME NEW n \in Node, NEW c \in Coord, NEW dir \in {Left, Right},
         NEW x \in Cell, x \notin Reals(c, dir), NEW k, k = 14 + 2 * (2 - c) + dir
  PROVE  Shares(n, x, k + 1) = Shares(n, x, k)
<1>1. /\ x \in [Coord -> Int] /\ \A d \in Coord : x[d] \in 0 .. CellGridSize[d] + 1
      /\ \A d \in Coord : CellGridSize[d] \in Nat /\ CellGridSize[d] > 0 /\ GridSize[d] \in Nat
  BY CellIs, Sizes
<1>2. \/ ~(\A e \in Coord : e >= c => x[e] \in 1 .. CellGridSize[e])
      \/ x[c] # IF dir = Left THEN 1 ELSE CellGridSize[c]
  <2> SUFFICES ASSUME \A e \in Coord : e >= c => x[e] \in 1 .. CellGridSize[e],
                      x[c] = IF dir = Left THEN 1 ELSE CellGridSize[c]
               PROVE  FALSE
    OBVIOUS
  <2>1. \A d \in Coord : d > c => d >= c BY DEF Coord
  <2> QED BY <1>1, <2>1, RealsAre
<1>3. ASSUME NEW l \in Share, NEW d \in Coord
      PROVE  Got(n, x, d, k + 1, l[1][d], l[2][d]) <=> Got(n, x, d, k, l[1][d], l[2][d])
  <2>1. l[1][d] \in 0 .. GridSize[d] - 1 /\ l[2][d] \in 0 .. CellGridSize[d] + 1
    BY ShareIs
  <2>2. CASE d # c
    <3>1. /\ 14 + 2 * (2 - d) + Left < k <=> 14 + 2 * (2 - d) + Left < k + 1
          /\ 14 + 2 * (2 - d) + Right < k <=> 14 + 2 * (2 - d) + Right < k + 1
      BY <2>2 DEF Coord, Left, Right
    <3> QED BY <3>1, Zenon DEF Got
  <2>3. CASE d = c /\ ~(\A e \in Coord : e >= c => x[e] \in 1 .. CellGridSize[e])
    BY <2>3, Zenon DEF Got
  <2>4. CASE d = c /\ x[c] # IF dir = Left THEN 1 ELSE CellGridSize[c]
    <3>1. CASE dir = Left
      <4>1. /\ ~(CellAt(c, l[2][c]) = x[c] /\ l[2][c] = CellGridSize[c] + 1)
            /\ ~(14 + 2 * (2 - c) + Right < k) /\ ~(14 + 2 * (2 - c) + Right < k + 1)
        BY <1>1, <2>4, <3>1 DEF CellAt, Coord, Left, Right
      <4> QED BY <2>4, <4>1, Zenon DEF Got
    <3>2. CASE dir = Right
      <4>1. /\ ~(CellAt(c, l[2][c]) = x[c] /\ l[2][c] = 0)
            /\ 14 + 2 * (2 - c) + Left < k /\ 14 + 2 * (2 - c) + Left < k + 1
        BY <1>1, <2>4, <3>2 DEF CellAt, Coord, Left, Right
      <4> QED BY <2>4, <4>1, Zenon DEF Got
    <3> QED BY <3>1, <3>2
  <2> QED BY <1>2, <2>2, <2>3, <2>4
<1> QED BY <1>3 DEF Shares

\* In the end a real cell has the forces of the cells that mirror it.
LEMMA SharesLast ==
  ASSUME NEW n \in Node, NEW x \in RealCell
  PROVE  Shares(n, x, AtEnd) = {l \in Share : MirrorNode(l[1], l[2]) = n /\ MirrorCell(l[1], l[2]) = x}
<1>1. /\ x \in [Coord -> Int] /\ n \in [Coord -> Int]
      /\ \A d \in Coord : /\ x[d] \in 1 .. CellGridSize[d] /\ n[d] \in 0 .. GridSize[d] - 1
                          /\ CellGridSize[d] \in Nat /\ GridSize[d] \in Nat
  BY RealCellIs, NodeIs, Sizes
<1>2. ASSUME NEW l \in Share, NEW d \in Coord
      PROVE  Got(n, x, d, AtEnd, l[1][d], l[2][d])
               <=> MirrorNode(l[1], l[2])[d] = n[d] /\ MirrorCell(l[1], l[2])[d] = x[d]
  <2> DEFINE a == l[1][d]
             y == l[2][d]
  <2>1. a \in 0 .. GridSize[d] - 1 /\ y \in 0 .. CellGridSize[d] + 1
    BY ShareIs
  <2>2. MirrorNode(l[1], l[2])[d] = NodeAt(d, a, y) /\ MirrorCell(l[1], l[2])[d] = CellAt(d, y)
    BY ShareIs, MirrorAt
  <2> HIDE DEF a, y
  <2>3. 14 + 2 * (2 - d) + Left < AtEnd /\ 14 + 2 * (2 - d) + Right < AtEnd
    BY DEF Coord, Left, Right, AtEnd
  <2>4. Got(n, x, d, AtEnd, a, y) <=> \/ a = n[d] /\ y = x[d]
                                      \/ /\ NodeAt(d, a, y) = n[d] /\ CellAt(d, y) = x[d]
                                         /\ y = CellGridSize[d] + 1 \/ y = 0
    BY <1>1, <2>3 DEF Got
  <2>5. y \in 1 .. CellGridSize[d] => NodeAt(d, a, y) = a /\ CellAt(d, y) = y
    BY <1>1 DEF NodeAt, CellAt
  <2>6. y \in 1 .. CellGridSize[d] \/ y = CellGridSize[d] + 1 \/ y = 0
    BY <1>1, <2>1
  <2>7. Got(n, x, d, AtEnd, a, y) <=> NodeAt(d, a, y) = n[d] /\ CellAt(d, y) = x[d]
    BY <1>1, <2>4, <2>5, <2>6
  <2> QED BY <2>2, <2>7 DEF a, y
<1>3. ASSUME NEW l \in Share
      PROVE  l \in Shares(n, x, AtEnd) <=> MirrorNode(l[1], l[2]) = n /\ MirrorCell(l[1], l[2]) = x
  <2>1. l \in Shares(n, x, AtEnd) <=> \A d \in Coord : /\ MirrorNode(l[1], l[2])[d] = n[d]
                                                       /\ MirrorCell(l[1], l[2])[d] = x[d]
    BY <1>2 DEF Shares
  <2>2. MirrorNode(l[1], l[2]) \in [Coord -> Int] /\ MirrorCell(l[1], l[2]) \in [Coord -> Int]
    BY ShareIs, Mirrors, NodeIs, RealCellIs
  <2> QED BY <1>1, <2>1, <2>2, SameVector
<1> QED BY <1>3 DEF Shares

\* Two lists of shares that have nothing in common.
LEMMA OnceAdded ==
  ASSUME NEW f, NEW b, NEW S, NEW T, Once(f, S), Once(b, T), S \cap T = {}
  PROVE  Once(f \o b, S \cup T)
<1>1. f \in Seq(Share) /\ b \in Seq(Share)
  BY DEF Once
<1> DEFINE h == f \o b
           u == Len(f)
           v == Len(b)
<1>2. /\ h \in Seq(Share) /\ Len(h) = u + v /\ u \in Nat /\ v \in Nat
      /\ DOMAIN h = 1 .. u + v /\ DOMAIN f = 1 .. u /\ DOMAIN b = 1 .. v
  BY <1>1
<1>3. \A i \in 1 .. u + v : h[i] = IF i <= u THEN f[i] ELSE b[i - u]
  BY <1>1, ConcatProperties, Zenon
<1> HIDE DEF h, u, v
<1>4. /\ \A i \in 1 .. u : h[i] = f[i]
      /\ \A i \in 1 .. v : h[i + u] = b[i] /\ i + u \in 1 .. u + v
      /\ \A i \in 1 .. u + v : i \in 1 .. u \/ (i - u \in 1 .. v /\ h[i] = b[i - u])
  BY <1>2, <1>3
<1>5. /\ {f[i] : i \in 1 .. u} = S /\ {b[i] : i \in 1 .. v} = T
      /\ \A i, j \in 1 .. u : f[i] = f[j] => i = j
      /\ \A i, j \in 1 .. v : b[i] = b[j] => i = j
  BY <1>2 DEF Once
<1>6. {h[i] : i \in 1 .. u + v} = S \cup T
  <2>1. ASSUME NEW i \in 1 .. u + v PROVE h[i] \in S \cup T
    BY <1>4, <1>5
  <2>2. ASSUME NEW e \in S PROVE \E i \in 1 .. u + v : h[i] = e
    <3>1. PICK i \in 1 .. u : f[i] = e BY <1>5
    <3>2. i \in 1 .. u + v BY <1>2
    <3> QED BY <1>4, <3>1, <3>2
  <2>3. ASSUME NEW e \in T PROVE \E i \in 1 .. u + v : h[i] = e
    <3>1. PICK i \in 1 .. v : b[i] = e BY <1>5
    <3> QED BY <1>4, <3>1
  <2> QED BY <2>1, <2>2, <2>3
<1>7. ASSUME NEW i \in 1 .. u + v, NEW j \in 1 .. u + v, h[i] = h[j]
      PROVE  i = j
  <2>1. CASE i \in 1 .. u /\ j \in 1 .. u
    BY <1>4, <1>5, <1>7, <2>1
  <2>2. CASE i \notin 1 .. u /\ j \notin 1 .. u
    <3>1. i - u \in 1 .. v /\ j - u \in 1 .. v /\ b[i - u] = b[j - u] BY <1>4, <1>7, <2>2
    <3>2. i - u = j - u BY <1>5, <3>1
    <3> QED BY <1>2, <3>2
  <2>3. CASE i \in 1 .. u /\ j \notin 1 .. u
    <3>1. h[i] \in S /\ h[j] \in T BY <1>4, <1>5, <2>3
    <3> QED BY <1>7, <3>1
  <2>4. CASE i \notin 1 .. u /\ j \in 1 .. u
    <3>1. h[j] \in S /\ h[i] \in T BY <1>4, <1>5, <2>4
    <3> QED BY <1>7, <3>1
  <2> QED BY <2>1, <2>2, <2>3, <2>4
<1> QED BY <1>2, <1>6, <1>7 DEF Once, h

\* A list of shares is as long as they are many.
LEMMA OnceCounts ==
  ASSUME NEW f, NEW S, Once(f, S)
  PROVE  IsFiniteSet(S) /\ Len(f) = Cardinality(S)
<1>1. f \in Seq(Share) /\ Len(f) \in Nat /\ DOMAIN f = 1 .. Len(f)
  BY DEF Once
<1>2. /\ {f[i] : i \in 1 .. Len(f)} = S
      /\ \A i, j \in 1 .. Len(f) : f[i] = f[j] => i = j
  BY <1>1 DEF Once
<1>3. f \in [1 .. Len(f) -> S]
  BY <1>1, <1>2
<1>4. f \in Bijection(1 .. Len(f), S)
  BY <1>2, <1>3 DEF Bijection, Injection, Surjection, IsInjective
<1>5. IsFiniteSet(1 .. Len(f)) /\ Cardinality(1 .. Len(f)) = Len(f)
  BY <1>1, FS_Interval
<1>6. ExistsBijection(1 .. Len(f), S)
  BY <1>4 DEF ExistsBijection
<1> QED BY <1>5, <1>6, FS_Bijection

-----------------------------------------------------------------------------
(* Steps that leave ids and positions of the real particles alone.         *)

Kept(n, x) ==
  /\ DOMAIN cells'[n][x] = DOMAIN cells[n][x]
  /\ \A i \in DOMAIN cells[n][x] : /\ cells'[n][x][i].id = cells[n][x][i].id
                                   /\ cells'[n][x][i].pos = cells[n][x][i].pos

RealsKept == \A n \in Node, x \in RealCell : Kept(n, x)

\* Real cells are cells.
LEMMA RealIsCell == RealCell \subseteq Cell
<1> SUFFICES ASSUME NEW x \in RealCell PROVE x \in Cell
  OBVIOUS
<1>1. \A d \in Coord : CellGridSize[d] \in Nat
  BY Sizes
<1> QED BY <1>1, RealCellIs, CellIs

\* What is at home is a particle.
LEMMA HomeIs ==
  ASSUME Types, NEW n \in Node, NEW x \in Cell
  PROVE  /\ Home(n, x) \in Seq(Rec) /\ cells[n][x] \in Seq(Rec)
         /\ DOMAIN Home(n, x) = 1 .. Len(Home(n, x)) /\ Len(Home(n, x)) \in Nat
         /\ \A i \in DOMAIN Home(n, x) :
              /\ Home(n, x)[i].id \in Particle /\ Home(n, x)[i].pos \in Position
              /\ Seen(n, x, Home(n, x)[i].pos) \in Position
         /\ x \in RealCell => Home(n, x) = cells[n][x]
<1>1. MirrorNode(n, x) \in Node /\ MirrorCell(n, x) \in Cell
  BY Mirrors, RealIsCell
<1>2. Home(n, x) \in Seq(Rec) /\ cells[n][x] \in Seq(Rec)
  BY <1>1 DEF Types, Home
<1>3. DOMAIN Home(n, x) = 1 .. Len(Home(n, x)) /\ Len(Home(n, x)) \in Nat
      /\ \A i \in DOMAIN Home(n, x) : Home(n, x)[i] \in Rec
  BY <1>2
<1>4. \A i \in DOMAIN Home(n, x) : Home(n, x)[i].id \in Particle /\ Home(n, x)[i].pos \in Position
  BY <1>3 DEF Rec
<1>5. ASSUME NEW q \in Position PROVE Seen(n, x, q) \in Position
  <2>1. \A c \in Coord : BoxCopy(n, x, c) \in Int /\ BoxL(c) \in Int /\ q[c] \in Int
    <3>1. \A c \in Coord : BoxCopy(n, x, c) \in Int BY Mirrors
    <3>2. \A c \in Coord : BoxL(c) \in Int BY Sizes DEF BoxL, LocalSize
    <3> QED BY <3>1, <3>2 DEF Position
  <2>2. \A c \in Coord : q[c] + BoxCopy(n, x, c) * BoxL(c) \in Int
    BY <2>1
  <2> QED BY <2>2 DEF Seen, Position
<1>6. x \in RealCell => Home(n, x) = cells[n][x]
  BY Mirrors DEF Home
<1> QED BY <1>2, <1>3, <1>4, <1>5, <1>6

\* In a real cell nothing is seen but what is there.
LEMMA RealImage ==
  ASSUME Types, NEW n \in Node, NEW x \in RealCell
  PROVE  Image(n, x)
<1>1. x \in Cell
  BY RealIsCell
<1>2. Home(n, x) = cells[n][x]
  BY <1>1, HomeIs
<1>3. ASSUME NEW q \in Position PROVE Seen(n, x, q) = q
  <2>1. \A c \in Coord : BoxCopy(n, x, c) = 0 /\ BoxL(c) \in Int /\ q[c] \in Int
    <3>1. \A c \in Coord : BoxCopy(n, x, c) = 0 BY <1>1, Mirrors
    <3>2. \A c \in Coord : BoxL(c) \in Int BY Sizes DEF BoxL, LocalSize
    <3> QED BY <3>1, <3>2 DEF Position
  <2>2. \A c \in Coord : q[c] + BoxCopy(n, x, c) * BoxL(c) = q[c]
    BY <2>1
  <2> QED BY <2>2 DEF Seen, Position
<1>4. \A i \in DOMAIN Home(n, x) : Home(n, x)[i].pos \in Position
  BY <1>1, HomeIs
<1> QED BY <1>2, <1>3, <1>4 DEF Image, SameIds

\* What is at home stays at home.
LEMMA KeptHome ==
  ASSUME RealsKept, NEW n \in Node, NEW x \in Cell
  PROVE  /\ DOMAIN Home(n, x)' = DOMAIN Home(n, x)
         /\ \A i \in DOMAIN Home(n, x) : /\ Home(n, x)'[i].id = Home(n, x)[i].id
                                         /\ Home(n, x)'[i].pos = Home(n, x)[i].pos
<1>1. MirrorNode(n, x) \in Node /\ MirrorCell(n, x) \in RealCell
  BY Mirrors
<1> QED BY <1>1 DEF RealsKept, Kept, Home

\* Cells that keep their particles show the same, and mail stays good.
LEMMA KeptCell ==
  ASSUME RealsKept, NEW n \in Node, NEW x \in Cell, Kept(n, x)
  PROVE  (SameIds(n, x) => SameIds(n, x)') /\ (Image(n, x) => Image(n, x)')
<1>1. /\ DOMAIN Home(n, x)' = DOMAIN Home(n, x)
      /\ \A i \in DOMAIN Home(n, x) : /\ Home(n, x)'[i].id = Home(n, x)[i].id
                                      /\ Home(n, x)'[i].pos = Home(n, x)[i].pos
  BY KeptHome
<1>2. SameIds(n, x) => SameIds(n, x)'
  BY <1>1 DEF SameIds, Kept
<1>3. \A q : Seen(n, x, q)' = Seen(n, x, q)
  OBVIOUS
<1> QED BY <1>1, <1>2, <1>3 DEF Image, SameIds, Kept, Seen

\* A buffer that is good stays good.
LEMMA KeptGood ==
  ASSUME RealsKept, NEW n \in Node, NEW k \in 1 .. AtEnd - 1, NEW buf, Good(n, k, buf)
  PROVE  Good(n, k, buf)'
<1>1. Co(k) \in Coord /\ Di(k) \in {Left, Right}
  BY Phases
<1>2. CASE k < AtCalc
  <2>1. ASSUME NEW g \in Ghosts(Co(k), Di(k))
        PROVE  /\ DOMAIN buf[g] = DOMAIN Home(n, g)'
               /\ \A i \in DOMAIN Home(n, g)' : /\ buf[g][i].id = Home(n, g)'[i].id
                                                /\ buf[g][i].pos = Seen(n, g, Home(n, g)'[i].pos)
    <3>1. g \in Cell BY <1>1, SourceMirrors DEF GhostCell
    <3>2. DOMAIN buf = Ghosts(Co(k), Di(k)) BY <1>2 DEF Good
    <3>3. /\ DOMAIN buf[g] = DOMAIN Home(n, g)
          /\ \A i \in DOMAIN Home(n, g) : /\ buf[g][i].id = Home(n, g)[i].id
                                          /\ buf[g][i].pos = Seen(n, g, Home(n, g)[i].pos)
      BY <1>2, <3>2 DEF Good
    <3>4. /\ DOMAIN Home(n, g)' = DOMAIN Home(n, g)
          /\ \A i \in DOMAIN Home(n, g) : /\ Home(n, g)'[i].id = Home(n, g)[i].id
                                          /\ Home(n, g)'[i].pos = Home(n, g)[i].pos
      BY <3>1, KeptHome
    <3> QED BY <3>3, <3>4
  <2> QED BY <1>2, <2>1 DEF Good, Seen, BoxCopy, Global, BoxL, LocalSize
<1>3. CASE ~(k < AtCalc)
  <2>1. ASSUME NEW x \in Reals(Co(k), Di(k))
        PROVE  DOMAIN Home(n, x)' = DOMAIN Home(n, x)
    <3>1. x \in Cell BY <1>1, TargetMirrors
    <3> QED BY <3>1, KeptHome
  <2> QED BY <1>3, <2>1 DEF Good
<1> QED BY <1>2, <1>3

\* Particles stay real in one place.
LEMMA KeptPlace ==
  ASSUME RealsKept, OnePlace
  PROVE  OnePlace'
  BY DEF RealsKept, Kept, OnePlace

-----------------------------------------------------------------------------
(* Buffers.                                                                *)

\* A position moved on by one more border.
LEMMA ShiftSeen ==
  ASSUME NEW n \in Node, NEW c \in Coord, NEW dir \in {Left, Right}, NEW g \in Ghosts(c, dir),
         NEW q \in Position
  PROVE  Shifted(n, c, dir, Seen(n, Source(c, dir, g), q)) = Seen(NodeNeighbor(n, c, dir), g, q)
<1> DEFINE y == Source(c, dir, g)
           w == NodeNeighbor(n, c, dir)
           b == Boundary(n, c, dir)
<1>1. y \in Cell /\ \A e \in Coord : BoxCopy(w, g, e) = BoxCopy(n, y, e) + IF e = c THEN b ELSE 0
  BY SourceMirrors
<1>2. \A e \in Coord : BoxCopy(n, y, e) \in Int /\ BoxL(e) \in Int /\ q[e] \in Int
  <2>1. \A e \in Coord : BoxCopy(n, y, e) \in Int BY <1>1, Mirrors
  <2>2. \A e \in Coord : BoxL(e) \in Int BY Sizes DEF BoxL, LocalSize
  <2> QED BY <2>1, <2>2 DEF Position
<1>3. b \in Int
  BY DEF Boundary
<1>4. Shifted(n, c, dir, Seen(n, y, q)) =
        [e \in Coord |-> IF e = c THEN q[c] + BoxCopy(n, y, c) * BoxL(c) + b * BoxL(c)
                                  ELSE q[e] + BoxCopy(n, y, e) * BoxL(e)]
  BY DEF Shifted, Seen
<1> HIDE DEF y, w, b
<1>5. \A e \in Coord : q[e] + BoxCopy(w, g, e) * BoxL(e)
         = IF e = c THEN q[c] + BoxCopy(n, y, c) * BoxL(c) + b * BoxL(c)
                    ELSE q[e] + BoxCopy(n, y, e) * BoxL(e)
  <2> TAKE e \in Coord
  <2>1. CASE e = c
    <3>1. \A i, j, k \in Int : (i + j) * k = i * k + j * k /\ i * k \in Int
      OBVIOUS
    <3>2. BoxCopy(w, g, e) * BoxL(e) = BoxCopy(n, y, c) * BoxL(c) + b * BoxL(c)
      BY <1>1, <1>2, <1>3, <2>1, <3>1
    <3>3. BoxCopy(n, y, c) * BoxL(c) \in Int /\ b * BoxL(c) \in Int /\ q[c] \in Int
      BY <1>2, <1>3, <3>1
    <3> QED BY <2>1, <3>2, <3>3
  <2>2. CASE e # c
    <3>1. BoxCopy(w, g, e) = BoxCopy(n, y, e) BY <1>1, <1>2, <2>2
    <3> QED BY <2>2, <3>1
  <2> QED BY <2>1, <2>2
<1> QED BY <1>4, <1>5 DEF Seen, y, w

\* Nobody has added or removed particles while a node communicates.
LEMMA Untouched ==
  ASSUME Types, InStep, NEW n \in Node, at[n] # AtEnd
  PROVE  touched = FALSE
  BY DEF Types, InStep, AllAtEnd

\* The phase of a node that communicates.
LEMMA NowIs ==
  ASSUME Types, NEW n \in Node, Is(n, {"exchange", "update", "collect"})
  PROVE  /\ at[n] \in 1 .. AtEnd - 1 /\ at[n] # AtCalc
         /\ Now(n).op = Op(at[n]) /\ Now(n).coord = Co(at[n]) /\ Now(n).dir = Di(at[n])
         /\ Co(at[n]) \in Coord /\ Di(at[n]) \in {Left, Right}
         /\ Remote(n) <=> GridSize[Co(at[n])] > 1
         /\ ToGhosts(n) <=> at[n] < AtCalc
<1>1. at[n] \in 1 .. AtEnd - 1
  BY DEF Types, Is, AtEnd
<1>2. Now(n).op = Op(at[n]) /\ Now(n).coord = Co(at[n]) /\ Now(n).dir = Di(at[n])
  BY DEF Now, Op, Co, Di
<1>3. at[n] # AtCalc
  BY <1>1, <1>2, Phases DEF Is, AtCalc
<1>4. Op(at[n]) # "collect" <=> at[n] < AtCalc
  BY <1>1, <1>3, Phases DEF AtCalc, AtEnd
<1> QED BY <1>1, <1>2, <1>3, <1>4, Phases DEF Remote, ToGhosts

\* where node n sends the buffer of phase k to
To(n, k) == NodeNeighbor(n, Co(k), IF k < AtCalc THEN Di(k) ELSE Opposite(Di(k)))

\* A buffer comes from the node that sends there.
LEMMA FromTo ==
  ASSUME NEW n \in Node, NEW k \in 1 .. AtEnd - 1
  PROVE  /\ To(n, k) \in Node /\ From(n, k) \in Node
         /\ From(To(n, k), k) = n /\ To(From(n, k), k) = n
         /\ GridSize[Co(k)] = 1 => To(n, k) = n /\ From(n, k) = n
<1>1. Co(k) \in Coord /\ Di(k) \in {Left, Right}
  BY Phases
<1>2. Opposite(Di(k)) \in {Left, Right} /\ Opposite(Opposite(Di(k))) = Di(k)
  BY <1>1, Opposites
<1> QED BY <1>1, <1>2, Neighbours DEF From, To

\* A node fills its buffer with what the other side is to get.
LEMMA BufferGood ==
  ASSUME Types, InStep, GhostsFilled, ForcesAdded,
         NEW s \in Node, Is(s, {"exchange", "update", "collect"})
  PROVE  Good(To(s, at[s]), at[s], Buffer(s))
<1> DEFINE k == at[s]
           c == Co(k)
           dir == Di(k)
           w == To(s, k)
<1>1. k \in 1 .. AtEnd - 1 /\ k # AtCalc /\ c \in Coord /\ dir \in {Left, Right} /\ w \in Node
  BY NowIs, FromTo
<1>2. touched = FALSE
  <2>1. at[s] # AtEnd BY <1>1 DEF AtEnd
  <2> QED BY <2>1, Untouched
<1>3. CASE k < AtCalc
  <2>1. w = NodeNeighbor(s, c, dir)
    BY <1>3 DEF To
  <2>2. Buffer(s) = [g \in Ghosts(c, dir) |->
                       [i \in DOMAIN cells[s][Source(c, dir, g)] |->
                          [id |-> cells[s][Source(c, dir, g)][i].id,
                           pos |-> Shifted(s, c, dir, cells[s][Source(c, dir, g)][i].pos)]]]
    BY <1>3, NowIs DEF Buffer
  <2>3. ASSUME NEW g \in Ghosts(c, dir)
        PROVE  /\ DOMAIN Buffer(s)[g] = DOMAIN Home(w, g)
               /\ \A i \in DOMAIN Home(w, g) : /\ Buffer(s)[g][i].id = Home(w, g)[i].id
                                               /\ Buffer(s)[g][i].pos = Seen(w, g, Home(w, g)[i].pos)
    <3> DEFINE y == Source(c, dir, g)
    <3>1. y \in Reals(c, dir) /\ y \in Cell /\ Home(w, g) = Home(s, y)
      BY <1>1, <2>1, SourceMirrors DEF Home
    <3>2. Done(y, 2 * c + dir + 1)
      BY <1>1, <3>1, DoneReals
    <3>3. Image(s, y)
      <4>1. CASE k < 7
        <5>1. k = 2 * c + dir + 1 BY <1>1, <4>1, Phases
        <5> QED BY <3>1, <3>2, <4>1, <5>1 DEF GhostsFilled, AtUpdate
      <4>2. CASE ~(k < 7)
        <5>1. k >= 7 /\ k < 13 BY <1>1, <1>3, <4>2 DEF AtCalc
        <5>2. k - 6 = 2 * c + dir + 1 BY <1>1, <5>1, Phases DEF Coord, Left, Right
        <5> QED BY <1>2, <3>1, <3>2, <5>1, <5>2 DEF GhostsFilled, AtUpdate
      <4> QED BY <4>1, <4>2
    <3>4. ASSUME NEW i \in DOMAIN Home(s, y)
          PROVE  Shifted(s, c, dir, cells[s][y][i].pos) = Seen(w, g, Home(s, y)[i].pos)
      <4>1. cells[s][y][i].pos = Seen(s, y, Home(s, y)[i].pos) BY <3>3 DEF Image
      <4>2. Home(s, y)[i].pos \in Position BY <3>1, HomeIs
      <4> QED BY <1>1, <2>1, <4>1, <4>2, ShiftSeen
    <3>5. Buffer(s)[g] = [i \in DOMAIN cells[s][y] |->
                            [id |-> cells[s][y][i].id, pos |-> Shifted(s, c, dir, cells[s][y][i].pos)]]
      BY <2>2
    <3> HIDE DEF y, c, dir, w
    <3> QED BY <3>1, <3>3, <3>4, <3>5 DEF Image, SameIds
  <2>4. DOMAIN Buffer(s) = Ghosts(c, dir)
    BY <2>2
  <2> QED BY <1>3, <2>3, <2>4 DEF Good
<1>4. CASE ~(k < AtCalc)
  <2>1. w = NodeNeighbor(s, c, Opposite(dir)) /\ s = NodeNeighbor(w, c, dir) /\ From(w, k) = s
    BY <1>1, <1>4, FromTo DEF To, From
  <2>2. Buffer(s) = [x \in Reals(c, dir) |->
                       [i \in DOMAIN cells[s][Target(c, dir, x)] |-> cells[s][Target(c, dir, x)][i].f]]
    BY <1>4, NowIs DEF Buffer
  <2>3. ASSUME NEW x \in Reals(c, dir)
        PROVE  /\ DOMAIN Buffer(s)[x] = DOMAIN Home(w, x)
               /\ \A i \in DOMAIN Home(w, x) :
                    Once(Buffer(s)[x][i], Shares(From(w, k), Target(c, dir, x), k))
    <3> DEFINE g == Target(c, dir, x)
    <3>1. g \in Cell /\ Home(w, x) = Home(s, g)
      BY <1>1, <2>1, TargetMirrors DEF Home
    <3>2. k > 13 /\ k >= 7
      BY <1>1, <1>4 DEF AtCalc
    <3>3. SameIds(s, g)
      BY <1>2, <3>1, <3>2 DEF GhostsFilled, AtUpdate
    <3>4. \A i \in DOMAIN cells[s][g] : Once(cells[s][g][i].f, Shares(s, g, k))
      BY <1>2, <3>1, <3>2 DEF ForcesAdded, AtCalc
    <3>5. Buffer(s)[x] = [i \in DOMAIN cells[s][g] |-> cells[s][g][i].f]
      BY <2>2
    <3> HIDE DEF g, c, dir, w
    <3> QED BY <2>1, <3>1, <3>3, <3>4, <3>5 DEF SameIds, g
  <2>4. DOMAIN Buffer(s) = Reals(c, dir)
    BY <2>2
  <2> QED BY <1>4, <2>3, <2>4 DEF Good
<1> QED BY <1>3, <1>4

-----------------------------------------------------------------------------
(* What a buffer does to the cells of its receiver.                        *)

\* A function on 1 .. T is a list.
LEMMA ListIs ==
  ASSUME NEW S, NEW T \in Nat, NEW s \in [1 .. T -> S]
  PROVE  s \in Seq(S) /\ Len(s) = T /\ DOMAIN s = 1 .. T
  OBVIOUS

\* the cells of node n after the buffer
Delivered(n, buf) ==
  /\ \A m \in Node \ {n} : cells'[m] = cells[m]
  /\ \A x \in Cell : x \notin DOMAIN buf => cells'[n][x] = cells[n][x]
  /\ \A x \in Cell : x \in DOMAIN buf /\ at[n] < AtUpdate =>
       cells'[n][x] = [i \in DOMAIN buf[x] |-> Copy(buf[x][i].id, buf[x][i].pos)]
  /\ \A x \in Cell : x \in DOMAIN buf /\ at[n] >= AtUpdate /\ at[n] < AtCalc =>
       cells'[n][x] = [i \in DOMAIN cells[n][x] |-> [cells[n][x][i] EXCEPT !.pos = buf[x][i].pos]]
  /\ \A x \in Cell : x \in DOMAIN buf /\ at[n] > AtCalc =>
       cells'[n][x] = [i \in DOMAIN cells[n][x] |-> [cells[n][x][i] EXCEPT !.f = @ \o buf[x][i]]]
  /\ cells' = [m \in Node |-> cells'[m]] /\ cells'[n] = [x \in Cell |-> cells'[n][x]]

\* unpackPositionsEtc and unpackAndAddForces, cell by cell.
LEMMA UnpackedIs ==
  ASSUME Types, NEW n \in Node, Is(n, {"exchange", "update", "collect"}), NEW buf,
         Good(n, at[n], buf), cells' = [cells EXCEPT ![n] = Unpacked(n, buf)]
  PROVE  Delivered(n, buf)
<1>1. /\ at[n] \in 1 .. AtEnd - 1 /\ Now(n).op = Op(at[n])
  BY NowIs
<1>2. /\ at[n] < AtUpdate => Now(n).op = "exchange"
      /\ at[n] >= AtUpdate /\ at[n] < AtCalc => Now(n).op = "update"
      /\ at[n] > AtCalc => Now(n).op = "collect"
  BY <1>1, Phases DEF AtUpdate, AtCalc
<1>3. cells'[n] = Unpacked(n, buf) /\ \A m \in Node \ {n} : cells'[m] = cells[m]
  BY DEF Types
<1>4. ASSUME NEW x \in Cell
      PROVE  /\ x \notin DOMAIN buf => Unpacked(n, buf)[x] = cells[n][x]
             /\ x \in DOMAIN buf /\ Now(n).op = "exchange" => Unpacked(n, buf)[x] = Exchanged(cells[n][x], buf[x])
             /\ x \in DOMAIN buf /\ Now(n).op = "update" => Unpacked(n, buf)[x] = Updated(cells[n][x], buf[x])
             /\ x \in DOMAIN buf /\ Now(n).op = "collect" => Unpacked(n, buf)[x] = Added(cells[n][x], buf[x])
  BY DEF Unpacked
<1>5. /\ cells' = [m \in Node |-> cells'[m]] /\ cells'[n] = [x \in Cell |-> cells'[n][x]]
  <2>1. cells' = [m \in Node |-> cells'[m]]
    BY DEF Types
  <2> DEFINE B(x) == IF x \notin DOMAIN buf THEN cells[n][x]
                     ELSE CASE Now(n).op = "exchange" -> Exchanged(cells[n][x], buf[x])
                            [] Now(n).op = "update"   -> Updated(cells[n][x], buf[x])
                            [] Now(n).op = "collect"  -> Added(cells[n][x], buf[x])
  <2>2. Unpacked(n, buf) = [x \in Cell |-> B(x)]
    BY Zenon DEF Unpacked
  <2> HIDE DEF B
  <2>3. Unpacked(n, buf) = [x \in Cell |-> Unpacked(n, buf)[x]]
    BY <2>2
  <2> QED BY <1>3, <2>1, <2>3
<1> QED BY <1>2, <1>3, <1>4, <1>5 DEF Exchanged, Updated, Added, Delivered

\* Ids and positions of real particles stay, lists stay lists.
LEMMA UnpackedKeeps ==
  ASSUME Types, InStep, GhostsFilled, ForcesAdded,
         NEW n \in Node, Is(n, {"exchange", "update", "collect"}), NEW buf,
         Good(n, at[n], buf), cells' = [cells EXCEPT ![n] = Unpacked(n, buf)]
  PROVE  /\ RealsKept
         /\ \A m \in Node, x \in Cell : m # n \/ x \notin DOMAIN buf \/ at[n] > AtCalc => Kept(m, x)
         /\ \A x \in Cell : at[n] >= AtUpdate =>
              /\ DOMAIN cells'[n][x] = DOMAIN cells[n][x]
              /\ \A i \in DOMAIN cells[n][x] : cells'[n][x][i].id = cells[n][x][i].id
         /\ cells' \in [Node -> [Cell -> Seq(Rec)]]
<1> DEFINE k == at[n]
           c == Co(k)
           dir == Di(k)
<1>1. k \in 1 .. AtEnd - 1 /\ k # AtCalc /\ c \in Coord /\ dir \in {Left, Right}
  BY NowIs
<1>2. touched = FALSE
  <2>1. at[n] # AtEnd BY <1>1 DEF AtEnd
  <2> QED BY <2>1, Untouched
<1>3. /\ \A m \in Node \ {n} : cells'[m] = cells[m]
      /\ \A x \in Cell : x \notin DOMAIN buf => cells'[n][x] = cells[n][x]
      /\ \A x \in Cell : x \in DOMAIN buf /\ k < AtUpdate =>
           cells'[n][x] = [i \in DOMAIN buf[x] |-> Copy(buf[x][i].id, buf[x][i].pos)]
      /\ \A x \in Cell : x \in DOMAIN buf /\ k >= AtUpdate /\ k < AtCalc =>
           cells'[n][x] = [i \in DOMAIN cells[n][x] |-> [cells[n][x][i] EXCEPT !.pos = buf[x][i].pos]]
      /\ \A x \in Cell : x \in DOMAIN buf /\ k > AtCalc =>
           cells'[n][x] = [i \in DOMAIN cells[n][x] |-> [cells[n][x][i] EXCEPT !.f = @ \o buf[x][i]]]
      /\ cells' = [m \in Node |-> cells'[m]] /\ cells'[n] = [x \in Cell |-> cells'[n][x]]
  <2>1. Delivered(n, buf)
    BY UnpackedIs
  <2> QED BY <2>1, Zenon DEF Delivered
<1>4. \A m \in Node, x \in Cell : m # n \/ x \notin DOMAIN buf => Kept(m, x) /\ cells'[m][x] = cells[m][x]
  BY <1>3 DEF Kept
<1>5. \A m \in Node, x \in Cell :
        /\ cells[m][x] \in Seq(Rec) /\ DOMAIN cells[m][x] = 1 .. Len(cells[m][x]) /\ Len(cells[m][x]) \in Nat
        /\ \A i \in DOMAIN cells[m][x] : cells[m][x][i] \in Rec
  <2>1. \A m \in Node, x \in Cell : cells[m][x] \in Seq(Rec)
    BY DEF Types
  <2> QED BY <2>1
<1>6. CASE k < AtCalc
  <2>1. DOMAIN buf = Ghosts(c, dir)
    BY <1>6 DEF Good
  <2>2. \A x \in RealCell : x \in Cell /\ x \notin DOMAIN buf
    BY <1>1, <2>1, RealIsNoGhost, RealIsCell
  <2>3. RealsKept
    BY <1>4, <2>2 DEF RealsKept
  <2>4. ASSUME NEW x \in Cell, x \in DOMAIN buf
        PROVE  /\ cells'[n][x] \in Seq(Rec)
               /\ k >= AtUpdate => /\ DOMAIN cells'[n][x] = DOMAIN cells[n][x]
                                   /\ \A i \in DOMAIN cells[n][x] : cells'[n][x][i].id = cells[n][x][i].id
    <3>1. /\ DOMAIN buf[x] = DOMAIN Home(n, x)
          /\ \A i \in DOMAIN Home(n, x) : /\ buf[x][i].id = Home(n, x)[i].id
                                          /\ buf[x][i].pos = Seen(n, x, Home(n, x)[i].pos)
      BY <1>6, <2>4 DEF Good
    <3>2. /\ DOMAIN Home(n, x) = 1 .. Len(Home(n, x)) /\ Len(Home(n, x)) \in Nat
          /\ \A i \in DOMAIN Home(n, x) : /\ Home(n, x)[i].id \in Particle
                                          /\ Seen(n, x, Home(n, x)[i].pos) \in Position
      BY HomeIs
    <3>3. \A i \in DOMAIN buf[x] : buf[x][i].id \in Particle /\ buf[x][i].pos \in Position
      BY <3>1, <3>2
    <3>4. CASE k < AtUpdate
      <4>1. cells'[n][x] = [i \in DOMAIN buf[x] |-> Copy(buf[x][i].id, buf[x][i].pos)]
        BY <1>3, <2>4, <3>4
      <4>2. \A i \in DOMAIN buf[x] : Copy(buf[x][i].id, buf[x][i].pos) \in Rec
        BY <3>3 DEF Copy, Rec
      <4>3. cells'[n][x] \in Seq(Rec)
        <5>1. cells'[n][x] \in [1 .. Len(Home(n, x)) -> Rec] BY <3>1, <3>2, <4>1, <4>2
        <5> QED BY <3>2, <5>1, ListIs
      <4> QED BY <1>1, <3>4, <4>3 DEF AtUpdate
    <3>5. CASE k >= AtUpdate
      <4>1. cells'[n][x] = [i \in DOMAIN cells[n][x] |-> [cells[n][x][i] EXCEPT !.pos = buf[x][i].pos]]
        BY <1>3, <1>6, <2>4, <3>5
      <4>2. SameIds(n, x)
        BY <1>2, <3>5 DEF GhostsFilled
      <4>3. DOMAIN cells[n][x] = DOMAIN buf[x]
        BY <3>1, <4>2 DEF SameIds
      <4>4. ASSUME NEW i \in DOMAIN cells[n][x]
            PROVE  /\ [cells[n][x][i] EXCEPT !.pos = buf[x][i].pos] \in Rec
                   /\ [cells[n][x][i] EXCEPT !.pos = buf[x][i].pos].id = cells[n][x][i].id
        <5>1. cells[n][x][i] \in Rec BY <1>5
        <5> QED BY <3>3, <4>3, <5>1 DEF Rec
      <4>5. cells'[n][x] \in Seq(Rec)
        <5>1. DOMAIN cells[n][x] = 1 .. Len(cells[n][x]) /\ Len(cells[n][x]) \in Nat BY <1>5
        <5>2. cells'[n][x] \in [1 .. Len(cells[n][x]) -> Rec] BY <4>1, <4>4, <5>1
        <5> QED BY <5>1, <5>2, ListIs
      <4> QED BY <4>1, <4>4, <4>5
    <3> QED BY <1>1, <3>4, <3>5 DEF AtUpdate
  <2>5. \A x \in Cell : cells'[n][x] \in Seq(Rec)
    BY <1>4, <1>5, <2>4
  <2>6. cells' \in [Node -> [Cell -> Seq(Rec)]]
    <3>1. cells'[n] \in [Cell -> Seq(Rec)] BY <1>3, <2>5
    <3>2. \A m \in Node : cells'[m] \in [Cell -> Seq(Rec)] BY <1>3, <3>1 DEF Types
    <3> QED BY <1>3, <3>2
  <2>7. \A x \in Cell : at[n] >= AtUpdate =>
          /\ DOMAIN cells'[n][x] = DOMAIN cells[n][x]
          /\ \A i \in DOMAIN cells[n][x] : cells'[n][x][i].id = cells[n][x][i].id
    BY <1>3, <2>4
  <2>8. \A m \in Node, x \in Cell : m # n \/ x \notin DOMAIN buf \/ at[n] > AtCalc => Kept(m, x)
    BY <1>1, <1>4, <1>6 DEF AtCalc
  <2> QED BY <2>3, <2>6, <2>7, <2>8
<1>7. CASE ~(k < AtCalc)
  <2>1. k > AtCalc /\ k >= AtUpdate
    BY <1>1, <1>7 DEF AtCalc, AtUpdate
  <2>2. DOMAIN buf = Reals(c, dir)
    BY <1>7 DEF Good
  <2>3. ASSUME NEW x \in Cell, x \in DOMAIN buf
        PROVE  Kept(n, x) /\ cells'[n][x] \in Seq(Rec)
    <3>1. cells'[n][x] = [i \in DOMAIN cells[n][x] |-> [cells[n][x][i] EXCEPT !.f = @ \o buf[x][i]]]
      BY <1>3, <2>1, <2>3
    <3>2. DOMAIN buf[x] = DOMAIN Home(n, x) /\ SameIds(n, x)
      BY <1>2, <1>7, <2>1, <2>3 DEF Good, GhostsFilled
    <3>3. ASSUME NEW i \in DOMAIN cells[n][x]
          PROVE  /\ [cells[n][x][i] EXCEPT !.f = @ \o buf[x][i]] \in Rec
                 /\ [cells[n][x][i] EXCEPT !.f = @ \o buf[x][i]].id = cells[n][x][i].id
                 /\ [cells[n][x][i] EXCEPT !.f = @ \o buf[x][i]].pos = cells[n][x][i].pos
      <4>1. cells[n][x][i] \in Rec BY <1>5
      <4>2. i \in DOMAIN Home(n, x) BY <3>2 DEF SameIds
      <4>3. Once(buf[x][i], Shares(From(n, k), Target(c, dir, x), k))
        BY <1>7, <2>3, <4>2 DEF Good
      <4>4. buf[x][i] \in Seq(Share) /\ cells[n][x][i].f \in Seq(Share)
        BY <4>1, <4>3 DEF Once, Rec
      <4>5. cells[n][x][i].f \o buf[x][i] \in Seq(Share)
        BY <4>4, ConcatProperties
      <4> HIDE DEF k, c, dir
      <4> QED BY <4>1, <4>5 DEF Rec
    <3>4. cells'[n][x] \in Seq(Rec)
      <4>1. DOMAIN cells[n][x] = 1 .. Len(cells[n][x]) /\ Len(cells[n][x]) \in Nat BY <1>5
      <4> DEFINE e(i) == [cells[n][x][i] EXCEPT !.f = @ \o buf[x][i]]
      <4>2. cells'[n][x] = [i \in 1 .. Len(cells[n][x]) |-> e(i)] BY <3>1, <4>1, Zenon
      <4>3. \A i \in 1 .. Len(cells[n][x]) : e(i) \in Rec BY <3>3, <4>1, Zenon
      <4> HIDE DEF e
      <4>4. cells'[n][x] \in [1 .. Len(cells[n][x]) -> Rec] BY <4>2, <4>3
      <4> QED BY <4>1, <4>4, ListIs
    <3> QED BY <3>1, <3>3, <3>4 DEF Kept
  <2>4. \A m \in Node, x \in Cell : Kept(m, x)
    BY <1>4, <2>3
  <2>5. RealsKept
    BY <2>4, RealIsCell DEF RealsKept
  <2>6. \A x \in Cell : cells'[n][x] \in Seq(Rec)
    BY <1>4, <1>5, <2>3
  <2>7. cells' \in [Node -> [Cell -> Seq(Rec)]]
    <3>1. cells'[n] \in [Cell -> Seq(Rec)] BY <1>3, <2>6
    <3>2. \A m \in Node : cells'[m] \in [Cell -> Seq(Rec)] BY <1>3, <3>1 DEF Types
    <3> QED BY <1>3, <3>2
  <2> QED BY <2>4, <2>5, <2>7 DEF Kept
<1> QED BY <1>6, <1>7

\* The ghost cells of the buffer show what they mirror.
LEMMA FilledImage ==
  ASSUME Types, InStep, GhostsFilled, ForcesAdded,
         NEW n \in Node, Is(n, {"exchange", "update", "collect"}), at[n] < AtCalc, NEW buf,
         Good(n, at[n], buf), cells' = [cells EXCEPT ![n] = Unpacked(n, buf)],
         NEW x \in Cell, x \in DOMAIN buf
  PROVE  Image(n, x)' /\ Ids(cells'[n][x]) = Ids(buf[x])
<1>1. at[n] \in 1 .. AtEnd - 1
  BY NowIs
<1>2. touched = FALSE
  <2>1. at[n] # AtEnd BY <1>1 DEF AtEnd
  <2> QED BY <2>1, Untouched
<1>3. /\ DOMAIN buf[x] = DOMAIN Home(n, x)
      /\ \A i \in DOMAIN Home(n, x) : /\ buf[x][i].id = Home(n, x)[i].id
                                      /\ buf[x][i].pos = Seen(n, x, Home(n, x)[i].pos)
  BY DEF Good
<1>4. RealsKept
  BY UnpackedKeeps, Zenon
<1>5. /\ DOMAIN Home(n, x)' = DOMAIN Home(n, x)
      /\ \A i \in DOMAIN Home(n, x) : /\ Home(n, x)'[i].id = Home(n, x)[i].id
                                      /\ Home(n, x)'[i].pos = Home(n, x)[i].pos
  BY <1>4, KeptHome
<1>6. /\ at[n] < AtUpdate =>
           cells'[n][x] = [i \in DOMAIN buf[x] |-> Copy(buf[x][i].id, buf[x][i].pos)]
      /\ at[n] >= AtUpdate =>
           cells'[n][x] = [i \in DOMAIN cells[n][x] |-> [cells[n][x][i] EXCEPT !.pos = buf[x][i].pos]]
  <2>1. Delivered(n, buf)
    BY UnpackedIs
  <2> QED BY <2>1 DEF Delivered
<1>7. /\ DOMAIN cells'[n][x] = DOMAIN buf[x]
      /\ \A i \in DOMAIN buf[x] : cells'[n][x][i].id = buf[x][i].id /\ cells'[n][x][i].pos = buf[x][i].pos
  <2>1. CASE at[n] < AtUpdate
    BY <1>6, <2>1 DEF Copy
  <2>2. CASE at[n] >= AtUpdate
    <3>1. SameIds(n, x)
      BY <1>2, <2>2 DEF GhostsFilled
    <3>2. /\ DOMAIN cells[n][x] = DOMAIN buf[x]
          /\ \A i \in DOMAIN buf[x] : cells[n][x][i].id = buf[x][i].id
      BY <1>3, <3>1 DEF SameIds
    <3>3. \A i \in DOMAIN cells[n][x] : cells[n][x][i] \in Rec
      <4>1. cells[n][x] \in Seq(Rec) BY HomeIs
      <4> QED BY <4>1
    <3> QED BY <1>6, <2>2, <3>2, <3>3 DEF Rec
  <2> QED BY <1>1, <2>1, <2>2 DEF AtUpdate
<1>8. Image(n, x)'
  <2>1. /\ DOMAIN cells'[n][x] = DOMAIN Home(n, x)'
        /\ \A i \in DOMAIN Home(n, x)' : /\ cells'[n][x][i].id = Home(n, x)'[i].id
                                         /\ cells'[n][x][i].pos = Seen(n, x, Home(n, x)'[i].pos)
    BY <1>3, <1>5, <1>7
  <2> QED BY <2>1 DEF Image, SameIds, Seen, BoxCopy, Global, BoxL, LocalSize
<1>9. Ids(cells'[n][x]) = Ids(buf[x])
  BY <1>7 DEF Ids
<1> QED BY <1>8, <1>9

\* The ghosts that are filled are images, also after the buffer.
LEMMA FilledNext ==
  ASSUME Types, InStep, GhostsFilled, ForcesAdded,
         NEW n \in Node, Is(n, {"exchange", "update", "collect"}), NEW buf,
         Good(n, at[n], buf), cells' = [cells EXCEPT ![n] = Unpacked(n, buf)],
         at' = [at EXCEPT ![n] = @ + 1], touched' = touched
  PROVE  GhostsFilled'
<1> DEFINE k == at[n]
           c == Co(k)
           dir == Di(k)
<1>1. k \in 1 .. AtEnd - 1 /\ k # AtCalc /\ c \in Coord /\ dir \in {Left, Right}
  BY NowIs
<1>2. touched = FALSE
  <2>1. at[n] # AtEnd BY <1>1 DEF AtEnd
  <2> QED BY <2>1, Untouched
<1>3. at'[n] = k + 1 /\ \A m \in Node \ {n} : at'[m] = at[m]
  BY DEF Types
<1>4. /\ RealsKept
      /\ \A m \in Node, x \in Cell : m # n \/ x \notin DOMAIN buf \/ k > AtCalc => Kept(m, x)
  BY UnpackedKeeps, Zenon
<1>5. k < AtCalc => \A x \in Cell : x \in DOMAIN buf => Image(n, x)'
  BY FilledImage, Zenon
<1>6. k < AtCalc => DOMAIN buf = Ghosts(c, dir)
  BY DEF Good
<1>7. \A m \in Node, x \in Cell : m # n \/ x \notin DOMAIN buf \/ k > AtCalc =>
        (SameIds(m, x) => SameIds(m, x)') /\ (Image(m, x) => Image(m, x)')
  BY <1>4, KeptCell
<1> HIDE DEF k, c, dir
<1> SUFFICES ASSUME NEW m \in Node, NEW x \in Cell
             PROVE  /\ at'[m] < AtUpdate /\ Done(x, at'[m]) => Image(m, x)'
                    /\ at'[m] >= AtUpdate =>
                         /\ SameIds(m, x)'
                         /\ Done(x, at'[m] - 6) => Image(m, x)'
  BY DEF GhostsFilled, Done, Ghosts, Slab, Box, Full, Inner, FrameGridSize
<1>8. CASE m # n
  BY <1>2, <1>3, <1>7, <1>8 DEF GhostsFilled
<1>9. CASE m = n /\ k < AtUpdate
  <2>1. k = 2 * c + dir + 1 /\ k < AtCalc
    BY <1>1, <1>9, Phases DEF AtUpdate, AtCalc, c, dir
  <2>2. Done(x, k + 1) => Image(n, x)'
    <3>1. CASE x \in DOMAIN buf BY <1>5, <2>1, <3>1
    <3>2. CASE x \notin DOMAIN buf
      <4>1. Done(x, k + 1) => Done(x, k) BY <1>1, <1>6, <2>1, <3>2, DoneNext
      <4> QED BY <1>7, <1>9, <3>2, <4>1 DEF GhostsFilled, k
    <3> QED BY <3>1, <3>2
  <2>3. k + 1 >= AtUpdate => Done(x, k + 1)
    BY <1>1, DoneLast DEF AtUpdate
  <2> QED BY <1>3, <1>9, <2>2, <2>3 DEF Image
<1>10. CASE m = n /\ k >= AtUpdate /\ k < AtCalc
  <2>1. k - 6 = 2 * c + dir + 1 /\ k + 1 - 6 = (k - 6) + 1 /\ k + 1 >= AtUpdate /\ ~(k + 1 < AtUpdate)
    BY <1>1, <1>10, Phases DEF AtUpdate, AtCalc, Coord, Left, Right, c, dir
  <2>2. SameIds(n, x) /\ (Done(x, k - 6) => Image(n, x))
    BY <1>2, <1>10 DEF GhostsFilled, k
  <2>3. CASE x \in DOMAIN buf
    <3>1. Image(n, x)' BY <1>5, <1>10, <2>3
    <3> QED BY <1>3, <1>10, <2>1, <3>1 DEF Image
  <2>4. CASE x \notin DOMAIN buf
    <3>1. Done(x, (k - 6) + 1) => Done(x, k - 6) BY <1>1, <1>6, <1>10, <2>1, <2>4, DoneNext
    <3>2. SameIds(n, x)' /\ (Done(x, k + 1 - 6) => Image(n, x)')
      <4>1. Done(x, k + 1 - 6) => Done(x, k - 6) BY <2>1, <3>1
      <4> QED BY <1>7, <2>2, <2>4, <4>1, Zenon
    <3>3. ~(at'[m] < AtUpdate) /\ at'[m] - 6 = k + 1 - 6
      BY <1>1, <1>3, <1>10, <2>1
    <3> QED BY <1>10, <3>2, <3>3, Zenon
  <2> QED BY <2>3, <2>4
<1>11. CASE m = n /\ k > AtCalc
  <2>1. k + 1 >= AtUpdate /\ ~(k + 1 < AtUpdate) /\ k >= AtUpdate /\ k - 6 \in Int /\ k - 6 >= 7
    BY <1>1, <1>11 DEF AtUpdate, AtCalc
  <2>2. SameIds(n, x) /\ Image(n, x)
    BY <1>2, <2>1, DoneLast DEF GhostsFilled, k
  <2> QED BY <1>3, <1>7, <1>11, <2>1, <2>2
<1> QED BY <1>1, <1>8, <1>9, <1>10, <1>11 DEF AtUpdate, AtCalc

\* The shares of a force are as they are to be, also after the buffer.
LEMMA ForcesNext ==
  ASSUME Types, InStep, GhostsFilled, ForcesAdded,
         NEW n \in Node, Is(n, {"exchange", "update", "collect"}), NEW buf,
         at[From(n, at[n])] >= at[n],
         Good(n, at[n], buf), cells' = [cells EXCEPT ![n] = Unpacked(n, buf)],
         at' = [at EXCEPT ![n] = @ + 1], touched' = touched
  PROVE  ForcesAdded'
<1> DEFINE k == at[n]
           c == Co(k)
           dir == Di(k)
           w == From(n, k)
<1>1. /\ k \in 1 .. AtEnd - 1 /\ k # AtCalc /\ c \in Coord /\ dir \in {Left, Right}
      /\ w \in Node /\ at[w] >= k /\ at[w] \in Int
  BY NowIs, FromTo DEF Types
<1>2. touched = FALSE
  <2>1. at[n] # AtEnd BY <1>1 DEF AtEnd
  <2> QED BY <2>1, Untouched
<1>3. at'[n] = k + 1 /\ (\A m \in Node \ {n} : at'[m] = at[m]) /\ \A m \in Node : at[m] \in 1 .. AtEnd
  BY DEF Types
<1>4. \A m \in Node : at[m] > AtCalc => at'[m] > AtCalc
  BY <1>1, <1>3 DEF AtCalc
<1>5. at'[n] > AtCalc => k > AtCalc /\ ~(k < AtCalc)
  BY <1>1, <1>3 DEF AtCalc
<1>6. /\ \A m \in Node \ {n} : cells'[m] = cells[m]
      /\ \A x \in Cell : x \notin DOMAIN buf => cells'[n][x] = cells[n][x]
      /\ \A x \in Cell : x \in DOMAIN buf /\ k > AtCalc =>
           cells'[n][x] = [i \in DOMAIN cells[n][x] |-> [cells[n][x][i] EXCEPT !.f = @ \o buf[x][i]]]
  <2>1. Delivered(n, buf)
    BY UnpackedIs
  <2> QED BY <2>1, Zenon DEF Delivered
<1>7. k > AtCalc /\ ~(k < AtCalc) =>
        /\ w = NodeNeighbor(n, c, dir) /\ k = 14 + 2 * (2 - c) + dir
        /\ DOMAIN buf = Reals(c, dir)
        /\ \A x \in DOMAIN buf :
             /\ DOMAIN buf[x] = DOMAIN Home(n, x)
             /\ \A i \in DOMAIN Home(n, x) : Once(buf[x][i], Shares(w, Target(c, dir, x), k))
  BY <1>1, Phases DEF Good, From, AtCalc
<1>8. \A m \in Node : at[m] > AtCalc =>
        /\ \A x \in Cell : \A l \in Shares(m, x, at[m]) : at[l[1]] > AtCalc
        /\ \A x \in Cell : \A i \in DOMAIN cells[m][x] : Once(cells[m][x][i].f, Shares(m, x, at[m]))
  BY <1>2 DEF ForcesAdded
<1> HIDE DEF k, c, dir, w
<1>9. ASSUME NEW x \in Cell, k > AtCalc, ~(k < AtCalc)
      PROVE  /\ \A l \in Shares(n, x, k + 1) : at[l[1]] > AtCalc
             /\ \A i \in DOMAIN cells'[n][x] : Once(cells'[n][x][i].f, Shares(n, x, k + 1))
  <2>1. /\ \A l \in Shares(n, x, k) : at[l[1]] > AtCalc
        /\ \A i \in DOMAIN cells[n][x] : Once(cells[n][x][i].f, Shares(n, x, k))
    BY <1>8, <1>9 DEF k
  <2>2. CASE x \notin DOMAIN buf
    <3>1. Shares(n, x, k + 1) = Shares(n, x, k)
      BY <1>1, <1>7, <1>9, <2>2, SharesSame
    <3> QED BY <1>6, <2>1, <2>2, <3>1
  <2>3. CASE x \in DOMAIN buf
    <3> DEFINE g == Target(c, dir, x)
    <3>1. /\ Shares(n, x, k + 1) = Shares(n, x, k) \cup Shares(w, g, k)
          /\ Shares(n, x, k) \cap Shares(w, g, k) = {}
      BY <1>1, <1>7, <1>9, <2>3, SharesMore
    <3>2. g \in Cell
      BY <1>1, <1>7, <1>9, <2>3, TargetMirrors
    <3>3. \A l \in Shares(w, g, k) : at[l[1]] > AtCalc
      <4>1. Shares(w, g, k) \subseteq Shares(w, g, at[w])
        BY <1>1, SharesGrow
      <4>2. at[w] > AtCalc
        BY <1>1, <1>9 DEF AtCalc
      <4> QED BY <1>1, <1>8, <3>2, <4>1, <4>2
    <3>4. SameIds(n, x)
      <4>1. k >= AtUpdate BY <1>1, <1>9 DEF AtCalc, AtUpdate
      <4> QED BY <1>2, <4>1 DEF GhostsFilled, k
    <3> HIDE DEF g
    <3>5. ASSUME NEW i \in DOMAIN cells[n][x]
          PROVE  Once(cells[n][x][i].f \o buf[x][i], Shares(n, x, k + 1))
      <4>1. i \in DOMAIN Home(n, x) BY <3>4 DEF SameIds
      <4>2. Once(buf[x][i], Shares(w, g, k)) BY <1>7, <1>9, <2>3, <4>1 DEF g
      <4>3. Once(cells[n][x][i].f, Shares(n, x, k)) BY <2>1
      <4> QED BY <3>1, <4>2, <4>3, OnceAdded
    <3>6. \A i \in DOMAIN cells[n][x] : cells[n][x][i] \in Rec
      <4>1. cells[n][x] \in Seq(Rec) BY HomeIs
      <4> QED BY <4>1
    <3>7. /\ DOMAIN cells'[n][x] = DOMAIN cells[n][x]
          /\ \A i \in DOMAIN cells[n][x] : cells'[n][x][i].f = cells[n][x][i].f \o buf[x][i]
      <4>1. cells'[n][x] = [i \in DOMAIN cells[n][x] |-> [cells[n][x][i] EXCEPT !.f = @ \o buf[x][i]]]
        BY <1>6, <1>9, <2>3
      <4> DEFINE e(i) == [cells[n][x][i] EXCEPT !.f = @ \o buf[x][i]]
      <4>2. cells'[n][x] = [i \in DOMAIN cells[n][x] |-> e(i)]
        BY <4>1, Zenon
      <4>3. \A i \in DOMAIN cells[n][x] : e(i).f = cells[n][x][i].f \o buf[x][i]
        BY <3>6 DEF Rec
      <4> HIDE DEF e
      <4> QED BY <4>2, <4>3
    <3> QED BY <2>1, <3>1, <3>3, <3>5, <3>7
  <2> QED BY <2>2, <2>3
<1>10. \A m \in Node, x \in Cell, j \in Int : \A l \in Shares(m, x, j) : l[1] \in Node
  BY DEF Shares, Share
<1> SUFFICES ASSUME NEW m \in Node, at'[m] > AtCalc, NEW x \in Cell
             PROVE  /\ \A l \in Shares(m, x, at'[m]) : at'[l[1]] > AtCalc
                    /\ \A i \in DOMAIN cells'[m][x] : Once(cells'[m][x][i].f, Shares(m, x, at'[m]))
  BY Zenon DEF ForcesAdded
<1>11. at'[m] \in Int
  BY <1>1, <1>3
<1>12. CASE m = n
  BY <1>3, <1>4, <1>5, <1>9, <1>10, <1>11, <1>12
<1>13. CASE m # n
  BY <1>3, <1>4, <1>6, <1>8, <1>10, <1>11, <1>13
<1> QED BY <1>12, <1>13

-----------------------------------------------------------------------------
(* The index of a node and its mail.                                       *)

\* what a buffer does to the index of node n: it keeps what it has, and what
\* is new to it are ids of the buffer
IndexTakes(n, buf) ==
  /\ index' \in [Node -> Index]
  /\ \A m \in Node \ {n} : index'[m] = index[m]
  /\ \A p \in DOMAIN index[n] : p \in DOMAIN index'[n] /\ index'[n][p] = index[n][p]
  /\ \A p \in DOMAIN index'[n] :
       \/ p \in DOMAIN index[n]
       \/ /\ at[n] < AtUpdate
          /\ index'[n][p] \in DOMAIN buf /\ p \in Ids(buf[index'[n][p]])
  /\ at[n] < AtUpdate => \A g \in DOMAIN buf : Ids(buf[g]) \subseteq DOMAIN index'[n]

\* Cells with the same ids in the same places.
LEMMA KeptIds ==
  ASSUME NEW s, NEW t, DOMAIN s = DOMAIN t, \A i \in DOMAIN t : s[i].id = t[i].id
  PROVE  Ids(s) = Ids(t)
  BY DEF Ids

\* The index leads to copies also after the buffer.
LEMMA IndexNext ==
  ASSUME Types, InStep, GhostsFilled, ForcesAdded, IndexLeads,
         NEW n \in Node, Is(n, {"exchange", "update", "collect"}), NEW buf,
         Good(n, at[n], buf), cells' = [cells EXCEPT ![n] = Unpacked(n, buf)],
         at' = [at EXCEPT ![n] = @ + 1], touched' = touched, IndexTakes(n, buf)
  PROVE  IndexLeads'
<1> DEFINE k == at[n]
           c == Co(k)
           dir == Di(k)
<1>1. k \in 1 .. AtEnd - 1 /\ k # AtCalc /\ c \in Coord /\ dir \in {Left, Right}
  BY NowIs
<1>2. touched = FALSE
  <2>1. at[n] # AtEnd BY <1>1 DEF AtEnd
  <2> QED BY <2>1, Untouched
<1>3. at'[n] = k + 1 /\ \A m \in Node \ {n} : at'[m] = at[m]
  BY DEF Types
<1>4. /\ \A m \in Node, x \in Cell : m # n \/ x \notin DOMAIN buf \/ k > AtCalc => Kept(m, x)
      /\ \A x \in Cell : k >= AtUpdate => /\ DOMAIN cells'[n][x] = DOMAIN cells[n][x]
                                          /\ \A i \in DOMAIN cells[n][x] : cells'[n][x][i].id = cells[n][x][i].id
  BY UnpackedKeeps, Zenon
<1>5. \A m \in Node, x \in Cell : m # n \/ x \notin DOMAIN buf \/ k >= AtUpdate => Ids(cells'[m][x]) = Ids(cells[m][x])
  <2> TAKE m \in Node, x \in Cell
  <2>1. CASE m # n \/ x \notin DOMAIN buf
    BY <1>4, <2>1, KeptIds DEF Kept
  <2>2. CASE m = n /\ k >= AtUpdate
    BY <1>4, <2>2, KeptIds
  <2> QED BY <2>1, <2>2
<1>6. k < AtUpdate => k < AtCalc /\ k = 2 * c + dir + 1 /\ ~(k >= AtUpdate) /\ DOMAIN buf = Ghosts(c, dir)
  <2> SUFFICES ASSUME k < AtUpdate PROVE k < AtCalc /\ k = 2 * c + dir + 1 /\ ~(k >= AtUpdate) /\ DOMAIN buf = Ghosts(c, dir)
    OBVIOUS
  <2>1. k < AtCalc /\ k = 2 * c + dir + 1 /\ ~(k >= AtUpdate)
    BY <1>1, Phases DEF AtUpdate, AtCalc
  <2> QED BY <2>1 DEF Good
<1>7. k < AtUpdate => \A x \in Cell : x \in DOMAIN buf => Ids(cells'[n][x]) = Ids(buf[x])
  <2>1. k < AtCalc => \A x \in Cell : x \in DOMAIN buf => Ids(cells'[n][x]) = Ids(buf[x])
    BY FilledImage, Zenon
  <2> QED BY <1>6, <2>1
<1>8. \A x \in RealCell : x \in Cell /\ Ids(cells'[n][x]) = Ids(cells[n][x])
  <2> TAKE x \in RealCell
  <2>1. x \in Cell BY RealIsCell
  <2>2. k < AtUpdate => x \notin DOMAIN buf
    BY <1>1, <1>6, RealIsNoGhost
  <2>3. k < AtUpdate \/ k >= AtUpdate
    BY <1>1 DEF AtUpdate
  <2> QED BY <1>5, <2>1, <2>2, <2>3
<1>9. /\ \A p \in DOMAIN index[n] : /\ index[n][p] \in Cell /\ p \in Ids(cells[n][index[n][p]])
                                    /\ k < AtUpdate => Done(index[n][p], k)
      /\ \A x \in Cell : \A p \in Ids(cells[n][x]) :
           /\ x \in RealCell => p \in DOMAIN index[n] /\ index[n][p] \in RealCell
           /\ Done(x, k) => p \in DOMAIN index[n]
  <2>1. \A p \in DOMAIN index[n] : index[n][p] \in Cell
    BY DEF Types, Index
  <2> QED BY <1>2, <2>1, Zenon DEF IndexLeads
<1>10. k >= AtUpdate => \A x : Done(x, k)
  BY <1>1, DoneLast DEF AtUpdate
<1>11. k < AtUpdate => \A x : Done(x, k + 1) <=> Done(x, k) \/ x \in DOMAIN buf
  BY <1>1, <1>6, DoneNext
<1>12. k < AtUpdate => \A x : Done(x, k) => x \notin DOMAIN buf
  <2>1. 2 * c + dir + 1 \in Int BY <1>1 DEF Coord, Left, Right
  <2> QED BY <1>1, <1>6, <2>1 DEF Done
<1> HIDE DEF k, c, dir
<1>13. ASSUME NEW p \in DOMAIN index'[n]
       PROVE  /\ p \in Ids(cells'[n][index'[n][p]])
              /\ k + 1 < AtUpdate => Done(index'[n][p], k + 1)
  <2>1. CASE p \in DOMAIN index[n]
    <3>1. index'[n][p] = index[n][p] BY <2>1 DEF IndexTakes
    <3>2. CASE k >= AtUpdate
      <4>1. ~(k + 1 < AtUpdate) BY <1>1, <3>2 DEF AtUpdate
      <4> QED BY <1>5, <1>9, <2>1, <3>1, <3>2, <4>1
    <3>3. CASE k < AtUpdate
      BY <1>5, <1>9, <1>11, <1>12, <2>1, <3>1, <3>3
    <3> QED BY <1>1, <3>2, <3>3 DEF AtUpdate
  <2>2. CASE p \notin DOMAIN index[n]
    <3>1. k < AtUpdate /\ index'[n][p] \in DOMAIN buf /\ p \in Ids(buf[index'[n][p]])
      BY <2>2 DEF IndexTakes, k
    <3>2. index'[n][p] \in Cell
      BY <1>1, <1>6, <3>1, SourceMirrors DEF GhostCell
    <3> QED BY <1>7, <1>11, <3>1, <3>2
  <2> QED BY <2>1, <2>2
<1>14. ASSUME NEW x \in Cell, NEW p \in Ids(cells'[n][x])
       PROVE  /\ x \in RealCell => p \in DOMAIN index'[n] /\ index'[n][p] \in RealCell
              /\ Done(x, k + 1) => p \in DOMAIN index'[n]
  <2>1. x \in RealCell => p \in DOMAIN index'[n] /\ index'[n][p] \in RealCell
    BY <1>8, <1>9, <1>14 DEF IndexTakes
  <2>2. Done(x, k + 1) => p \in DOMAIN index'[n]
    <3>1. CASE k >= AtUpdate
      BY <1>5, <1>9, <1>10, <1>14, <3>1 DEF IndexTakes
    <3>2. CASE k < AtUpdate /\ x \in DOMAIN buf
      BY <1>7, <1>14, <3>2 DEF IndexTakes, k
    <3>3. CASE k < AtUpdate /\ x \notin DOMAIN buf
      BY <1>5, <1>9, <1>11, <1>14, <3>3 DEF IndexTakes
    <3> QED BY <1>1, <3>1, <3>2, <3>3 DEF AtUpdate
  <2> QED BY <2>1, <2>2
<1> SUFFICES ASSUME NEW m \in Node
             PROVE  /\ \A p \in DOMAIN index'[m] :
                         /\ p \in Ids(cells'[m][index'[m][p]])
                         /\ at'[m] < AtUpdate => Done(index'[m][p], at'[m])
                    /\ \A x \in Cell : \A p \in Ids(cells'[m][x]) :
                         /\ x \in RealCell => p \in DOMAIN index'[m] /\ index'[m][p] \in RealCell
                         /\ Done(x, at'[m]) /\ ~touched => p \in DOMAIN index'[m]
  BY Zenon DEF IndexLeads
<1>15. CASE m = n
  BY <1>3, <1>13, <1>14, <1>15
<1>16. CASE m # n
  <2>1. at'[m] = at[m] /\ index'[m] = index[m] /\ \A x \in Cell : Ids(cells'[m][x]) = Ids(cells[m][x])
    BY <1>3, <1>5, <1>16 DEF IndexTakes
  <2>2. \A p \in DOMAIN index[m] : index[m][p] \in Cell
    BY DEF Types, Index
  <2> QED BY <2>1, <2>2 DEF IndexLeads
<1> QED BY <1>15, <1>16

\* A set of numbers has a least one.
LEMMA Least ==
  ASSUME NEW T \in SUBSET Nat, T # {}
  PROVE  \E a \in T : \A b \in T : a <= b
<1>1. T \subseteq Nat
  OBVIOUS
<1>2. PICK a \in T : \A b \in T : ~(<<b, a>> \in OpToRel(<, Nat))
  BY <1>1, WFMin, NatLessThanWellFounded, Zenon
<1>3. \A b \in T : ~(b < a)
  <2> SUFFICES ASSUME NEW b \in T, b < a PROVE FALSE
    OBVIOUS
  <2>1. <<b, a>> \in Nat \X Nat /\ <<b, a>>[1] < <<b, a>>[2]
    BY <1>1
  <2>2. <<b, a>> \in OpToRel(<, Nat)
    BY <2>1, Zenon DEF OpToRel
  <2> QED BY <1>2, <2>2
<1>4. a \in Int /\ \A b \in T : b \in Int
  OBVIOUS
<1> QED BY <1>3, <1>4

\* Of some cells one comes first.
LEMMA FirstCell ==
  ASSUME NEW S \in SUBSET Cell, S # {}
  PROVE  \E g \in S : \A h \in S : Rank(g) <= Rank(h)
<1>1. \A x \in Cell : Rank(x) \in Nat
  <2> TAKE x \in Cell
  <2>1. x[0] \in Nat /\ x[1] \in Nat /\ x[2] \in Nat
    BY CellIs, Sizes, Coords
  <2>2. FrameGridSize(1) \in Nat /\ FrameGridSize(2) \in Nat
    BY Sizes, Coords DEF FrameGridSize, Frame
  <2>3. \A a, b \in Nat : a * b \in Nat /\ a + b \in Nat
    OBVIOUS
  <2> QED BY <2>1, <2>2, <2>3 DEF Rank
<1> DEFINE T == {Rank(g) : g \in S}
<1>2. T \in SUBSET Nat /\ T # {}
  BY <1>1
<1>3. PICK a \in T : \A b \in T : a <= b
  BY <1>2, Least
<1> QED BY <1>3

\* A received buffer adds to the index the ids that are new to it.
LEMMA IndexedTakes ==
  ASSUME Types, NEW n \in Node, Is(n, {"exchange", "update", "collect"}), NEW buf,
         Good(n, at[n], buf),
         index' = [index EXCEPT ![n] = IF Now(n).op = "exchange" THEN Indexed(@, buf) ELSE @]
  PROVE  IndexTakes(n, buf)
<1> DEFINE k == at[n]
           c == Co(k)
           dir == Di(k)
<1>1. k \in 1 .. AtEnd - 1 /\ k # AtCalc /\ c \in Coord /\ dir \in {Left, Right} /\ Now(n).op = Op(k)
  BY NowIs
<1>2. \A m \in Node : index[m] \in Index
  BY DEF Types
<1>3. CASE k < AtUpdate
  <2> DEFINE ix == index[n]
             In(p) == {g \in DOMAIN buf : p \in Ids(buf[g])}
             New == {p \in Particle : p \notin DOMAIN ix /\ In(p) # {}}
             J == Indexed(ix, buf)
  <2>1. k < AtCalc /\ Now(n).op = "exchange"
    BY <1>1, <1>3, Phases DEF AtUpdate, AtCalc
  <2>2. index' = [index EXCEPT ![n] = J]
    BY <2>1, Zenon
  <2>3. DOMAIN buf = Ghosts(c, dir) /\ \A g \in DOMAIN buf :
          /\ g \in Cell /\ DOMAIN buf[g] = DOMAIN Home(n, g)
          /\ \A i \in DOMAIN Home(n, g) : buf[g][i].id = Home(n, g)[i].id
    <3>1. DOMAIN buf = Ghosts(c, dir) BY <2>1 DEF Good
    <3>2. \A g \in DOMAIN buf : g \in Cell BY <1>1, <3>1, SourceMirrors DEF GhostCell
    <3> QED BY <2>1, <3>1, <3>2 DEF Good
  <2>4. \A g \in DOMAIN buf : Ids(buf[g]) \subseteq Particle
    <3> TAKE g \in DOMAIN buf
    <3>1. \A i \in DOMAIN Home(n, g) : Home(n, g)[i].id \in Particle BY <2>3, HomeIs
    <3> QED BY <2>3, <3>1 DEF Ids
  <2>5. J = [p \in DOMAIN ix \cup New |->
               IF p \in DOMAIN ix THEN ix[p] ELSE CHOOSE g \in In(p) : \A h \in In(p) : Rank(g) <= Rank(h)]
    BY Zenon DEF Indexed
  <2>6. \A p \in New : J[p] \in In(p)
    <3> TAKE p \in New
    <3>1. In(p) \in SUBSET Cell /\ In(p) # {} BY <2>3
    <3>2. \E g \in In(p) : \A h \in In(p) : Rank(g) <= Rank(h) BY <3>1, FirstCell
    <3>3. p \notin DOMAIN ix OBVIOUS
    <3>4. J[p] = CHOOSE g \in In(p) : \A h \in In(p) : Rank(g) <= Rank(h)
      BY <2>5, <3>3
    <3> HIDE DEF In
    <3> QED BY <3>2, <3>4
  <2>7. DOMAIN J = DOMAIN ix \cup New /\ \A p \in DOMAIN ix : J[p] = ix[p]
    BY <2>5
  <2>8. DOMAIN ix \subseteq Particle /\ \A p \in DOMAIN ix : ix[p] \in Cell
    BY <1>2 DEF Index
  <2>9. J \in Index
    <3>1. \A p \in DOMAIN J : J[p] \in Cell BY <2>3, <2>6, <2>7, <2>8
    <3>2. DOMAIN J \in SUBSET Particle BY <2>7, <2>8
    <3>3. J = [p \in DOMAIN J |-> J[p]] BY <2>5, <2>7
    <3> HIDE DEF J
    <3>4. J \in [DOMAIN J -> Cell] BY <3>1, <3>3
    <3> QED BY <3>2, <3>4 DEF Index
  <2>10. index' \in [Node -> Index] /\ index'[n] = J /\ \A m \in Node \ {n} : index'[m] = index[m]
    <3> HIDE DEF J
    <3> QED BY <2>2, <2>9 DEF Types
  <2>11. \A p \in DOMAIN J : p \in DOMAIN ix \/ (J[p] \in DOMAIN buf /\ p \in Ids(buf[J[p]]))
    BY <2>6, <2>7
  <2>12. \A g \in DOMAIN buf : Ids(buf[g]) \subseteq DOMAIN J
    BY <2>4, <2>7
  <2> HIDE DEF J
  <2> QED BY <1>3, <2>7, <2>10, <2>11, <2>12 DEF IndexTakes
<1>4. CASE ~(k < AtUpdate)
  <2>1. Now(n).op # "exchange"
    <3>1. CASE k < 13 BY <1>1, <1>4, <3>1, Phases DEF AtUpdate
    <3>2. CASE k > 13 BY <1>1, <3>2, Phases
    <3> QED BY <1>1, <3>1, <3>2 DEF AtCalc
  <2>2. index' = index
    BY <2>1 DEF Types
  <2> QED BY <1>4, <2>2 DEF IndexTakes, Types
<1> QED BY <1>3, <1>4

\* A node that copies within itself knows the ids already.
LEMMA CopiedTakes ==
  ASSUME Types, InStep, IndexLeads, NEW n \in Node, Is(n, {"exchange", "update", "collect"}),
         index' = index
  PROVE  IndexTakes(n, Buffer(n))
<1> DEFINE k == at[n]
           c == Co(k)
           dir == Di(k)
<1>1. k \in 1 .. AtEnd - 1 /\ c \in Coord /\ dir \in {Left, Right} /\ (ToGhosts(n) <=> k < AtCalc)
      /\ Now(n).coord = c /\ Now(n).dir = dir
  BY NowIs
<1>2. touched = FALSE
  <2>1. at[n] # AtEnd BY <1>1 DEF AtEnd
  <2> QED BY <2>1, Untouched
<1>3. ASSUME k < AtUpdate, NEW g \in DOMAIN Buffer(n), NEW p \in Ids(Buffer(n)[g])
      PROVE  p \in DOMAIN index[n]
  <2> DEFINE y == Source(c, dir, g)
  <2>1. k < AtCalc /\ k = 2 * c + dir + 1
    BY <1>1, <1>3, Phases DEF AtUpdate, AtCalc
  <2>2. Buffer(n) = [h \in Ghosts(c, dir) |->
                       [i \in DOMAIN cells[n][Source(c, dir, h)] |->
                          [id |-> cells[n][Source(c, dir, h)][i].id,
                           pos |-> Shifted(n, c, dir, cells[n][Source(c, dir, h)][i].pos)]]]
    BY <1>1, <2>1 DEF Buffer
  <2>3. g \in Ghosts(c, dir) /\ Buffer(n)[g] = [i \in DOMAIN cells[n][y] |->
          [id |-> cells[n][y][i].id, pos |-> Shifted(n, c, dir, cells[n][y][i].pos)]]
    BY <1>3, <2>2
  <2>4. y \in Cell /\ Done(y, k)
    BY <1>1, <2>1, <2>3, SourceMirrors, DoneReals
  <2> HIDE DEF y
  <2>5. p \in Ids(cells[n][y])
    <3>1. PICK i \in DOMAIN Buffer(n)[g] : p = Buffer(n)[g][i].id BY <1>3 DEF Ids
    <3>2. i \in DOMAIN cells[n][y] /\ p = cells[n][y][i].id BY <2>3, <3>1
    <3> QED BY <3>2 DEF Ids
  <2> QED BY <1>2, <2>4, <2>5 DEF IndexLeads, k
<1> QED BY <1>3 DEF IndexTakes, Types

-----------------------------------------------------------------------------
(* Nodes stay in step.                                                     *)

\* A node that communicates goes on to the next phase.
LEMMA StepOn ==
  ASSUME Types, InStep, NEW n \in Node, at[n] \in 1 .. AtEnd - 1,
         Talks(at[n]) => Sent(From(n, at[n]), at[n]),
         at' = [at EXCEPT ![n] = @ + 1], packed' = [packed EXCEPT ![n] = FALSE],
         net' \subseteq net, \A m \in net' : ~(m.dst = n /\ m.phase = at[n]),
         touched' = touched
  PROVE  InStep'
<1>1. touched = FALSE
  <2>1. at[n] # AtEnd BY DEF AtEnd
  <2> QED BY <2>1, Untouched
<1>2. /\ at'[n] = at[n] + 1 /\ \A m \in Node \ {n} : at'[m] = at[m] /\ packed'[m] = packed[m]
      /\ packed'[n] = FALSE /\ \A m \in Node : at[m] \in Int
  BY DEF Types
<1>3. \A m \in Node, k \in 1 .. AtEnd - 1 : Talks(k) => From(m, k) \in Node
  BY FromTo
<1>4. ASSUME NEW m \in Node, NEW k \in 1 .. AtEnd - 1, Sent(m, k)
      PROVE  Sent(m, k)'
  <2>1. CASE m = n BY <1>2, <1>4, <2>1 DEF Sent
  <2>2. CASE m # n BY <1>2, <1>4, <2>2 DEF Sent
  <2> QED BY <2>1, <2>2
<1>5. \A m \in Node : packed'[m] => Talks(at'[m])
  BY <1>2 DEF InStep
<1>6. ASSUME NEW m \in Node, NEW k \in 1 .. AtEnd - 1, Talks(k), at'[m] > k
      PROVE  Sent(From(m, k), k)'
  <2>1. Sent(From(m, k), k)
    <3>1. CASE at[m] > k BY <1>6, <3>1 DEF InStep
    <3>2. CASE ~(at[m] > k)
      <4>1. m = n /\ k = at[n] BY <1>2, <1>6, <3>2
      <4> QED BY <1>6, <4>1
    <3> QED BY <3>1, <3>2
  <2> QED BY <1>3, <1>4, <1>6, <2>1
<1>7. ASSUME NEW m \in net'
      PROVE  /\ m.dst \in Node /\ Talks(m.phase)
             /\ at'[m.dst] <= m.phase /\ Sent(From(m.dst, m.phase), m.phase)'
  <2>1. m \in net OBVIOUS
  <2>2. m.dst \in Node /\ Talks(m.phase) /\ at[m.dst] <= m.phase /\ Sent(From(m.dst, m.phase), m.phase)
    BY <2>1 DEF InStep
  <2>3. m.phase \in 1 .. AtEnd - 1 BY <2>2 DEF Talks
  <2>4. Sent(From(m.dst, m.phase), m.phase)' BY <1>3, <1>4, <2>2, <2>3
  <2>5. at'[m.dst] <= m.phase
    <3>1. CASE m.dst # n BY <1>2, <2>2, <3>1
    <3>2. CASE m.dst = n
      <4>1. m.phase # at[n] BY <3>2
      <4> QED BY <1>2, <2>2, <2>3, <3>2, <4>1
    <3> QED BY <3>1, <3>2
  <2> QED BY <2>2, <2>4, <2>5
<1>8. \A l, m \in net' : l.dst = m.dst /\ l.phase = m.phase => l = m
  BY DEF InStep
<1> QED BY <1>1, <1>5, <1>6, <1>7, <1>8, Zenon DEF InStep

\* A buffer is sent.
LEMMA StepSend ==
  ASSUME Types, InStep, NEW n \in Node, Talks(at[n]), ~packed[n], NEW buf,
         net' = net \cup {[dst |-> To(n, at[n]), phase |-> at[n], buf |-> buf]},
         packed' = [packed EXCEPT ![n] = TRUE], at' = at, touched' = touched
  PROVE  InStep'
<1> DEFINE r == [dst |-> To(n, at[n]), phase |-> at[n], buf |-> buf]
<1>1. at[n] \in 1 .. AtEnd - 1
  BY DEF Talks
<1>2. touched = FALSE
  <2>1. at[n] # AtEnd BY <1>1 DEF AtEnd
  <2> QED BY <2>1, Untouched
<1>3. packed'[n] = TRUE /\ (\A m \in Node \ {n} : packed'[m] = packed[m]) /\ \A m \in Node : at[m] \in Int
  BY DEF Types
<1>4. \A m \in Node, k \in 1 .. AtEnd - 1 : Talks(k) => From(m, k) \in Node
  BY FromTo
<1>5. \A m \in Node, k \in 1 .. AtEnd - 1 : Sent(m, k) => Sent(m, k)'
  BY <1>3 DEF Sent
<1>6. /\ r.dst = To(n, at[n]) /\ r.phase = at[n]
      /\ To(n, at[n]) \in Node /\ From(To(n, at[n]), at[n]) = n
  BY <1>1, FromTo
<1>7. ~Sent(n, at[n]) /\ Sent(n, at[n])'
  BY <1>3 DEF Sent
<1>8. \A m \in Node : packed'[m] => Talks(at[m])
  BY <1>3 DEF InStep
<1>9. \A m \in Node, k \in 1 .. AtEnd - 1 : Talks(k) /\ at[m] > k => Sent(From(m, k), k)'
  BY <1>4, <1>5 DEF InStep
<1>10. at[r.dst] <= r.phase
  <2>1. ~(at[To(n, at[n])] > at[n])
    BY <1>1, <1>6, <1>7 DEF InStep
  <2> QED BY <1>3, <1>6, <2>1
<1>11. \A m \in net : /\ m.dst \in Node /\ Talks(m.phase) /\ m.phase \in 1 .. AtEnd - 1
                      /\ at[m.dst] <= m.phase /\ Sent(From(m.dst, m.phase), m.phase)
  BY DEF InStep, Talks
<1>12. \A m \in net : ~(m.dst = r.dst /\ m.phase = r.phase)
  BY <1>6, <1>7, <1>11
<1> HIDE DEF r
<1>13. ASSUME NEW m \in net'
       PROVE  /\ m.dst \in Node /\ Talks(m.phase)
              /\ at[m.dst] <= m.phase /\ Sent(From(m.dst, m.phase), m.phase)'
  <2>1. CASE m \in net BY <1>4, <1>5, <1>11, <2>1
  <2>2. CASE m = r BY <1>6, <1>7, <1>10, <2>2
  <2> QED BY <2>1, <2>2 DEF r
<1>14. ASSUME NEW l \in net', NEW m \in net', l.dst = m.dst, l.phase = m.phase
       PROVE  l = m
  <2>1. (l \in net \/ l = r) /\ (m \in net \/ m = r) BY DEF r
  <2> QED BY <1>12, <1>14, <2>1 DEF InStep
<1> QED BY <1>2, <1>8, <1>9, <1>13, <1>14, Zenon DEF InStep

\* When all are at the end nothing is on its way.
LEMMA AllQuiet ==
  ASSUME Types, InStep, AllAtEnd
  PROVE  net = {} /\ packed = [n \in Node |-> FALSE] /\ at = [n \in Node |-> AtEnd]
<1>1. \A k : Talks(k) => k \in 1 .. 19
  BY DEF Talks, AtEnd
<1>2. \A n \in Node : at[n] = 20
  BY DEF AllAtEnd, AtEnd
<1>3. ASSUME NEW m \in net PROVE FALSE
  BY <1>1, <1>2 DEF InStep
<1>4. \A n \in Node : packed[n] = FALSE
  <2>1. \A n \in Node : ~Talks(at[n]) BY <1>1, <1>2
  <2>2. \A n \in Node : ~packed[n] BY <2>1, Zenon DEF InStep
  <2>3. \A n \in Node : packed[n] \in BOOLEAN BY DEF Types
  <2> QED BY <2>2, <2>3, Zenon
<1> QED BY <1>2, <1>3, <1>4 DEF Types, AtEnd

\* All start a sweep together.
LEMMA AllStart ==
  ASSUME NEW k \in 1 .. AtEnd, at' = [n \in Node |-> k], net' = {},
         packed' = [n \in Node |-> FALSE], touched' = FALSE
  PROVE  InStep'
<1>1. \A n \in Node : at'[n] = k /\ packed'[n] = FALSE
  OBVIOUS
<1>2. \A n \in Node, j \in 1 .. AtEnd - 1 : Talks(j) /\ at'[n] > j => Sent(From(n, j), j)'
  <2> TAKE n \in Node, j \in 1 .. AtEnd - 1
  <2>1. From(n, j) \in Node BY FromTo
  <2> QED BY <1>1, <2>1 DEF Sent
<1> QED BY <1>1, <1>2, Zenon DEF InStep

-----------------------------------------------------------------------------
(* The steps of a communication.                                           *)

\* What a buffer that is good does to the invariant, but for the mail.
LEMMA Delivery ==
  ASSUME GInv, NEW n \in Node, Is(n, {"exchange", "update", "collect"}), NEW buf,
         at[From(n, at[n])] >= at[n],
         Good(n, at[n], buf), cells' = [cells EXCEPT ![n] = Unpacked(n, buf)],
         at' = [at EXCEPT ![n] = @ + 1], packed' = [packed EXCEPT ![n] = FALSE],
         net' \subseteq net, touched' = touched, IndexTakes(n, buf)
  PROVE  /\ Types' /\ OnePlace' /\ GhostsFilled' /\ ForcesAdded' /\ MailIsGood' /\ IndexLeads'
<1>1. Types /\ InStep /\ OnePlace /\ GhostsFilled /\ ForcesAdded /\ MailIsGood /\ IndexLeads
  BY DEF GInv
<1>2. RealsKept /\ cells' \in [Node -> [Cell -> Seq(Rec)]]
  BY <1>1, UnpackedKeeps, Zenon
<1>3. Types'
  <2>1. at[n] \in 1 .. AtEnd - 1 BY <1>1, NowIs
  <2>2. at' \in [Node -> 1 .. AtEnd]
    <3>1. at[n] + 1 \in 1 .. AtEnd BY <2>1 DEF AtEnd
    <3> QED BY <1>1, <3>1 DEF Types
  <2>3. index' \in [Node -> Index] BY DEF IndexTakes
  <2>4. packed' \in [Node -> BOOLEAN] /\ touched' \in BOOLEAN BY <1>1 DEF Types
  <2> QED BY <1>2, <2>2, <2>3, <2>4 DEF Types
<1>4. OnePlace'
  BY <1>1, <1>2, KeptPlace
<1>5. GhostsFilled'
  BY <1>1, FilledNext, Zenon
<1>6. ForcesAdded'
  BY <1>1, ForcesNext, Zenon
<1>7. IndexLeads'
  BY <1>1, IndexNext, Zenon
<1>8. MailIsGood'
  <2> SUFFICES ASSUME NEW m \in net' PROVE Good(m.dst, m.phase, m.buf)'
    BY DEF MailIsGood
  <2>1. m \in net OBVIOUS
  <2>2. m.dst \in Node /\ m.phase \in 1 .. AtEnd - 1 BY <1>1, <2>1 DEF InStep, Talks
  <2>3. Good(m.dst, m.phase, m.buf) BY <1>1, <2>1 DEF MailIsGood
  <2> QED BY <1>2, <2>2, <2>3, KeptGood
<1> QED BY <1>3, <1>4, <1>5, <1>6, <1>7, <1>8

\* A direction with one node: copyRealsToGhosts and addGhostForcesToReals.
LEMMA CopyLocalKeeps ==
  ASSUME GInv, NEW n \in Node, CopyLocal(n)
  PROVE  GInv'
<1> USE DEF GInv
<1> DEFINE k == at[n]
           buf == Buffer(n)
<1>1. Is(n, {"exchange", "update", "collect"}) /\ ~Remote(n)
  BY DEF CopyLocal
<1>2. /\ k \in 1 .. AtEnd - 1 /\ k # AtCalc /\ Co(k) \in Coord /\ ~(GridSize[Co(k)] > 1)
  BY <1>1, NowIs
<1>3. ~Talks(k) /\ GridSize[Co(k)] = 1
  BY <1>2, Sizes DEF Talks
<1>4. From(n, k) = n /\ To(n, k) = n
  BY <1>2, <1>3, FromTo
<1>5. Good(n, k, buf)
  BY <1>1, <1>4, BufferGood
<1>6. at[From(n, k)] >= at[n]
  BY <1>2, <1>4
<1>7. packed' = [packed EXCEPT ![n] = FALSE]
  <2>1. packed[n] = FALSE BY <1>3 DEF InStep, Types
  <2> QED BY <2>1 DEF CopyLocal, Types
<1>8. /\ cells' = [cells EXCEPT ![n] = Unpacked(n, buf)] /\ at' = [at EXCEPT ![n] = @ + 1]
      /\ index' = index /\ net' = net /\ touched' = touched
  BY DEF CopyLocal, NextPhase
<1>9. IndexTakes(n, buf)
  BY <1>1, <1>8, CopiedTakes
<1>10. InStep'
  <2>1. \A m \in net' : ~(m.dst = n /\ m.phase = k)
    BY <1>3, <1>8 DEF InStep
  <2> QED BY <1>2, <1>3, <1>7, <1>8, <2>1, StepOn, Zenon
<1>11. net' \subseteq net
  BY <1>8
<1> HIDE DEF buf, GInv
<1>12. Types' /\ OnePlace' /\ GhostsFilled' /\ ForcesAdded' /\ MailIsGood' /\ IndexLeads'
  BY <1>1, <1>5, <1>6, <1>7, <1>8, <1>9, <1>11, Delivery, Zenon
<1> QED BY <1>10, <1>12, Zenon DEF GInv

\* A buffer is received and read.
LEMMA UnpackKeeps ==
  ASSUME GInv, NEW n \in Node, Unpack(n)
  PROVE  GInv'
<1> USE DEF GInv
<1> DEFINE k == at[n]
<1>1. PICK m \in net :
        /\ m.dst = n /\ m.phase = at[n]
        /\ cells' = [cells EXCEPT ![n] = Unpacked(n, m.buf)]
        /\ index' = [index EXCEPT ![n] = IF Now(n).op = "exchange" THEN Indexed(@, m.buf) ELSE @]
        /\ net' = net \ {m}
  BY DEF Unpack
<1>2. /\ packed[n] /\ packed' = [packed EXCEPT ![n] = FALSE] /\ at' = [at EXCEPT ![n] = @ + 1]
      /\ touched' = touched
  BY DEF Unpack, NextPhase
<1>3. Talks(k) /\ Sent(From(n, k), k)
  BY <1>1 DEF InStep
<1>4. k \in 1 .. AtEnd - 1 /\ k # AtCalc
  BY <1>3 DEF Talks
<1>5. Is(n, {"exchange", "update", "collect"})
  <2>1. Op(k) \in {"exchange", "update", "collect"}
    BY <1>4, Phases DEF AtCalc
  <2>2. k < AtEnd BY <1>4 DEF AtEnd
  <2> QED BY <2>1, <2>2 DEF Is, Now, Op
<1>6. Good(n, k, m.buf)
  BY <1>1 DEF MailIsGood
<1>7. at[From(n, k)] >= at[n]
  <2>1. From(n, k) \in Node BY <1>4, FromTo
  <2>2. at[From(n, k)] \in Int BY <2>1 DEF Types
  <2> QED BY <1>3, <1>4, <2>2 DEF Sent
<1>8. IndexTakes(n, m.buf)
  BY <1>1, <1>5, <1>6, IndexedTakes, Zenon
<1>9. net' \subseteq net
  BY <1>1
<1>10. InStep'
  <2>1. \A l \in net' : ~(l.dst = n /\ l.phase = k)
    BY <1>1 DEF InStep
  <2> QED BY <1>2, <1>3, <1>4, <1>9, <2>1, StepOn, Zenon
<1> HIDE DEF GInv
<1>11. Types' /\ OnePlace' /\ GhostsFilled' /\ ForcesAdded' /\ MailIsGood' /\ IndexLeads'
  BY <1>1, <1>2, <1>5, <1>6, <1>7, <1>8, <1>9, Delivery, Zenon
<1> QED BY <1>10, <1>11, Zenon DEF GInv

\* A buffer is filled and sent.
LEMMA PackKeeps ==
  ASSUME GInv, NEW n \in Node, Pack(n)
  PROVE  GInv'
<1> USE DEF GInv
<1> DEFINE k == at[n]
<1>1. /\ Is(n, {"exchange", "update", "collect"}) /\ Remote(n) /\ ~packed[n]
      /\ packed' = [packed EXCEPT ![n] = TRUE]
      /\ cells' = cells /\ index' = index /\ at' = at /\ touched' = touched
  BY DEF Pack
<1>2. /\ k \in 1 .. AtEnd - 1 /\ k # AtCalc /\ Now(n).coord = Co(k) /\ Now(n).dir = Di(k)
      /\ GridSize[Co(k)] > 1 /\ (ToGhosts(n) <=> k < AtCalc)
  BY <1>1, NowIs
<1>3. net' = net \cup {[dst |-> To(n, k), phase |-> k, buf |-> Buffer(n)]}
  BY <1>2 DEF Pack, To
<1>4. Talks(k)
  BY <1>2 DEF Talks
<1>5. InStep'
  BY <1>1, <1>3, <1>4, StepSend, Zenon
<1>6. Good(To(n, k), k, Buffer(n))
  BY <1>1, BufferGood
<1>7. RealsKept
  BY <1>1 DEF RealsKept, Kept
<1>8. MailIsGood'
  <2> SUFFICES ASSUME NEW m \in net' PROVE Good(m.dst, m.phase, m.buf)'
    BY DEF MailIsGood
  <2>1. m.dst \in Node /\ m.phase \in 1 .. AtEnd - 1 /\ Good(m.dst, m.phase, m.buf)
    <3>1. CASE m \in net
      BY <3>1 DEF InStep, Talks, MailIsGood
    <3>2. CASE m = [dst |-> To(n, k), phase |-> k, buf |-> Buffer(n)]
      <4>1. m.dst = To(n, k) /\ m.phase = k /\ m.buf = Buffer(n) BY <3>2
      <4>2. To(n, k) \in Node BY <1>2, FromTo
      <4> QED BY <1>2, <1>6, <4>1, <4>2
    <3> QED BY <1>3, <3>1, <3>2
  <2> QED BY <1>7, <2>1, KeptGood
<1>9. Types' /\ OnePlace'
  BY <1>1 DEF Types, OnePlace
<1>10. GhostsFilled'
  <2>1. ASSUME NEW m \in Node, NEW x \in Cell
        PROVE  (SameIds(m, x)' <=> SameIds(m, x)) /\ (Image(m, x)' <=> Image(m, x))
    <3>1. SameIds(m, x)' <=> SameIds(m, x) BY <1>1, Zenon DEF SameIds, Home
    <3>2. Image(m, x)' <=> Image(m, x) BY <1>1, <3>1, Zenon DEF Image, Home
    <3> QED BY <3>1, <3>2
  <2> QED BY <1>1, <2>1, Zenon DEF GhostsFilled
<1>11. ForcesAdded' /\ IndexLeads'
  BY <1>1, Zenon DEF ForcesAdded, IndexLeads
<1> QED BY <1>5, <1>8, <1>9, <1>10, <1>11

\* A place alone.
LEMMA OnceAlone ==
  ASSUME NEW l \in Share
  PROVE  Once(<<l>>, {l})
  BY DEF Once

\* Forces are computed: each copy has its own share.
LEMMA CalcForcesKeeps ==
  ASSUME GInv, NEW n \in Node, CalcForces(n)
  PROVE  GInv'
<1> USE DEF GInv
<1>1. /\ at[n] = 13 /\ at' = [at EXCEPT ![n] = @ + 1]
      /\ index' = index /\ packed' = packed /\ net' = net /\ touched' = touched
  <2>1. at[n] \in 1 .. AtEnd - 1 /\ Op(at[n]) = "calc"
    BY DEF CalcForces, Is, Now, Op, Types, AtEnd
  <2>2. at[n] = 13
    <3>1. CASE at[n] < 7 BY <2>1, <3>1, Phases
    <3>2. CASE 7 <= at[n] /\ at[n] < 13 BY <2>1, <3>2, Phases
    <3>3. CASE 13 < at[n] BY <2>1, <3>3, Phases
    <3> QED BY <2>1, <3>1, <3>2, <3>3
  <2> QED BY <2>2 DEF CalcForces, NextPhase
<1>2. /\ at'[n] = 14 /\ (\A m \in Node \ {n} : at'[m] = at[m]) /\ \A m \in Node : at[m] \in 1 .. AtEnd
  BY <1>1 DEF Types
<1>3. touched = FALSE
  <2>1. at[n] # AtEnd BY <1>1 DEF AtEnd
  <2> QED BY <2>1, Untouched
<1>4. /\ cells' = [cells EXCEPT ![n] =
           [x \in Cell |-> [i \in DOMAIN cells[n][x] |-> [cells[n][x][i] EXCEPT !.f = <<<<n, x>>>>]]]]
  BY DEF CalcForces, Types
<1>5. /\ \A m \in Node \ {n} : cells'[m] = cells[m]
      /\ \A x \in Cell : cells'[n][x] = [i \in DOMAIN cells[n][x] |-> [cells[n][x][i] EXCEPT !.f = <<<<n, x>>>>]]
      /\ cells' = [m \in Node |-> cells'[m]] /\ cells'[n] = [x \in Cell |-> cells'[n][x]]
  BY <1>4 DEF Types
<1>6. \A m \in Node, x \in Cell :
        /\ cells[m][x] \in Seq(Rec) /\ DOMAIN cells[m][x] = 1 .. Len(cells[m][x]) /\ Len(cells[m][x]) \in Nat
        /\ \A i \in DOMAIN cells[m][x] : cells[m][x][i] \in Rec
  <2>1. \A m \in Node, x \in Cell : cells[m][x] \in Seq(Rec)
    BY DEF Types
  <2> QED BY <2>1
<1>7. ASSUME NEW x \in Cell
      PROVE  /\ Kept(n, x) /\ cells'[n][x] \in Seq(Rec)
             /\ DOMAIN cells'[n][x] = DOMAIN cells[n][x]
             /\ \A i \in DOMAIN cells[n][x] : cells'[n][x][i].f = <<<<n, x>>>>
  <2> DEFINE e(i) == [cells[n][x][i] EXCEPT !.f = <<<<n, x>>>>]
  <2>1. cells'[n][x] = [i \in DOMAIN cells[n][x] |-> e(i)]
    BY <1>5
  <2>2. <<<<n, x>>>> \in Seq(Share)
    BY DEF Share
  <2>3. \A i \in DOMAIN cells[n][x] :
          /\ e(i) \in Rec /\ e(i).f = <<<<n, x>>>>
          /\ e(i).id = cells[n][x][i].id /\ e(i).pos = cells[n][x][i].pos
    <3> DEFINE f == <<<<n, x>>>>
    <3> SUFFICES ASSUME NEW i \in DOMAIN cells[n][x]
                 PROVE  /\ e(i) \in Rec /\ e(i).f = f
                        /\ e(i).id = cells[n][x][i].id /\ e(i).pos = cells[n][x][i].pos
      OBVIOUS
    <3>1. cells[n][x][i] \in Rec /\ f \in Seq(Share) /\ e(i) = [cells[n][x][i] EXCEPT !.f = f]
      BY <1>6, <2>2
    <3> HIDE DEF e, f
    <3> QED BY <3>1 DEF Rec
  <2> HIDE DEF e
  <2>4. cells'[n][x] \in Seq(Rec)
    <3>1. cells'[n][x] \in [1 .. Len(cells[n][x]) -> Rec] BY <1>6, <2>1, <2>3
    <3> QED BY <1>6, <3>1, ListIs
  <2> QED BY <2>1, <2>3, <2>4 DEF Kept
<1>8. \A m \in Node, x \in Cell : Kept(m, x)
  BY <1>5, <1>7 DEF Kept
<1>9. RealsKept
  BY <1>8, RealIsCell DEF RealsKept
<1>10. Types'
  <2>1. cells'[n] \in [Cell -> Seq(Rec)] BY <1>5, <1>7
  <2>2. \A m \in Node : cells'[m] \in [Cell -> Seq(Rec)] BY <1>5, <2>1 DEF Types
  <2>3. cells' \in [Node -> [Cell -> Seq(Rec)]] BY <1>5, <2>2
  <2>4. at' \in [Node -> 1 .. AtEnd] BY <1>1 DEF Types, AtEnd
  <2> QED BY <1>1, <2>3, <2>4 DEF Types
<1>11. OnePlace'
  BY <1>9, KeptPlace
<1>12. InStep'
  <2>1. at[n] \in 1 .. AtEnd - 1 /\ ~Talks(at[n])
    BY <1>1 DEF Talks, AtCalc, AtEnd
  <2>2. packed' = [packed EXCEPT ![n] = FALSE]
    <3>1. packed[n] = FALSE BY <2>1 DEF InStep, Types
    <3> QED BY <1>1, <3>1 DEF Types
  <2>3. net' \subseteq net /\ \A m \in net' : ~(m.dst = n /\ m.phase = at[n])
    BY <1>1, <2>1 DEF InStep
  <2> QED BY <1>1, <2>1, <2>2, <2>3, StepOn, Zenon
<1>13. \A m \in Node, x \in Cell : (SameIds(m, x) => SameIds(m, x)') /\ (Image(m, x) => Image(m, x)')
  BY <1>8, <1>9, KeptCell
<1>14. GhostsFilled'
  <2> SUFFICES ASSUME NEW m \in Node, NEW x \in Cell
               PROVE  /\ at'[m] < AtUpdate /\ Done(x, at'[m]) => Image(m, x)'
                      /\ at'[m] >= AtUpdate =>
                           /\ SameIds(m, x)'
                           /\ Done(x, at'[m] - 6) => Image(m, x)'
    BY DEF GhostsFilled, Done, Ghosts, Slab, Box, Full, Inner, FrameGridSize
  <2>1. CASE m # n BY <1>2, <1>3, <1>13, <2>1 DEF GhostsFilled
  <2>2. CASE m = n
    <3>1. at[n] >= AtUpdate /\ Done(x, at[n] - 6) BY <1>1, DoneLast DEF AtUpdate
    <3>2. SameIds(n, x) /\ Image(n, x) BY <1>3, <3>1 DEF GhostsFilled
    <3>3. ~(at'[n] < AtUpdate) BY <1>2 DEF AtUpdate
    <3> QED BY <1>13, <2>2, <3>2, <3>3
  <2> QED BY <2>1, <2>2
<1>15. ForcesAdded'
  <2> SUFFICES ASSUME NEW m \in Node, at'[m] > AtCalc, NEW x \in Cell
               PROVE  /\ \A l \in Shares(m, x, at'[m]) : at'[l[1]] > AtCalc
                      /\ \A i \in DOMAIN cells'[m][x] : Once(cells'[m][x][i].f, Shares(m, x, at'[m]))
    BY Zenon DEF ForcesAdded
  <2>1. CASE m = n
    <3>1. Shares(n, x, 14) = {<<n, x>>} BY SharesFirst
    <3>2. <<n, x>>[1] = n /\ <<n, x>> \in Share BY DEF Share
    <3>3. Once(<<<<n, x>>>>, {<<n, x>>}) BY <3>2, OnceAlone
    <3> QED BY <1>2, <1>7, <2>1, <3>1, <3>2, <3>3
  <2>2. CASE m # n
    <3>1. at'[m] = at[m] /\ at[m] > AtCalc /\ cells'[m] = cells[m] BY <1>2, <1>5, <2>2
    <3>2. /\ \A l \in Shares(m, x, at[m]) : at[l[1]] > AtCalc
          /\ \A i \in DOMAIN cells[m][x] : Once(cells[m][x][i].f, Shares(m, x, at[m]))
      BY <1>3, <3>1 DEF ForcesAdded
    <3>3. \A l \in Shares(m, x, at[m]) : l[1] \in Node BY DEF Shares, Share
    <3>4. \A l \in Shares(m, x, at[m]) : at'[l[1]] > AtCalc
      BY <1>1, <1>2, <3>2, <3>3 DEF AtCalc
    <3> QED BY <3>1, <3>2, <3>4
  <2> QED BY <2>1, <2>2
<1>16. MailIsGood'
  <2> SUFFICES ASSUME NEW m \in net' PROVE Good(m.dst, m.phase, m.buf)'
    BY DEF MailIsGood
  <2>1. m.dst \in Node /\ m.phase \in 1 .. AtEnd - 1 /\ Good(m.dst, m.phase, m.buf)
    BY <1>1 DEF InStep, Talks, MailIsGood
  <2> QED BY <1>9, <2>1, KeptGood
<1>17. IndexLeads'
  <2>1. \A m \in Node, x \in Cell : Ids(cells'[m][x]) = Ids(cells[m][x])
    BY <1>8, KeptIds DEF Kept
  <2>2. \A m \in Node : \A p \in DOMAIN index[m] : index[m][p] \in Cell
    BY DEF Types, Index
  <2>3. \A x : Done(x, at[n]) /\ Done(x, at'[n])
    BY <1>1, <1>2, DoneLast
  <2> SUFFICES ASSUME NEW m \in Node
               PROVE  /\ \A p \in DOMAIN index[m] :
                           /\ p \in Ids(cells[m][index[m][p]])
                           /\ at'[m] < AtUpdate => Done(index[m][p], at'[m])
                      /\ \A x \in Cell : \A p \in Ids(cells[m][x]) :
                           /\ x \in RealCell => p \in DOMAIN index[m] /\ index[m][p] \in RealCell
                           /\ Done(x, at'[m]) /\ ~touched => p \in DOMAIN index[m]
    BY <1>1, <2>1, <2>2, Zenon DEF IndexLeads
  <2>4. CASE m = n BY <1>2, <2>3, <2>4 DEF IndexLeads
  <2>5. CASE m # n
    <3>1. at'[m] = at[m] BY <1>2, <2>5
    <3> QED BY <3>1 DEF IndexLeads
  <2> QED BY <2>4, <2>5
<1> QED BY <1>10, <1>11, <1>12, <1>14, <1>15, <1>16, <1>17

-----------------------------------------------------------------------------
(* Where decompose() and addParticle put a particle.                       *)

\* How often l goes into a number below g times l.
LEMMA Fits ==
  ASSUME NEW f \in Int, 0 <= f, NEW l \in Nat, l > 0, NEW g \in Nat, f < g * l
  PROVE  /\ f \div l \in 0 .. g - 1
         /\ 0 <= f - (f \div l) * l /\ f - (f \div l) * l < l
<1> DEFINE h == f \div l
<1>1. h \in Int /\ h * l \in Int /\ h * l <= f /\ f < h * l + l /\ g * l \in Int
  OBVIOUS
<1> HIDE DEF h
<1>2. h >= 0
  <2> SUFFICES ASSUME h <= -1 PROVE FALSE
    BY <1>1
  <2>1. h * l <= (-1) * l
    BY <1>1
  <2> QED BY <1>1, <2>1
<1>3. h < g
  <2> SUFFICES ASSUME h >= g PROVE FALSE
    BY <1>1
  <2>1. h * l >= g * l
    BY <1>1
  <2> QED BY <1>1, <2>1
<1> QED BY <1>1, <1>2, <1>3 DEF h

\* A folded position has a node and an inner cell of it.
LEMMA HomeIsReal ==
  ASSUME NEW pos \in Position
  PROVE  /\ Folded(pos) \in Position /\ HomeNode(pos) \in Node
         /\ HomeCell(HomeNode(pos), Folded(pos)) \in RealCell
<1> DEFINE f == Folded(pos)
           n == HomeNode(pos)
           x == HomeCell(n, f)
<1>1. ASSUME NEW c \in Coord
      PROVE  f[c] \in Int /\ n[c] \in 0 .. GridSize[c] - 1 /\ x[c] \in 1 .. CellGridSize[c]
  <2> DEFINE W == CellWidth
             S == CellGridSize[c]
             G == GridSize[c]
             L == LocalSize(c)
             B == BoxL(c)
             a == f[c]
             h == n[c]
  <2>1. /\ W \in Nat /\ W > 0 /\ S \in Nat /\ S > 0 /\ G \in Nat /\ G > 0 /\ L = S * W /\ B = G * L
        /\ pos[c] \in Int /\ a = pos[c] % B /\ h = a \div L
        /\ x[c] = IF a = (h + 1) * L THEN S ELSE (a - h * L) \div W + 1
    BY Sizes DEF LocalSize, BoxL, Folded, HomeNode, HomeCell, MyRight, MyLeft, Frame, Position
  <2> HIDE DEF W, S, G, L, B, a, h
  <2>2. L \in Nat /\ L > 0
    BY <2>1
  <2>3. B \in Nat /\ B > 0
    BY <2>1, <2>2
  <2>4. a \in Int /\ 0 <= a /\ a < B
    BY <2>1, <2>3
  <2>5. h \in 0 .. G - 1 /\ 0 <= a - h * L /\ a - h * L < L
    BY <2>1, <2>2, <2>4, Fits
  <2>6. a - h * L \in Int
    BY <2>1, <2>2, <2>4, <2>5
  <2>7. (a - h * L) \div W \in 0 .. S - 1
    <3> DEFINE r == a - h * L
    <3>1. r \in Int /\ 0 <= r /\ r < S * W BY <2>1, <2>5, <2>6
    <3> HIDE DEF r
    <3>2. r \div W \in 0 .. S - 1 BY <2>1, <3>1, Fits
    <3> QED BY <3>2 DEF r
  <2>8. x[c] \in 1 .. S
    BY <2>1, <2>7
  <2> QED BY <2>4, <2>5, <2>8 DEF S, G, a, h
<1>2. f = [c \in Coord |-> f[c]] /\ n = [c \in Coord |-> n[c]] /\ x = [c \in Coord |-> x[c]]
  BY DEF Folded, HomeNode, HomeCell
<1> HIDE DEF f, n, x
<1>3. f \in Position
  BY <1>1, <1>2 DEF Position
<1>4. n \in Node
  <2>1. n \in [Coord -> Int] BY <1>1, <1>2, Sizes
  <2> QED BY <1>1, <2>1, NodeIs
<1>5. x \in RealCell
  <2>1. x \in [Coord -> Int] BY <1>1, <1>2, Sizes
  <2> QED BY <1>1, <2>1, RealCellIs
<1> QED BY <1>3, <1>4, <1>5 DEF f, n, x

\* So has one that is clipped.
LEMMA ClippedIsReal ==
  ASSUME NEW pos \in Position
  PROVE  /\ NodeClipped(pos) \in Node
         /\ \A n \in Node : CellClipped(n, pos) \in RealCell
<1>1. \A a \in Int, b \in Nat \ {0} : Truncate(a, b) \in Int
  BY DEF Truncate
<1>2. \A c \in Coord : /\ GridSize[c] \in Nat /\ GridSize[c] > 0 /\ CellGridSize[c] \in Nat /\ CellGridSize[c] > 0
                       /\ CellWidth \in Nat \ {0} /\ LocalSize(c) \in Nat \ {0} /\ pos[c] \in Int
  <2> TAKE c \in Coord
  <2>1. /\ GridSize[c] \in Nat /\ GridSize[c] > 0 /\ CellGridSize[c] \in Nat /\ CellGridSize[c] > 0
        /\ CellWidth \in Nat /\ CellWidth > 0 /\ pos[c] \in Int
    BY Sizes DEF Position
  <2>2. CellGridSize[c] * CellWidth \in Nat /\ CellGridSize[c] * CellWidth > 0
    BY <2>1
  <2> QED BY <2>1, <2>2 DEF LocalSize
<1>3. NodeClipped(pos) \in Node
  <2>1. ASSUME NEW c \in Coord
        PROVE  NodeClipped(pos)[c] \in 0 .. GridSize[c] - 1
    <3> DEFINE i == Truncate(pos[c], LocalSize(c))
    <3>1. i \in Int BY <1>1, <1>2
    <3>2. NodeClipped(pos)[c] = IF i < 0 THEN 0 ELSE IF i >= GridSize[c] THEN GridSize[c] - 1 ELSE i
      BY DEF NodeClipped
    <3> HIDE DEF i
    <3> QED BY <1>2, <3>1, <3>2
  <2>2. NodeClipped(pos) = [c \in Coord |-> NodeClipped(pos)[c]]
    BY DEF NodeClipped
  <2>3. NodeClipped(pos) \in [Coord -> Int]
    BY <1>2, <2>1, <2>2
  <2> QED BY <2>1, <2>3, NodeIs
<1>4. ASSUME NEW n \in Node PROVE CellClipped(n, pos) \in RealCell
  <2>1. ASSUME NEW c \in Coord
        PROVE  CellClipped(n, pos)[c] \in 1 .. CellGridSize[c]
    <3> DEFINE i == RawCell(n, c, pos[c])
    <3>1. i \in Int
      <4>1. n[c] \in Int BY NodeIs
      <4>2. pos[c] - n[c] * LocalSize(c) \in Int BY <1>2, <4>1
      <4>3. Truncate(pos[c] - n[c] * LocalSize(c), CellWidth) \in Int BY <1>1, <1>2, <4>2
      <4> QED BY <4>3 DEF RawCell, MyLeft, Frame
    <3>2. CellClipped(n, pos)[c] = Clip(c, i)
      BY DEF CellClipped
    <3> HIDE DEF i
    <3> QED BY <1>2, <3>1, <3>2 DEF Clip, Frame
  <2>2. CellClipped(n, pos) = [c \in Coord |-> CellClipped(n, pos)[c]]
    BY DEF CellClipped
  <2>3. CellClipped(n, pos) \in [Coord -> Int]
    BY <1>2, <2>1, <2>2
  <2> QED BY <2>1, <2>3, RealCellIs
<1> QED BY <1>3, <1>4

\* The list of a set has each of its elements once.
LEMMA ListOfSet ==
  ASSUME NEW S, IsFiniteSet(S)
  PROVE  /\ Cardinality(S) \in Nat /\ SetToSeq(S) \in [1 .. Cardinality(S) -> S]
         /\ \A i, j \in 1 .. Cardinality(S) : SetToSeq(S)[i] = SetToSeq(S)[j] => i = j
         /\ \A p \in S : \E i \in 1 .. Cardinality(S) : SetToSeq(S)[i] = p
<1> DEFINE I == 1 .. Cardinality(S)
           f == SetToSeq(S)
<1>1. Cardinality(S) \in Nat /\ ExistsBijection(I, S)
  BY FS_CardinalityType
<1>2. IsFiniteSet(I) /\ Cardinality(I) = Cardinality(S)
  BY <1>1, FS_Interval
<1>3. \E h \in [I -> S] : IsInjective(h)
  BY <1>1 DEF ExistsBijection, Bijection, Injection
<1>4. f \in [I -> S] /\ IsInjective(f)
  BY <1>3, Zenon DEF SetToSeq
<1> HIDE DEF f, I
<1>5. f \in Injection(I, S)
  BY <1>4 DEF Injection
<1>6. f \in Surjection(I, S)
  BY <1>2, <1>5, FS_Injection
<1>7. \A p \in S : \E i \in I : f[i] = p
  BY <1>6 DEF Surjection
<1>8. \A i, j \in I : f[i] = f[j] => i = j
  BY <1>4 DEF IsInjective
<1> QED BY <1>1, <1>4, <1>7, <1>8 DEF f, I

\* The real cells after decompose(): the particles at home there, each once.
LEMMA SortedIs ==
  ASSUME NEW D \in SUBSET Particle, NEW where \in [D -> Position], NEW n \in Node, NEW x \in RealCell
  PROVE  /\ Sorted(n, x, where) \in Seq(Rec)
         /\ Ids(Sorted(n, x, where)) = AtHome(n, x, where)
         /\ \A i, j \in DOMAIN Sorted(n, x, where) :
              Sorted(n, x, where)[i].id = Sorted(n, x, where)[j].id => i = j
<1> DEFINE H == AtHome(n, x, where)
           q == SetToSeq(H)
           s == Sorted(n, x, where)
           I == 1 .. Cardinality(H)
<1>1. H \subseteq D /\ H \subseteq Particle
  BY DEF AtHome
<1>2. IsFiniteSet(H)
  BY <1>1, GhostAssumption, FS_Subset
<1>3. /\ Cardinality(H) \in Nat /\ q \in [I -> H]
      /\ \A i, j \in I : q[i] = q[j] => i = j
      /\ \A p \in H : \E i \in I : q[i] = p
  BY <1>2, ListOfSet
<1>4. s = [i \in I |-> Copy(q[i], Folded(where[q[i]]))]
  BY DEF Sorted
<1> HIDE DEF H, q, s, I
<1>5. \A i \in I : /\ q[i] \in H /\ s[i] = Copy(q[i], Folded(where[q[i]]))
                   /\ s[i] \in Rec /\ s[i].id = q[i]
  <2> TAKE i \in I
  <2>1. q[i] \in H /\ s[i] = Copy(q[i], Folded(where[q[i]]))
    BY <1>3, <1>4
  <2>2. q[i] \in Particle /\ where[q[i]] \in Position
    BY <1>1, <2>1
  <2>3. Folded(where[q[i]]) \in Position
    BY <2>2, HomeIsReal
  <2> QED BY <2>1, <2>2, <2>3 DEF Copy, Rec
<1>6. s \in Seq(Rec) /\ DOMAIN s = I
  <2>1. s \in [1 .. Cardinality(H) -> Rec] BY <1>4, <1>5 DEF I
  <2> QED BY <1>3, <2>1, ListIs DEF I
<1>7. Ids(s) = H
  BY <1>3, <1>5, <1>6 DEF Ids
<1>8. \A i, j \in DOMAIN s : s[i].id = s[j].id => i = j
  BY <1>3, <1>5, <1>6
<1> QED BY <1>6, <1>7, <1>8 DEF s, H

\* cells K and indices J in which every particle is real in one place and the
\* index of the node leads to that
InPlace(K, J) ==
  /\ J \in [Node -> Index]
  /\ \A n, m \in Node, x, y \in RealCell : \A i \in DOMAIN K[n][x], j \in DOMAIN K[m][y] :
       K[n][x][i].id = K[m][y][j].id => n = m /\ x = y /\ i = j
  /\ \A n \in Node : \A p \in DOMAIN J[n] : J[n][p] \in RealCell /\ p \in Ids(K[n][J[n][p]])
  /\ \A n \in Node, x \in RealCell : \A p \in Ids(K[n][x]) : p \in DOMAIN J[n]

\* Cells and indices after decompose().
LEMMA Arranged ==
  ASSUME NEW D \in SUBSET Particle, NEW where \in [D -> Position],
         NEW K, \A n \in Node, x \in RealCell : K[n][x] = Sorted(n, x, where),
         NEW J, J = [n \in Node |-> RealIndex(n, where)]
  PROVE  InPlace(K, J)
<1>1. \A n \in Node, x \in RealCell :
        /\ K[n][x] = Sorted(n, x, where) /\ Ids(K[n][x]) = AtHome(n, x, where)
        /\ \A i, j \in DOMAIN K[n][x] : K[n][x][i].id = K[n][x][j].id => i = j
  BY SortedIs
<1>2. \A p \in D : HomeNode(where[p]) \in Node /\ HomeCell(HomeNode(where[p]), Folded(where[p])) \in RealCell
  BY HomeIsReal
<1>3. \A n \in Node : /\ J[n] = [p \in {q \in D : HomeNode(where[q]) = n} |-> HomeCell(n, Folded(where[p]))]
                      /\ DOMAIN J[n] = {q \in D : HomeNode(where[q]) = n}
                      /\ \A p \in DOMAIN J[n] : J[n][p] = HomeCell(n, Folded(where[p])) /\ J[n][p] \in RealCell
  BY <1>2 DEF RealIndex
<1>4. J \in [Node -> Index]
  <2>1. ASSUME NEW n \in Node PROVE J[n] \in Index
    <3>1. J[n] \in [DOMAIN J[n] -> Cell] /\ DOMAIN J[n] \in SUBSET Particle BY <1>3, RealIsCell
    <3> QED BY <3>1 DEF Index
  <2> QED BY <2>1
<1>5. \A n \in Node, x \in RealCell : \A p : p \in AtHome(n, x, where) <=>
        p \in D /\ HomeNode(where[p]) = n /\ HomeCell(n, Folded(where[p])) = x
  BY DEF AtHome
<1>6. ASSUME NEW n \in Node, NEW m \in Node, NEW x \in RealCell, NEW y \in RealCell,
             NEW i \in DOMAIN K[n][x], NEW j \in DOMAIN K[m][y], K[n][x][i].id = K[m][y][j].id
      PROVE  n = m /\ x = y /\ i = j
  <2>1. K[n][x][i].id \in AtHome(n, x, where) /\ K[m][y][j].id \in AtHome(m, y, where)
    BY <1>1 DEF Ids
  <2>2. n = m /\ x = y
    BY <1>5, <1>6, <2>1
  <2> QED BY <1>1, <1>6, <2>2
<1>7. ASSUME NEW n \in Node, NEW p \in DOMAIN J[n] PROVE p \in Ids(K[n][J[n][p]])
  <2>1. p \in D /\ HomeNode(where[p]) = n /\ J[n][p] = HomeCell(n, Folded(where[p])) /\ J[n][p] \in RealCell
    BY <1>3
  <2>2. p \in AtHome(n, J[n][p], where)
    BY <1>5, <2>1
  <2> QED BY <1>1, <2>1, <2>2
<1>8. ASSUME NEW n \in Node, NEW x \in RealCell, NEW p \in Ids(K[n][x]) PROVE p \in DOMAIN J[n]
  <2>1. p \in AtHome(n, x, where)
    BY <1>1, <1>8
  <2>2. p \in D /\ HomeNode(where[p]) = n
    BY <1>5, <2>1
  <2> QED BY <1>3, <2>2
<1> QED BY <1>3, <1>4, <1>6, <1>7, <1>8 DEF InPlace

\* Real cells show what they hold, also after a step.
LEMMA RealImageNext ==
  ASSUME cells' \in [Node -> [Cell -> Seq(Rec)]], NEW n \in Node, NEW x \in RealCell
  PROVE  Image(n, x)'
<1>1. x \in Cell
  BY RealIsCell
<1>2. MirrorNode(n, x) = n /\ MirrorCell(n, x) = x /\ \A c \in Coord : BoxCopy(n, x, c) = 0
  BY <1>1, Mirrors
<1>3. \A i \in DOMAIN cells'[n][x] : cells'[n][x][i].pos = Seen(n, x, cells'[n][x][i].pos)
  <2> TAKE i \in DOMAIN cells'[n][x]
  <2>1. cells'[n][x] \in Seq(Rec) BY <1>1
  <2>2. cells'[n][x][i].pos \in Position
    <3>1. cells'[n][x][i] \in Rec BY <2>1
    <3> QED BY <3>1 DEF Rec
  <2>3. \A q \in Position : Seen(n, x, q) = q
    <3> TAKE q \in Position
    <3>1. \A c \in Coord : BoxL(c) \in Int /\ q[c] \in Int
      BY Sizes DEF BoxL, LocalSize, Position
    <3>2. \A c \in Coord : q[c] + BoxCopy(n, x, c) * BoxL(c) = q[c]
      BY <1>2, <3>1
    <3> QED BY <3>2 DEF Seen, Position
  <2> QED BY <2>2, <2>3
<1>4. Home(n, x)' = cells'[n][x]
  BY <1>2 DEF Home
<1> QED BY <1>3, <1>4, Zenon DEF Image, SameIds

\* The real particle of an id.
LEMMA PresentIs ==
  ASSUME Types, NEW p \in Present
  PROVE  /\ p \in Particle /\ RealAt(p)[1] \in Node /\ RealAt(p)[2] \in RealCell /\ RealAt(p)[2] \in Cell
         /\ ById(cells[RealAt(p)[1]][RealAt(p)[2]], p) \in DOMAIN cells[RealAt(p)[1]][RealAt(p)[2]]
         /\ cells[RealAt(p)[1]][RealAt(p)[2]][ById(cells[RealAt(p)[1]][RealAt(p)[2]], p)].id = p
         /\ PosOf(p) \in Position
<1> DEFINE l == RealAt(p)
           s == cells[l[1]][l[2]]
           i == ById(s, p)
<1>1. p \in Particle /\ \E h \in Node \X RealCell : p \in Ids(cells[h[1]][h[2]])
  <2>1. PICK n \in Node, x \in RealCell : p \in Ids(cells[n][x]) BY DEF Present
  <2>2. <<n, x>> \in Node \X RealCell /\ <<n, x>>[1] = n /\ <<n, x>>[2] = x OBVIOUS
  <2> QED BY <2>1, <2>2 DEF Present
<1>2. l \in Node \X RealCell /\ p \in Ids(cells[l[1]][l[2]])
  BY <1>1, Zenon DEF RealAt
<1>3. l[1] \in Node /\ l[2] \in RealCell /\ l[2] \in Cell
  BY <1>2, RealIsCell
<1> HIDE DEF l
<1>4. \E j \in DOMAIN s : s[j].id = p
  BY <1>2 DEF Ids
<1>5. i \in DOMAIN s /\ s[i].id = p
  BY <1>4, Zenon DEF ById
<1>6. PosOf(p) = s[i].pos
  BY DEF PosOf, l
<1>7. s \in Seq(Rec)
  BY <1>3 DEF Types
<1> HIDE DEF s, i
<1>8. s[i].pos \in Position
  <2>1. s[i] \in Rec BY <1>5, <1>7
  <2> QED BY <2>1 DEF Rec
<1> QED BY <1>1, <1>3, <1>5, <1>6, <1>8 DEF l, s, i

-----------------------------------------------------------------------------
(* The steps that all nodes take together.                                 *)

\* After decompose() all is as it is to be before the exchanges.
LEMMA DecomposeKeeps ==
  ASSUME GInv, NEW D \in SUBSET Particle, NEW where \in [D -> Position], DecomposeAt(where)
  PROVE  GInv'
<1> USE DEF GInv
<1>1. /\ AllAtEnd /\ at' = [n \in Node |-> 1] /\ touched' = FALSE /\ packed' = packed /\ net' = net
      /\ cells' = [n \in Node |-> [x \in Cell |->
                     IF x \in RealCell THEN Sorted(n, x, where) ELSE cells[n][x]]]
      /\ index' = [n \in Node |-> RealIndex(n, where)]
  BY DEF DecomposeAt, SortedIndex
<1>2. net = {} /\ packed = [n \in Node |-> FALSE]
  BY <1>1, AllQuiet
<1>3. \A n \in Node, x \in Cell :
        cells'[n][x] = IF x \in RealCell THEN Sorted(n, x, where) ELSE cells[n][x]
  BY <1>1
<1>4. \A n \in Node, x \in RealCell : cells'[n][x] = Sorted(n, x, where)
  BY <1>3, RealIsCell
<1>5. /\ index' \in [Node -> Index]
      /\ \A n, m \in Node, x, y \in RealCell : \A i \in DOMAIN cells'[n][x], j \in DOMAIN cells'[m][y] :
           cells'[n][x][i].id = cells'[m][y][j].id => n = m /\ x = y /\ i = j
      /\ \A n \in Node : \A p \in DOMAIN index'[n] : index'[n][p] \in RealCell /\ p \in Ids(cells'[n][index'[n][p]])
      /\ \A n \in Node, x \in RealCell : \A p \in Ids(cells'[n][x]) : p \in DOMAIN index'[n]
  <2>1. InPlace(cells', index') BY <1>1, <1>4, Arranged
  <2> QED BY <2>1, Zenon DEF InPlace
<1>6. Types'
  <2>1. \A n \in Node, x \in Cell : cells'[n][x] \in Seq(Rec)
    <3> TAKE n \in Node, x \in Cell
    <3>1. x \in RealCell => Sorted(n, x, where) \in Seq(Rec) BY SortedIs
    <3>2. cells[n][x] \in Seq(Rec) BY DEF Types
    <3> QED BY <1>3, <3>1, <3>2
  <2>2. cells' \in [Node -> [Cell -> Seq(Rec)]]
    <3>1. \A n \in Node : cells'[n] = [x \in Cell |-> cells'[n][x]] BY <1>1
    <3>2. cells' = [n \in Node |-> cells'[n]] BY <1>1
    <3>3. \A n \in Node : cells'[n] \in [Cell -> Seq(Rec)] BY <2>1, <3>1
    <3> QED BY <3>2, <3>3
  <2>3. at' \in [Node -> 1 .. AtEnd] BY <1>1 DEF AtEnd
  <2> QED BY <1>1, <1>5, <2>2, <2>3 DEF Types
<1>7. OnePlace'
  BY <1>5, Zenon DEF OnePlace
<1>8. InStep'
  <2>1. 1 \in 1 .. AtEnd BY DEF AtEnd
  <2> QED BY <1>1, <1>2, <2>1, AllStart
<1>9. \A n \in Node : at'[n] = 1 /\ at'[n] < AtUpdate /\ ~(at'[n] >= AtUpdate) /\ ~(at'[n] > AtCalc)
  BY <1>1 DEF AtUpdate, AtCalc
<1>10. GhostsFilled'
  <2>1. \A n \in Node, x \in Cell : Done(x, at'[n]) => Image(n, x)'
    <3> TAKE n \in Node, x \in Cell
    <3>1. cells' \in [Node -> [Cell -> Seq(Rec)]] BY <1>6 DEF Types
    <3>2. Done(x, 1) => x \in RealCell BY DoneFirst
    <3> QED BY <1>9, <3>1, <3>2, RealImageNext
  <2> QED BY <1>9, <2>1, Zenon DEF GhostsFilled
<1>11. ForcesAdded'
  BY <1>9, Zenon DEF ForcesAdded
<1>12. MailIsGood'
  BY <1>1, <1>2 DEF MailIsGood
<1>13. IndexLeads'
  <2>1. \A n \in Node : \A p \in DOMAIN index'[n] : Done(index'[n][p], at'[n])
    BY <1>5, <1>9, DoneFirst, RealIsCell
  <2>2. \A n \in Node, x \in Cell : Done(x, at'[n]) => x \in RealCell
    BY <1>9, DoneFirst
  <2>3. \A n \in Node, x \in RealCell : \A p \in Ids(cells'[n][x]) : p \in DOMAIN index'[n] /\ index'[n][p] \in RealCell
    BY <1>5
  <2> QED BY <1>5, <2>1, <2>2, <2>3, Zenon DEF IndexLeads
<1> QED BY <1>6, <1>7, <1>8, <1>10, <1>11, <1>12, <1>13

\* integrate1 and decompose().
LEMMA ResortKeeps ==
  ASSUME GInv, NEW p \in Present, NEW v \in Moves, IntegrateAndResort(p, v)
  PROVE  GInv'
<1> DEFINE where == [q \in Present |-> IF q = p THEN [c \in Coord |-> PosOf(p)[c] + v[c]] ELSE PosOf(q)]
<1>1. \A q \in Present : PosOf(q) \in Position
  BY PresentIs DEF GInv
<1>2. [c \in Coord |-> PosOf(p)[c] + v[c]] \in Position
  BY <1>1, GhostAssumption DEF Position
<1>3. Present \in SUBSET Particle /\ where \in [Present -> Position]
  BY <1>1, <1>2 DEF Present
<1>4. DecomposeAt(where)
  BY DEF IntegrateAndResort
<1> HIDE DEF where
<1> QED BY <1>3, <1>4, DecomposeKeeps

\* decompose() called by the script.
LEMMA DecomposeStep ==
  ASSUME GInv, Decompose
  PROVE  GInv'
<1> DEFINE where == [q \in Present |-> PosOf(q)]
<1>1. \A q \in Present : PosOf(q) \in Position
  BY PresentIs DEF GInv
<1>2. Present \in SUBSET Particle /\ where \in [Present -> Position]
  BY <1>1 DEF Present
<1>3. DecomposeAt(where)
  BY DEF Decompose
<1> HIDE DEF where
<1> QED BY <1>2, <1>3, DecomposeKeeps

\* integrate1 without a resort: ids stay, the positions of ghosts are old.
LEMMA IntegrateKeeps ==
  ASSUME GInv, NEW p \in Present, NEW v \in Moves, Integrate(p, v)
  PROVE  GInv'
<1> USE DEF GInv
<1> DEFINE n == RealAt(p)[1]
           x == RealAt(p)[2]
           i == ById(cells[n][x], p)
           q == [c \in Coord |-> cells[n][x][i].pos[c] + v[c]]
           r == [cells[n][x][i] EXCEPT !.pos = q]
           s == [cells[n][x] EXCEPT ![i] = r]
<1>1. n \in Node /\ x \in RealCell /\ x \in Cell /\ i \in DOMAIN cells[n][x] /\ PosOf(p) \in Position
  BY PresentIs
<1>2. /\ AllAtEnd /\ touched = FALSE /\ at' = [m \in Node |-> AtUpdate]
      /\ index' = index /\ packed' = packed /\ net' = net /\ touched' = FALSE
  BY DEF Integrate, Types
<1>3. net = {} /\ packed = [m \in Node |-> FALSE] /\ at = [m \in Node |-> AtEnd]
  BY <1>2, AllQuiet
<1>4. \A m \in Node, y \in Cell :
        /\ cells[m][y] \in Seq(Rec) /\ DOMAIN cells[m][y] = 1 .. Len(cells[m][y]) /\ Len(cells[m][y]) \in Nat
        /\ \A j \in DOMAIN cells[m][y] : cells[m][y][j] \in Rec
  <2>1. \A m \in Node, y \in Cell : cells[m][y] \in Seq(Rec)
    BY DEF Types
  <2> QED BY <2>1
<1>5. cells' = [cells EXCEPT ![n] = [cells[n] EXCEPT ![x] = s]]
  BY DEF Integrate
<1>6. q \in Position
  <2>1. cells[n][x][i].pos \in Position BY <1>1, <1>4 DEF Rec
  <2>2. v \in [Coord -> Int] BY GhostAssumption
  <2> QED BY <2>1, <2>2 DEF Position
<1> HIDE DEF q
<1>7. r \in Rec /\ r.id = cells[n][x][i].id
  <2>1. cells[n][x][i] \in Rec BY <1>1, <1>4
  <2> QED BY <1>6, <2>1 DEF Rec
<1> HIDE DEF r, i
<1>8. s \in Seq(Rec) /\ DOMAIN s = DOMAIN cells[n][x] /\ \A j \in DOMAIN s : s[j].id = cells[n][x][j].id
  <2>1. DOMAIN s = DOMAIN cells[n][x] /\ \A j \in DOMAIN s : s[j] = IF j = i THEN r ELSE cells[n][x][j]
    BY <1>1, <1>4
  <2>2. s \in [1 .. Len(cells[n][x]) -> Rec]
    BY <1>1, <1>4, <1>7
  <2>3. s \in Seq(Rec) BY <1>1, <1>4, <2>2, ListIs
  <2> QED BY <1>7, <2>1, <2>3
<1> HIDE DEF n, x, s
<1>9. cells' \in [Node -> [Cell -> Seq(Rec)]]
  BY <1>1, <1>5, <1>8 DEF Types
<1>10. \A m \in Node, y \in Cell :
         /\ DOMAIN cells'[m][y] = DOMAIN cells[m][y]
         /\ \A j \in DOMAIN cells[m][y] : cells'[m][y][j].id = cells[m][y][j].id
  <2> TAKE m \in Node, y \in Cell
  <2>1. cells'[m][y] = IF m = n /\ y = x THEN s ELSE cells[m][y]
    BY <1>1, <1>5 DEF Types
  <2> QED BY <1>8, <2>1
<1>11. Types'
  <2>1. at' \in [Node -> 1 .. AtEnd] BY <1>2 DEF AtEnd, AtUpdate
  <2> QED BY <1>2, <1>9, <2>1 DEF Types
<1>12. OnePlace'
  BY <1>10, RealIsCell DEF OnePlace
<1>13. InStep'
  <2>1. AtUpdate \in 1 .. AtEnd BY DEF AtUpdate, AtEnd
  <2> QED BY <1>2, <1>3, <2>1, AllStart
<1>14. \A m \in Node : /\ at'[m] = 7 /\ ~(at'[m] < AtUpdate) /\ ~(at'[m] > AtCalc) /\ at'[m] - 6 = 1
                       /\ at[m] = 20 /\ at[m] >= AtUpdate
  BY <1>2, <1>3 DEF AtUpdate, AtCalc, AtEnd
<1>15. GhostsFilled'
  <2> SUFFICES ASSUME NEW m \in Node, NEW y \in Cell
               PROVE  SameIds(m, y)' /\ (Done(y, 1) => Image(m, y)')
    BY <1>14, Zenon DEF GhostsFilled
  <2>1. SameIds(m, y)
    BY <1>2, <1>14 DEF GhostsFilled
  <2>2. MirrorNode(m, y) \in Node /\ MirrorCell(m, y) \in Cell
    BY Mirrors, RealIsCell
  <2>3. SameIds(m, y)'
    BY <1>10, <2>1, <2>2 DEF SameIds, Home
  <2>4. Done(y, 1) => Image(m, y)'
    BY <1>9, DoneFirst, RealImageNext
  <2> QED BY <2>3, <2>4
<1>16. ForcesAdded'
  BY <1>14, Zenon DEF ForcesAdded
<1>17. MailIsGood'
  BY <1>2, <1>3 DEF MailIsGood
<1>18. IndexLeads'
  <2>1. \A m \in Node, y \in Cell : Ids(cells'[m][y]) = Ids(cells[m][y])
    BY <1>10, KeptIds
  <2>2. \A m \in Node : \A a \in DOMAIN index[m] : index[m][a] \in Cell
    BY DEF Types, Index
  <2>3. \A m \in Node : \A y : Done(y, at[m])
    BY <1>14, DoneLast
  <2>4. \A m \in Node :
          /\ \A a \in DOMAIN index[m] : a \in Ids(cells[m][index[m][a]])
          /\ \A y \in Cell : \A a \in Ids(cells[m][y]) :
               a \in DOMAIN index[m] /\ (y \in RealCell => index[m][a] \in RealCell)
    BY <1>2, <2>3 DEF IndexLeads
  <2>5. \A m \in Node :
          /\ \A a \in DOMAIN index'[m] : a \in Ids(cells'[m][index'[m][a]])
          /\ \A y \in Cell : \A a \in Ids(cells'[m][y]) :
               a \in DOMAIN index'[m] /\ (y \in RealCell => index'[m][a] \in RealCell)
    BY <1>2, <2>1, <2>2, <2>4
  <2> QED BY <1>14, <2>5, Zenon DEF IndexLeads
<1> QED BY <1>11, <1>12, <1>13, <1>15, <1>16, <1>17, <1>18

\* What a script that adds or removes particles has to keep: it does so when
\* all are at the end, and until decompose() only the index is looked at.
LEMMA TouchKeeps ==
  ASSUME GInv, AllAtEnd, touched' = TRUE, at' = at, packed' = packed, net' = net,
         cells' \in [Node -> [Cell -> Seq(Rec)]], index' \in [Node -> Index], OnePlace',
         \A n \in Node : \A p \in DOMAIN index'[n] : p \in Ids(cells'[n][index'[n][p]]),
         \A n \in Node, x \in RealCell : \A p \in Ids(cells'[n][x]) :
           p \in DOMAIN index'[n] /\ index'[n][p] \in RealCell
  PROVE  GInv'
<1> USE DEF GInv
<1>1. net = {} /\ packed = [n \in Node |-> FALSE] /\ at = [n \in Node |-> AtEnd]
  BY AllQuiet
<1>2. Types'
  BY DEF Types
<1>3. \A n \in Node : at'[n] = AtEnd /\ at[n] = AtEnd /\ ~(at'[n] < AtUpdate)
  BY <1>1 DEF AtEnd, AtUpdate
<1>4. InStep'
  <2>1. AllAtEnd' BY <1>3 DEF AllAtEnd
  <2>2. \A n \in Node : \A k : Sent(n, k)' <=> Sent(n, k) BY DEF Sent
  <2>3. \A n \in Node, k \in 1 .. AtEnd - 1 : Talks(k) /\ at[n] > k => Sent(From(n, k), k)'
    BY <2>2, FromTo DEF InStep
  <2>4. \A n \in Node : ~packed'[n] BY <1>1
  <2>5. \A m \in net' : FALSE BY <1>1
  <2> QED BY <2>1, <2>3, <2>4, <2>5, Zenon DEF InStep
<1>5. GhostsFilled'
  BY <1>3, Zenon DEF GhostsFilled
<1>6. ForcesAdded'
  <2>1. \A n \in Node : at[n] > AtCalc => \A x \in Cell : \A l \in Shares(n, x, at[n]) : at[l[1]] > AtCalc
    BY DEF ForcesAdded
  <2> QED BY <2>1, Zenon DEF ForcesAdded
<1>7. MailIsGood'
  BY <1>1 DEF MailIsGood
<1>8. IndexLeads'
  BY <1>3, Zenon DEF IndexLeads
<1> QED BY <1>2, <1>4, <1>5, <1>6, <1>7, <1>8

\* A list with one more.
LEMMA AppendIs ==
  ASSUME NEW s \in Seq(Rec), NEW r \in Rec
  PROVE  /\ Append(s, r) \in Seq(Rec) /\ DOMAIN s = 1 .. Len(s) /\ Len(s) \in Nat
         /\ DOMAIN Append(s, r) = 1 .. Len(s) + 1
         /\ \A i \in 1 .. Len(s) : Append(s, r)[i] = s[i]
         /\ Append(s, r)[Len(s) + 1] = r
         /\ Ids(Append(s, r)) = Ids(s) \cup {r.id}
<1> DEFINE t == Append(s, r)
<1>1. /\ t \in Seq(Rec) /\ DOMAIN s = 1 .. Len(s) /\ Len(s) \in Nat
      /\ DOMAIN t = 1 .. Len(s) + 1
      /\ \A i \in 1 .. Len(s) : t[i] = s[i]
      /\ t[Len(s) + 1] = r
  OBVIOUS
<1> HIDE DEF t
<1>2. Ids(t) = Ids(s) \cup {r.id}
  <2>1. \A i \in 1 .. Len(s) + 1 : i \in 1 .. Len(s) \/ i = Len(s) + 1
    BY <1>1
  <2>2. \A i \in 1 .. Len(s) : i \in 1 .. Len(s) + 1
    BY <1>1
  <2>3. Len(s) + 1 \in 1 .. Len(s) + 1
    BY <1>1
  <2>4. ASSUME NEW i \in DOMAIN t PROVE t[i].id \in Ids(s) \cup {r.id}
    BY <1>1, <2>1 DEF Ids
  <2>5. ASSUME NEW i \in DOMAIN s PROVE s[i].id \in Ids(t)
    BY <1>1, <2>2 DEF Ids
  <2>6. r.id \in Ids(t)
    BY <1>1, <2>3 DEF Ids
  <2> QED BY <2>4, <2>5, <2>6 DEF Ids
<1> QED BY <1>1, <1>2 DEF t

\* addParticle: the owner appends the particle and points its index there.
LEMMA AddParticleKeeps ==
  ASSUME GInv, NEW p \in Particle, NEW pos \in Start, AddParticle(p, pos)
  PROVE  GInv'
<1> USE DEF GInv
<1> DEFINE n == NodeClipped(pos)
           x == CellClipped(n, Folded(pos))
           s == cells[n][x]
           r == Copy(p, Folded(pos))
           t == Append(s, r)
<1>1. /\ AllAtEnd /\ p \notin Present /\ touched' = TRUE /\ at' = at /\ packed' = packed /\ net' = net
      /\ cells' = [cells EXCEPT ![n] = [cells[n] EXCEPT ![x] = t]]
      /\ index' = [index EXCEPT ![n] = Point(index[n], p, x)]
  BY DEF AddParticle
<1>2. pos \in Position
  BY GhostAssumption DEF Position
<1>3. n \in Node /\ x \in RealCell /\ x \in Cell /\ Folded(pos) \in Position
  <2>1. Folded(pos) \in Position BY <1>2, HomeIsReal
  <2>2. n \in Node /\ x \in RealCell BY <1>2, <2>1, ClippedIsReal
  <2> QED BY <2>1, <2>2, RealIsCell
<1>4. r \in Rec /\ r.id = p
  <2>1. r = [id |-> p, pos |-> Folded(pos), f |-> <<>>] BY DEF Copy
  <2>2. <<>> \in Seq(Share) OBVIOUS
  <2> QED BY <1>3, <2>1, <2>2 DEF Rec
<1>5. s \in Seq(Rec)
  BY <1>3 DEF Types
<1> HIDE DEF n, x, r
<1>6. /\ t \in Seq(Rec) /\ DOMAIN s = 1 .. Len(s) /\ Len(s) \in Nat
      /\ DOMAIN t = 1 .. Len(s) + 1 /\ (\A i \in 1 .. Len(s) : t[i] = s[i]) /\ t[Len(s) + 1] = r
      /\ Ids(t) = Ids(s) \cup {p}
  BY <1>4, <1>5, AppendIs
<1> HIDE DEF t
<1>7. cells' \in [Node -> [Cell -> Seq(Rec)]]
  BY <1>1, <1>3, <1>6 DEF Types
<1>8. \A m \in Node, y \in Cell : cells'[m][y] = IF m = n /\ y = x THEN t ELSE cells[m][y]
  BY <1>1, <1>3 DEF Types
<1>9. \A m \in Node, y \in RealCell : y \in Cell /\ p \notin Ids(cells[m][y])
  BY <1>1, RealIsCell DEF Present
<1>10. OnePlace'
  <2>1. ASSUME NEW m \in Node, NEW y \in RealCell, NEW i \in DOMAIN cells'[m][y]
        PROVE  \/ i \in DOMAIN cells[m][y] /\ cells'[m][y][i].id = cells[m][y][i].id /\ cells'[m][y][i].id # p
               \/ m = n /\ y = x /\ i = Len(s) + 1 /\ cells'[m][y][i].id = p
    <3>1. CASE m = n /\ y = x
      <4>1. cells'[m][y] = t /\ cells[m][y] = s BY <1>8, <1>9, <3>1
      <4>2. i \in 1 .. Len(s) \/ i = Len(s) + 1 BY <1>6, <2>1, <4>1
      <4>3. \A j \in DOMAIN s : s[j].id # p BY <1>9, <3>1 DEF Ids
      <4> QED BY <1>4, <1>6, <3>1, <4>1, <4>2, <4>3
    <3>2. CASE ~(m = n /\ y = x)
      <4>1. cells'[m][y] = cells[m][y] BY <1>8, <1>9, <3>2
      <4>2. \A j \in DOMAIN cells[m][y] : cells[m][y][j].id # p BY <1>9 DEF Ids
      <4> QED BY <2>1, <4>1, <4>2
    <3> QED BY <3>1, <3>2
  <2> SUFFICES ASSUME NEW m \in Node, NEW l \in Node, NEW y \in RealCell, NEW z \in RealCell,
                      NEW i \in DOMAIN cells'[m][y], NEW j \in DOMAIN cells'[l][z],
                      cells'[m][y][i].id = cells'[l][z][j].id
               PROVE  m = l /\ y = z /\ i = j
    BY Zenon DEF OnePlace
  <2>2. \/ i \in DOMAIN cells[m][y] /\ cells'[m][y][i].id = cells[m][y][i].id /\ cells'[m][y][i].id # p
        \/ m = n /\ y = x /\ i = Len(s) + 1 /\ cells'[m][y][i].id = p
    BY <2>1
  <2>3. \/ j \in DOMAIN cells[l][z] /\ cells'[l][z][j].id = cells[l][z][j].id /\ cells'[l][z][j].id # p
        \/ l = n /\ z = x /\ j = Len(s) + 1 /\ cells'[l][z][j].id = p
    BY <2>1
  <2> QED BY <2>2, <2>3 DEF OnePlace
<1>11. /\ \A m \in Node \ {n} : index'[m] = index[m]
       /\ index'[n] = [q \in DOMAIN index[n] \cup {p} |-> IF q = p THEN x ELSE index[n][q]]
       /\ index' = [m \in Node |-> index'[m]]
  BY <1>1, <1>3 DEF Types, Point
<1>12. \A m \in Node : /\ index[m] \in Index /\ DOMAIN index[m] \subseteq Particle
                       /\ \A q \in DOMAIN index[m] : index[m][q] \in Cell
  BY DEF Types, Index
<1>13. index' \in [Node -> Index]
  <2>1. index'[n] \in Index
    <3>1. index'[n] \in [DOMAIN index[n] \cup {p} -> Cell] BY <1>3, <1>11, <1>12
    <3>2. DOMAIN index[n] \cup {p} \in SUBSET Particle BY <1>3, <1>12
    <3> QED BY <3>1, <3>2 DEF Index
  <2> QED BY <1>11, <1>12, <2>1
<1>14. \A m \in Node, y \in Cell : /\ Ids(cells[m][y]) \subseteq Ids(cells'[m][y])
                                   /\ m # n \/ y # x => cells'[m][y] = cells[m][y]
                                   /\ m = n /\ y = x => Ids(cells'[m][y]) = Ids(cells[m][y]) \cup {p}
  BY <1>6, <1>8
<1>15. ASSUME NEW m \in Node, NEW q \in DOMAIN index'[m]
       PROVE  q \in Ids(cells'[m][index'[m][q]])
  <2>1. CASE m = n /\ q = p
    <3>1. index'[m][q] = x BY <1>11, <2>1
    <3> QED BY <1>3, <1>14, <2>1, <3>1
  <2>2. CASE ~(m = n /\ q = p)
    <3>1. q \in DOMAIN index[m] /\ index'[m][q] = index[m][q] BY <1>11, <1>15, <2>2
    <3> QED BY <1>12, <1>14, <3>1 DEF IndexLeads
  <2> QED BY <2>1, <2>2
<1>16. ASSUME NEW m \in Node, NEW y \in RealCell, NEW q \in Ids(cells'[m][y])
       PROVE  q \in DOMAIN index'[m] /\ index'[m][q] \in RealCell
  <2>1. CASE m = n /\ q = p BY <1>3, <1>11, <2>1
  <2>2. CASE ~(m = n /\ q = p)
    <3>1. q \in Ids(cells[m][y]) BY <1>9, <1>14, <1>16, <2>2
    <3>2. q \in DOMAIN index[m] /\ index[m][q] \in RealCell BY <1>9, <3>1 DEF IndexLeads
    <3> QED BY <1>11, <2>2, <3>2
  <2> QED BY <2>1, <2>2
<1> HIDE DEF GInv
<1> QED BY <1>1, <1>7, <1>10, <1>13, <1>15, <1>16, TouchKeeps

\* A list without its element i: the last one has taken its place.
LEMMA RefilledIs ==
  ASSUME NEW s \in Seq(Rec), NEW i \in DOMAIN s, \A j \in DOMAIN s : s[j].id = s[i].id => j = i
  PROVE  /\ Refilled(s, i) \in Seq(Rec)
         /\ Ids(Refilled(s, i)) = Ids(s) \ {s[i].id}
         /\ \A j, k \in DOMAIN Refilled(s, i) : \E l, m \in DOMAIN s :
              /\ Refilled(s, i)[j] = s[l] /\ Refilled(s, i)[k] = s[m]
              /\ l = m => j = k
<1> DEFINE T == Len(s)
           t == [s EXCEPT ![i] = s[Len(s)]]
           u == SubSeq(t, 1, T - 1)
           from(j) == IF j = i THEN T ELSE j
<1>1. T \in Nat /\ DOMAIN s = 1 .. T /\ i \in 1 .. T /\ T > 0 /\ s \in [1 .. T -> Rec]
  OBVIOUS
<1> HIDE DEF T
<1>2. T \in 1 .. T /\ s[T] \in Rec
  BY <1>1
<1>3. t \in [1 .. T -> Rec] /\ \A j \in 1 .. T : t[j] = s[from(j)]
  <2>1. t = [s EXCEPT ![i] = s[T]] BY DEF T
  <2> HIDE DEF t
  <2> QED BY <1>1, <1>2, <2>1
<1>4. t \in Seq(Rec) /\ Len(t) = T
  BY <1>1, <1>3, ListIs
<1> HIDE DEF t
<1>5. u \in Seq(Rec) /\ Len(u) = T - 1 /\ \A j \in 1 .. T - 1 : u[j] = t[j]
  <2>1. T - 1 \in Nat /\ T - 1 <= Len(t) BY <1>1, <1>4
  <2>2. \A j \in 1 .. T - 1 : u[j] = t[j] BY <1>1, <1>4, <2>1
  <2>3. u \in Seq(Rec) /\ Len(u) = T - 1 BY <1>1, <1>3, <1>4, <2>1
  <2> QED BY <2>2, <2>3
<1>6. Refilled(s, i) = u
  BY DEF Refilled, t, T
<1> HIDE DEF u
<1>7. DOMAIN u = 1 .. T - 1 /\ \A j \in 1 .. T - 1 : u[j] = s[from(j)] /\ from(j) \in 1 .. T /\ from(j) # i
  <2>1. DOMAIN u = 1 .. T - 1 BY <1>5
  <2>2. \A j \in 1 .. T - 1 : j \in 1 .. T /\ j # T BY <1>1
  <2> QED BY <1>1, <1>2, <1>3, <1>5, <2>1, <2>2
<1>8. \A l \in 1 .. T : l # i => \E j \in 1 .. T - 1 : from(j) = l
  <2> SUFFICES ASSUME NEW l \in 1 .. T, l # i PROVE \E j \in 1 .. T - 1 : from(j) = l
    OBVIOUS
  <2>1. CASE l = T
    <3>1. i \in 1 .. T - 1 /\ from(i) = l BY <1>1, <2>1
    <3> QED BY <3>1
  <2>2. CASE l # T
    <3>1. l \in 1 .. T - 1 /\ from(l) = l BY <1>1, <2>2
    <3> QED BY <3>1
  <2> QED BY <2>1, <2>2
<1>9. \A j, k \in 1 .. T - 1 : from(j) = from(k) => j = k
  BY <1>1
<1> HIDE DEF from
<1>10. Ids(u) = Ids(s) \ {s[i].id}
  <2>1. ASSUME NEW j \in DOMAIN u PROVE u[j].id \in Ids(s) /\ u[j].id # s[i].id
    BY <1>1, <1>7 DEF Ids
  <2>2. ASSUME NEW l \in DOMAIN s, s[l].id # s[i].id PROVE s[l].id \in Ids(u)
    <3>1. PICK j \in 1 .. T - 1 : from(j) = l BY <1>1, <1>8, <2>2
    <3> QED BY <1>7, <3>1 DEF Ids
  <2> QED BY <2>1, <2>2 DEF Ids
<1>11. ASSUME NEW j \in DOMAIN u, NEW k \in DOMAIN u
       PROVE  \E l, m \in DOMAIN s : u[j] = s[l] /\ u[k] = s[m] /\ (l = m => j = k)
  <2>1. from(j) \in DOMAIN s /\ from(k) \in DOMAIN s /\ u[j] = s[from(j)] /\ u[k] = s[from(k)]
        /\ (from(j) = from(k) => j = k)
    BY <1>1, <1>7, <1>9
  <2> QED BY <2>1
<1> QED BY <1>5, <1>6, <1>10, <1>11

\* removeParticle: the owner forgets the particle; ghosts of it stay.
LEMMA RemoveParticleKeeps ==
  ASSUME GInv, NEW p \in Particle, RemoveParticle(p)
  PROVE  GInv'
<1> USE DEF GInv
<1> DEFINE n == RealAt(p)[1]
           x == RealAt(p)[2]
           s == cells[n][x]
           i == ById(s, p)
           t == Refilled(s, i)
<1>1. /\ AllAtEnd /\ p \in Present /\ touched' = TRUE /\ at' = at /\ packed' = packed /\ net' = net
      /\ cells' = [cells EXCEPT ![n] = [cells[n] EXCEPT ![x] = t]]
      /\ index' = [index EXCEPT ![n] = Forget(index[n], p)]
  BY DEF RemoveParticle
<1>2. n \in Node /\ x \in RealCell /\ x \in Cell /\ i \in DOMAIN s /\ s[i].id = p
  BY <1>1, PresentIs
<1>3. s \in Seq(Rec)
  BY <1>2 DEF Types
<1>4. \A m \in Node, y \in RealCell : y \in Cell /\ \A j \in DOMAIN cells[m][y] :
        cells[m][y][j].id = p => m = n /\ y = x /\ j = i
  BY <1>2, RealIsCell DEF OnePlace
<1> HIDE DEF n, x, i
<1>5. \A j \in DOMAIN s : s[j].id = s[i].id => j = i
  BY <1>2, <1>4
<1>6. /\ t \in Seq(Rec) /\ Ids(t) = Ids(s) \ {p}
      /\ \A j, k \in DOMAIN t : \E l, m \in DOMAIN s : t[j] = s[l] /\ t[k] = s[m] /\ (l = m => j = k)
  BY <1>2, <1>3, <1>5, RefilledIs
<1> HIDE DEF t
<1>7. cells' \in [Node -> [Cell -> Seq(Rec)]]
  BY <1>1, <1>2, <1>6 DEF Types
<1>8. \A m \in Node, y \in Cell : cells'[m][y] = IF m = n /\ y = x THEN t ELSE cells[m][y]
  BY <1>1, <1>2 DEF Types
<1>9. OnePlace'
  <2>1. ASSUME NEW m \in Node, NEW y \in RealCell, NEW j \in DOMAIN cells'[m][y]
        PROVE  \E k \in DOMAIN cells[m][y] : cells'[m][y][j].id = cells[m][y][k].id
    <3>1. CASE m = n /\ y = x BY <1>2, <1>6, <1>8, <2>1, <3>1
    <3>2. CASE ~(m = n /\ y = x)
      <4>1. cells'[m][y] = cells[m][y] BY <1>4, <1>8, <3>2
      <4> QED BY <2>1, <4>1
    <3> QED BY <3>1, <3>2
  <2> SUFFICES ASSUME NEW m \in Node, NEW l \in Node, NEW y \in RealCell, NEW z \in RealCell,
                      NEW j \in DOMAIN cells'[m][y], NEW k \in DOMAIN cells'[l][z],
                      cells'[m][y][j].id = cells'[l][z][k].id
               PROVE  m = l /\ y = z /\ j = k
    BY Zenon DEF OnePlace
  <2>2. m = l /\ y = z
    <3>1. PICK a \in DOMAIN cells[m][y] : cells'[m][y][j].id = cells[m][y][a].id BY <2>1
    <3>2. PICK b \in DOMAIN cells[l][z] : cells'[l][z][k].id = cells[l][z][b].id BY <2>1
    <3>3. cells[m][y][a].id = cells[l][z][b].id BY <3>1, <3>2
    <3>4. \A g \in DOMAIN cells[m][y], h \in DOMAIN cells[l][z] :
            cells[m][y][g].id = cells[l][z][h].id => m = l /\ y = z
      BY DEF OnePlace
    <3> QED BY <3>3, <3>4
  <2>3. CASE m = n /\ y = x
    <3>1. cells'[m][y] = t BY <1>2, <1>8, <2>3
    <3>2. PICK a, b \in DOMAIN s : t[j] = s[a] /\ t[k] = s[b] /\ (a = b => j = k)
      BY <1>6, <2>2, <3>1
    <3>3. s[a].id = s[b].id BY <2>2, <3>1, <3>2
    <3>4. a = b BY <1>2, <3>3 DEF OnePlace
    <3> QED BY <2>2, <3>2, <3>4
  <2>4. CASE ~(m = n /\ y = x)
    <3>1. cells'[m][y] = cells[m][y] BY <1>4, <1>8, <2>4
    <3> QED BY <2>2, <3>1 DEF OnePlace
  <2> QED BY <2>3, <2>4
<1>10. /\ \A m \in Node \ {n} : index'[m] = index[m]
       /\ index'[n] = [q \in DOMAIN index[n] \ {p} |-> index[n][q]]
       /\ index' = [m \in Node |-> index'[m]]
  BY <1>1, <1>2 DEF Types, Forget
<1>11. \A m \in Node : /\ index[m] \in Index /\ DOMAIN index[m] \subseteq Particle
                       /\ \A q \in DOMAIN index[m] : index[m][q] \in Cell
  BY DEF Types, Index
<1>12. index' \in [Node -> Index]
  <2>1. index'[n] \in Index
    <3>1. index'[n] \in [DOMAIN index[n] \ {p} -> Cell] BY <1>2, <1>10, <1>11
    <3>2. DOMAIN index[n] \ {p} \in SUBSET Particle BY <1>2, <1>11
    <3> QED BY <3>1, <3>2 DEF Index
  <2> QED BY <1>10, <1>11, <2>1
<1>13. ASSUME NEW m \in Node, NEW q \in DOMAIN index'[m]
       PROVE  q \in Ids(cells'[m][index'[m][q]])
  <2>1. q \in DOMAIN index[m] /\ index'[m][q] = index[m][q] /\ (m = n => q # p)
    BY <1>10, <1>13
  <2>2. index[m][q] \in Cell /\ q \in Ids(cells[m][index[m][q]])
    BY <1>11, <2>1 DEF IndexLeads
  <2> QED BY <1>6, <1>8, <2>1, <2>2
<1>14. ASSUME NEW m \in Node, NEW y \in RealCell, NEW q \in Ids(cells'[m][y])
       PROVE  q \in DOMAIN index'[m] /\ index'[m][q] \in RealCell
  <2>1. q \in Ids(cells[m][y]) /\ q # p
    <3>1. CASE m = n /\ y = x BY <1>2, <1>6, <1>8, <1>14, <3>1
    <3>2. CASE ~(m = n /\ y = x)
      <4>1. cells'[m][y] = cells[m][y] BY <1>4, <1>8, <3>2
      <4> QED BY <1>4, <1>14, <3>2, <4>1 DEF Ids
    <3> QED BY <3>1, <3>2
  <2>2. q \in DOMAIN index[m] /\ index[m][q] \in RealCell
    BY <1>4, <2>1 DEF IndexLeads
  <2> QED BY <1>10, <2>1, <2>2
<1> HIDE DEF GInv
<1> QED BY <1>1, <1>7, <1>9, <1>12, <1>13, <1>14, TouchKeeps

\* removeAllParticles: nothing is left, nothing is found.
LEMMA RemoveAllKeeps ==
  ASSUME GInv, RemoveAllParticles
  PROVE  GInv'
<1>1. /\ AllAtEnd /\ touched' = TRUE /\ at' = at /\ packed' = packed /\ net' = net
      /\ cells' = [n \in Node |-> [x \in Cell |-> <<>>]] /\ index' = [n \in Node |-> <<>>]
  BY DEF RemoveAllParticles
<1>2. cells' \in [Node -> [Cell -> Seq(Rec)]]
  BY <1>1
<1>3. \A n \in Node, x \in RealCell : cells'[n][x] = <<>>
  BY <1>1, RealIsCell
<1>4. DOMAIN <<>> = {} /\ Ids(<<>>) = {}
  BY DEF Ids
<1>5. OnePlace'
  BY <1>3, <1>4 DEF OnePlace
<1>6. index' \in [Node -> Index]
  <2>1. <<>> \in [{} -> Cell] OBVIOUS
  <2>2. <<>> \in Index BY <2>1 DEF Index
  <2> QED BY <1>1, <2>2
<1>7. \A n \in Node : DOMAIN index'[n] = {}
  BY <1>1
<1>8. \A n \in Node, x \in RealCell : Ids(cells'[n][x]) = {}
  BY <1>3, <1>4
<1> QED BY <1>1, <1>2, <1>5, <1>6, <1>7, <1>8, TouchKeeps

-----------------------------------------------------------------------------
(* The theorems.                                                           *)

\* The invariant holds at first.
LEMMA InitGInv == Init => GInv
<1> SUFFICES ASSUME Init PROVE GInv
  OBVIOUS
<1>1. PICK where \in [Particle -> Start] :
        /\ cells = [n \in Node |-> [x \in Cell |-> IF x \in RealCell THEN Sorted(n, x, where) ELSE <<>>]]
        /\ index = [n \in Node |-> RealIndex(n, where)]
        /\ at = [n \in Node |-> 1] /\ packed = [n \in Node |-> FALSE] /\ net = {} /\ touched = FALSE
  BY DEF Init
<1>2. Particle \in SUBSET Particle /\ where \in [Particle -> Position]
  BY GhostAssumption DEF Position
<1>3. \A n \in Node, x \in Cell : cells[n][x] = IF x \in RealCell THEN Sorted(n, x, where) ELSE <<>>
  BY <1>1
<1>4. \A n \in Node, x \in RealCell : cells[n][x] = Sorted(n, x, where)
  BY <1>3, RealIsCell
<1>5. /\ index \in [Node -> Index]
      /\ \A n, m \in Node, x, y \in RealCell : \A i \in DOMAIN cells[n][x], j \in DOMAIN cells[m][y] :
           cells[n][x][i].id = cells[m][y][j].id => n = m /\ x = y /\ i = j
      /\ \A n \in Node : \A p \in DOMAIN index[n] : index[n][p] \in RealCell /\ p \in Ids(cells[n][index[n][p]])
      /\ \A n \in Node, x \in RealCell : \A p \in Ids(cells[n][x]) : p \in DOMAIN index[n]
  <2>1. InPlace(cells, index) BY <1>1, <1>2, <1>4, Arranged
  <2> QED BY <2>1, Zenon DEF InPlace
<1>6. Types
  <2>1. \A n \in Node, x \in Cell : cells[n][x] \in Seq(Rec)
    <3> TAKE n \in Node, x \in Cell
    <3>1. x \in RealCell => Sorted(n, x, where) \in Seq(Rec) BY <1>2, SortedIs
    <3>2. <<>> \in Seq(Rec) OBVIOUS
    <3> QED BY <1>3, <3>1, <3>2
  <2>2. cells \in [Node -> [Cell -> Seq(Rec)]]
    <3>1. \A n \in Node : cells[n] = [x \in Cell |-> cells[n][x]] BY <1>1
    <3>2. cells = [n \in Node |-> cells[n]] BY <1>1
    <3>3. \A n \in Node : cells[n] \in [Cell -> Seq(Rec)] BY <2>1, <3>1
    <3> QED BY <3>2, <3>3
  <2>3. at \in [Node -> 1 .. AtEnd] BY <1>1 DEF AtEnd
  <2> QED BY <1>1, <1>5, <2>2, <2>3 DEF Types
<1>7. OnePlace
  BY <1>5, Zenon DEF OnePlace
<1>8. \A n \in Node : /\ at[n] = 1 /\ at[n] < AtUpdate /\ ~(at[n] >= AtUpdate) /\ ~(at[n] > AtCalc)
                      /\ packed[n] = FALSE /\ \A k \in 1 .. AtEnd - 1 : ~(at[n] > k)
  BY <1>1 DEF AtUpdate, AtCalc
<1>9. InStep
  BY <1>1, <1>8 DEF InStep
<1>10. GhostsFilled
  <2>1. \A n \in Node, x \in Cell : Done(x, at[n]) => Image(n, x)
    BY <1>6, <1>8, DoneFirst, RealImage
  <2> QED BY <1>8, <2>1 DEF GhostsFilled
<1>11. ForcesAdded
  BY <1>8 DEF ForcesAdded
<1>12. MailIsGood
  BY <1>1 DEF MailIsGood
<1>13. IndexLeads
  <2>1. \A n \in Node : \A p \in DOMAIN index[n] : Done(index[n][p], at[n])
    BY <1>5, <1>8, DoneFirst, RealIsCell
  <2>2. \A n \in Node, x \in Cell : Done(x, at[n]) => x \in RealCell
    BY <1>8, DoneFirst
  <2>3. \A n \in Node, x \in RealCell : \A p \in Ids(cells[n][x]) : p \in DOMAIN index[n] /\ index[n][p] \in RealCell
    BY <1>5
  <2> QED BY <1>5, <2>1, <2>2, <2>3, Zenon DEF IndexLeads
<1> QED BY <1>6, <1>7, <1>9, <1>10, <1>11, <1>12, <1>13 DEF GInv

\* Every step keeps the invariant.
LEMMA NextGInv == GInv /\ [Next]_vars => GInv'
<1> SUFFICES ASSUME GInv, [Next]_vars PROVE GInv'
  OBVIOUS
<1>1. ASSUME NEW n \in Node, CopyLocal(n) PROVE GInv'
  BY <1>1, CopyLocalKeeps
<1>2. ASSUME NEW n \in Node, Pack(n) PROVE GInv'
  BY <1>2, PackKeeps
<1>3. ASSUME NEW n \in Node, Unpack(n) PROVE GInv'
  BY <1>3, UnpackKeeps
<1>4. ASSUME NEW n \in Node, CalcForces(n) PROVE GInv'
  BY <1>4, CalcForcesKeeps
<1>5. ASSUME NEW p \in Present, NEW v \in Moves, Integrate(p, v) PROVE GInv'
  BY <1>5, IntegrateKeeps
<1>6. ASSUME NEW p \in Present, NEW v \in Moves, IntegrateAndResort(p, v) PROVE GInv'
  BY <1>6, ResortKeeps
<1>7. ASSUME Decompose PROVE GInv'
  BY <1>7, DecomposeStep
<1>8. ASSUME NEW p \in Particle, NEW pos \in Start, AddParticle(p, pos) PROVE GInv'
  BY <1>8, AddParticleKeeps
<1>9. ASSUME NEW p \in Particle, RemoveParticle(p) PROVE GInv'
  BY <1>9, RemoveParticleKeeps
<1>10. ASSUME RemoveAllParticles PROVE GInv'
  BY <1>10, RemoveAllKeeps
<1>11. CASE UNCHANGED vars
  <2>1. cells' = cells /\ index' = index /\ at' = at /\ packed' = packed /\ net' = net /\ touched' = touched
    BY <1>11 DEF vars
  <2>2. Types' /\ OnePlace' BY <2>1 DEF GInv, Types, OnePlace
  <2>3. InStep' BY <2>1, Zenon DEF GInv, InStep, AllAtEnd, Sent
  <2>4. GhostsFilled'
    <3>1. \A n \in Node, x \in Cell : (SameIds(n, x)' <=> SameIds(n, x)) /\ (Image(n, x)' <=> Image(n, x))
      <4> TAKE n \in Node, x \in Cell
      <4>1. SameIds(n, x)' <=> SameIds(n, x) BY <2>1, Zenon DEF SameIds, Home
      <4>2. Image(n, x)' <=> Image(n, x) BY <2>1, <4>1, Zenon DEF Image, Home
      <4> QED BY <4>1, <4>2
    <3>2. GhostsFilled BY DEF GInv
    <3> QED BY <2>1, <3>1, <3>2, Zenon DEF GhostsFilled
  <2>5. ForcesAdded' /\ IndexLeads' BY <2>1, Zenon DEF GInv, ForcesAdded, IndexLeads
  <2>6. MailIsGood' BY <2>1, Zenon DEF GInv, MailIsGood, Good, Home
  <2> QED BY <2>2, <2>3, <2>4, <2>5, <2>6 DEF GInv
<1> QED BY <1>1, <1>2, <1>3, <1>4, <1>5, <1>6, <1>7, <1>8, <1>9, <1>10, <1>11 DEF Next

\* The invariant holds always.
LEMMA GInvHolds == Spec => []GInv
  BY InitGInv, NextGInv, PTL DEF Spec

\* A real particle is in one place, the index of a node leads to cells of it,
\* and buffers belong to exchanges of the program.
THEOREM GhostTypes == Spec => []TypeOK
<1>1. GInv => TypeOK
  <2> SUFFICES ASSUME GInv PROVE TypeOK
    OBVIOUS
  <2>1. Types /\ OnePlace /\ InStep BY DEF GInv
  <2>2. \A n \in Node : /\ at[n] \in 1 .. AtEnd /\ packed[n] \in BOOLEAN
                        /\ DOMAIN index[n] \subseteq Particle
                        /\ \A p \in DOMAIN index[n] : index[n][p] \in Cell
    BY <2>1 DEF Types, Index
  <2>3. ASSUME NEW p \in Present
        PROVE  \E n \in Node, x \in RealCell :
                 /\ Cardinality({i \in DOMAIN cells[n][x] : cells[n][x][i].id = p}) = 1
                 /\ \A m \in Node, y \in RealCell : p \in Ids(cells[m][y]) => <<m, y>> = <<n, x>>
    <3>1. PICK n \in Node, x \in RealCell : p \in Ids(cells[n][x]) BY DEF Present
    <3>2. PICK i \in DOMAIN cells[n][x] : cells[n][x][i].id = p BY <3>1 DEF Ids
    <3>3. {j \in DOMAIN cells[n][x] : cells[n][x][j].id = p} = {i} BY <2>1, <3>2 DEF OnePlace
    <3>4. Cardinality({j \in DOMAIN cells[n][x] : cells[n][x][j].id = p}) = 1 BY <3>3, FS_Singleton
    <3>5. ASSUME NEW m \in Node, NEW y \in RealCell, p \in Ids(cells[m][y]) PROVE m = n /\ y = x
      <4>1. PICK j \in DOMAIN cells[m][y] : cells[m][y][j].id = p BY <3>5 DEF Ids
      <4> QED BY <2>1, <3>2, <4>1 DEF OnePlace
    <3> QED BY <3>4, <3>5
  <2>4. \A m \in net : m.dst \in Node /\ m.phase \in 1 .. AtEnd - 1
    BY <2>1 DEF InStep, Talks
  <2>5. touched \in BOOLEAN BY <2>1 DEF Types
  <2> QED BY <2>2, <2>3, <2>4, <2>5 DEF TypeOK
<1> QED BY <1>1, GInvHolds, PTL

\* When a node computes forces, each of its ghost cells holds the particles of
\* the cell it mirrors, at their positions moved by whole boxes, however many
\* nodes the copy came over.
THEOREM GhostsMirror == Spec => []GhostsAreImages
<1>1. GInv => GhostsAreImages
  <2> SUFFICES ASSUME GInv, NEW n \in Node, at[n] = AtCalc, NEW g \in GhostCell
               PROVE  /\ DOMAIN cells[n][g] = DOMAIN Home(n, g)
                      /\ \A i \in DOMAIN Home(n, g) :
                           /\ cells[n][g][i].id = Home(n, g)[i].id
                           /\ \A c \in Coord :
                                cells[n][g][i].pos[c] = Home(n, g)[i].pos[c] + BoxCopy(n, g, c) * BoxL(c)
    BY Zenon DEF GhostsAreImages, Home
  <2>1. touched = FALSE
    <3>1. at[n] # AtEnd BY DEF AtCalc, AtEnd
    <3> QED BY <3>1, Untouched DEF GInv
  <2>2. g \in Cell /\ at[n] >= AtUpdate /\ Done(g, at[n] - 6)
    BY DoneLast DEF GhostCell, AtCalc, AtUpdate
  <2>3. Image(n, g) BY <2>1, <2>2 DEF GInv, GhostsFilled
  <2> QED BY <2>3 DEF Image, SameIds, Seen
<1> QED BY <1>1, GInvHolds, PTL

\* When a node has collected the ghost forces, the force of each of its
\* particles has the share of every copy of it, on any node, exactly once, and
\* there is such a copy in every cell that mirrors the cell of the particle.
THEOREM ForcesHome == Spec => []ForcesComeHome
<1>1. GInv => ForcesComeHome
  <2> SUFFICES ASSUME GInv, NEW n \in Node, at[n] = AtEnd, ~touched, NEW x \in RealCell,
                      NEW i \in DOMAIN cells[n][x]
               PROVE  LET r == cells[n][x][i]
                      IN  /\ Len(r.f) = Cardinality(Places(r.id))
                          /\ {r.f[k] : k \in DOMAIN r.f} = Places(r.id)
                          /\ \A m \in Node, y \in Cell :
                               MirrorNode(m, y) = n /\ MirrorCell(m, y) = x => <<m, y>> \in Places(r.id)
    BY DEF ForcesComeHome
  <2> DEFINE p == cells[n][x][i].id
             S == Shares(n, x, AtEnd)
  <2>1. /\ Types /\ OnePlace /\ ForcesAdded /\ GhostsFilled /\ x \in Cell /\ at[n] > AtCalc
    BY RealIsCell DEF GInv, AtCalc, AtEnd
  <2>2. Once(cells[n][x][i].f, S) /\ \A l \in S : at[l[1]] > AtCalc
    BY <2>1 DEF ForcesAdded
  <2>3. S = {l \in Share : MirrorNode(l[1], l[2]) = n /\ MirrorCell(l[1], l[2]) = x}
    BY SharesLast
  <2>4. ASSUME NEW l \in Share, at[l[1]] > AtCalc
        PROVE  p \in Ids(cells[l[1]][l[2]]) <=> MirrorNode(l[1], l[2]) = n /\ MirrorCell(l[1], l[2]) = x
    <3> DEFINE m == l[1]
               y == l[2]
    <3>1. m \in Node /\ y \in Cell BY ShareIs
    <3>2. SameIds(m, y)
      <4>1. at[m] >= AtUpdate BY <2>1, <2>4, <3>1 DEF Types, AtCalc, AtUpdate
      <4> QED BY <2>1, <3>1, <4>1 DEF GhostsFilled
    <3>3. Ids(cells[m][y]) = Ids(Home(m, y)) BY <3>2, KeptIds DEF SameIds
    <3>4. MirrorNode(m, y) \in Node /\ MirrorCell(m, y) \in RealCell BY <3>1, Mirrors
    <3> HIDE DEF m, y
    <3>5. ASSUME p \in Ids(Home(m, y)) PROVE MirrorNode(m, y) = n /\ MirrorCell(m, y) = x
      <4>1. PICK j \in DOMAIN Home(m, y) : Home(m, y)[j].id = p BY <3>5 DEF Ids
      <4> QED BY <2>1, <3>4, <4>1 DEF OnePlace, Home
    <3>6. ASSUME MirrorNode(m, y) = n, MirrorCell(m, y) = x PROVE p \in Ids(Home(m, y))
      BY <3>6 DEF Home, Ids
    <3> QED BY <3>3, <3>5, <3>6 DEF m, y
  <2>5. Places(p) = S
    BY <2>2, <2>3, <2>4 DEF Places, Share
  <2>6. ASSUME NEW m \in Node, NEW y \in Cell, MirrorNode(m, y) = n, MirrorCell(m, y) = x
        PROVE  <<m, y>> \in S
    <3>1. <<m, y>> \in Share /\ <<m, y>>[1] = m /\ <<m, y>>[2] = y BY DEF Share
    <3> QED BY <2>3, <2>6, <3>1
  <2> HIDE DEF S
  <2> QED BY <2>2, <2>5, <2>6, OnceCounts DEF Once
<1> QED BY <1>1, GInvHolds, PTL

\* Outside decompose() the index of a node leads to copies, to the real one if
\* the node has that, and to everything it has unless the script has added or
\* removed a particle.
THEOREM IndexLeadsHome == Spec => []IndexSound
<1>1. GInv => IndexSound
  <2> SUFFICES ASSUME GInv, NEW n \in Node, at[n] >= AtUpdate
               PROVE  /\ \A p \in DOMAIN index[n] : p \in Ids(cells[n][index[n][p]])
                      /\ \A p \in Particle, x \in Cell : p \in Ids(cells[n][x]) =>
                           /\ touched \/ p \in DOMAIN index[n]
                           /\ x \in RealCell => p \in DOMAIN index[n] /\ index[n][p] \in RealCell
    BY Zenon DEF IndexSound
  <2>1. at[n] \in Int BY DEF GInv, Types
  <2>2. \A x : Done(x, at[n]) BY <2>1, DoneLast DEF AtUpdate
  <2> QED BY <2>2 DEF GInv, IndexLeads
<1> QED BY <1>1, GInvHolds, PTL
=============================================================================
