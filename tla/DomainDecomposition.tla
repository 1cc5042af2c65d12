------------------------ MODULE DomainDecomposition -------------------------
(***************************************************************************)
(* Migration of the real particles: Storage::decompose() up to the ghost   *)
(* exchange, that is DomainDecomposition::decomposeRealParticles on every  *)
(* node, and the operations between two calls that create particles or     *)
(* change positions.                                                       *)
(*                                                                         *)
(* Nodes run concurrently.  What one node does between two communications  *)
(* is one step: scan its cells and send both buffers (Scan), take both     *)
(* buffers and sort them in (Append).  That the blocking sends and         *)
(* receives in between pair up without deadlock is the subject of          *)
(* NeighborExchange.  The all_reduce is one joint step.                    *)
(***************************************************************************)
EXTENDS CellGrid, FiniteSets

CONSTANTS Particle,       \* particle ids
          AddPositions,   \* positions given to addParticles
          MovePositions,  \* positions given to modifyParticle or reached by motion
          MaxLeftMove,    \* how far to the left of its node a particle may get
          OnlyNewIds,     \* scripts add only particles that do not exist
          MaxOps          \* bound on the operations between start and end

VARIABLES store,      \* the real particles of a node with their cells
          net,        \* buffers under way
          pc, coord,  \* what a node does next, and for which coordinate
          finished,   \* the node's flag of the current round
          fresh,      \* decompose() has returned and nothing has moved since
          unfolded,   \* history: where a particle really is
          ops

vars == <<store, net, pc, coord, finished, fresh, unfolded, ops>>

Position == [Coord -> Int]

ASSUME OperationAssumption ==
  /\ AddPositions \subseteq Position /\ MovePositions \subseteq Position
  /\ MaxLeftMove \in Nat /\ MaxOps \in Nat /\ OnlyNewIds \in BOOLEAN

None == [c \in {} |-> 0]

\* a particle without its cell, as it travels
Strip(r) == [id |-> r.id, pos |-> r.pos, img |-> r.img]
Place(r, cell) == [id |-> r.id, pos |-> r.pos, img |-> r.img, cell |-> cell]

\* Every stored particle sits in an inner cell of its node, in each phase of
\* decomposeRealParticles.
TypeOK ==
  /\ \A n \in Node : \A r \in store[n] :
       /\ r.id \in Particle
       /\ \A c \in Coord : r.cell[c] \in Frame .. Frame + CellGridSize[c] - 1
  /\ \A m \in net : m.dst \in Node /\ m.coord \in Coord /\ m.dir \in {Left, Right}
  /\ pc \in [Node -> {"idle", "scan", "recv", "reduce"}]
  /\ coord \in [Node -> Coord]
  /\ finished \in [Node -> BOOLEAN]
  /\ fresh \in BOOLEAN
  /\ ops \in 0 .. MaxOps

Init ==
  /\ store = [n \in Node |-> {}]
  /\ net = {}
  /\ pc = [n \in Node |-> "idle"]
  /\ coord = [n \in Node |-> 0]
  /\ finished = [n \in Node |-> TRUE]
  /\ fresh = FALSE
  /\ unfolded = [p \in {} |-> None]
  /\ ops = 0

Idle == \A n \in Node : pc[n] = "idle"
Exists(p) == p \in DOMAIN unfolded
HasReal(n, p) == \E r \in store[n] : r.id = p

-----------------------------------------------------------------------------
(* Operations between two decompositions.                                  *)

\* Storage::addParticle on node n: nothing unless the position is the node's
Added(n, p, x) ==
  LET r == Fold(0, Fold(1, Fold(2, [id |-> p, pos |-> x, img |-> [c \in Coord |-> 0]])))
  IN  IF NodeClipped(x) = n THEN {Place(r, CellClipped(n, r.pos))} ELSE {}

\* the check at the top of StorageLocal.addParticles, made by each node alone
Skips(n, l) == \E p \in DOMAIN l : HasReal(n, p)

AddParticles(l) ==
  /\ Idle /\ ops < MaxOps
  /\ store' = [n \in Node |-> IF Skips(n, l) THEN store[n]
                 ELSE store[n] \cup UNION {Added(n, p, l[p]) : p \in DOMAIN l}]
  /\ unfolded' = [p \in DOMAIN unfolded \cup DOMAIN l |->
                    IF Exists(p) THEN unfolded[p] ELSE l[p]]
  /\ fresh' = FALSE
  /\ ops' = ops + 1
  /\ UNCHANGED <<net, pc, coord, finished>>

InReach(n, x) == \A c \in Coord : x[c] >= MyLeft(n, c) - MaxLeftMove

Replace(n, r, new) ==
  /\ Idle /\ ops < MaxOps
  /\ InReach(n, new.pos)
  /\ store' = [store EXCEPT ![n] = (@ \ {r}) \cup {new}]
  /\ unfolded' = [unfolded EXCEPT ![r.id] =
                    [c \in Coord |-> new.pos[c] + new.img[c] * BoxL(c)]]
  /\ fresh' = FALSE
  /\ ops' = ops + 1
  /\ UNCHANGED <<net, pc, coord, finished>>

\* Motion during a time step (integrate1): the image stays.
Integrate(n, r, x) == Replace(n, r, [r EXCEPT !.pos = x])

\* modifyParticle(pid, 'pos', x) on the node that has the particle: the
\* position counts as unfolded.
ModifyParticle(n, r, x) ==
  Replace(n, r, [r EXCEPT !.pos = x, !.img = [c \in Coord |-> 0]])

-----------------------------------------------------------------------------
(* decomposeRealParticles.                                                 *)

\* every node enters, the command having been broadcast
Begin ==
  /\ Idle
  /\ pc' = [n \in Node |-> "scan"]
  /\ coord' = [n \in Node |-> 0]
  /\ finished' = [n \in Node |-> TRUE]
  /\ UNCHANGED <<store, net, fresh, unfolded, ops>>

\* where the scan of coordinate c sends a particle
GoesLeft(n, c, r)  == r.pos[c] < MyLeft(n, c)
GoesRight(n, c, r) == ~GoesLeft(n, c, r) /\ r.pos[c] > MyRight(n, c)

\* Sort into cells during the last coordinate; a particle outside the domain
\* stays where it is and asks for another round.
Sorted(n, r) == IF Outside(n, r.pos) THEN r ELSE Place(r, CellClipped(n, r.pos))

\* variant: a particle that is sent stays in its cell as well
ScanCopies(n) ==
  LET c == coord[n]
      L == {r \in store[n] : GoesLeft(n, c, r)}
      R == {r \in store[n] : GoesRight(n, c, r)}
  IN  /\ pc[n] = "scan" /\ GridSize[c] > 1
      /\ net' = net \cup
           {[dst |-> NodeNeighbor(n, c, Left),  coord |-> c, dir |-> Left,
             parts |-> {Strip(r) : r \in L}],
            [dst |-> NodeNeighbor(n, c, Right), coord |-> c, dir |-> Right,
             parts |-> {Strip(r) : r \in R}]}
      /\ pc' = [pc EXCEPT ![n] = "recv"]
      /\ UNCHANGED <<store, coord, finished, fresh, unfolded, ops>>

Scan(n) ==
  LET c == coord[n]
      L == {r \in store[n] : GoesLeft(n, c, r)}
      R == {r \in store[n] : GoesRight(n, c, r)}
      stay == store[n] \ (L \cup R)
  IN  /\ pc[n] = "scan" /\ GridSize[c] > 1
      /\ store' = [store EXCEPT ![n] = IF c = 2 THEN {Sorted(n, r) : r \in stay} ELSE stay]
      /\ finished' = [finished EXCEPT ![n] =
                        @ /\ ~(c = 2 /\ \E r \in stay : Outside(n, r.pos))]
      /\ net' = net \cup
           {[dst |-> NodeNeighbor(n, c, Left),  coord |-> c, dir |-> Left,
             parts |-> {Strip(r) : r \in L}],
            [dst |-> NodeNeighbor(n, c, Right), coord |-> c, dir |-> Right,
             parts |-> {Strip(r) : r \in R}]}
      /\ pc' = [pc EXCEPT ![n] = "recv"]
      /\ UNCHANGED <<coord, fresh, unfolded, ops>>

\* appendParticles(buffer, 2*c + side): what came in on a side
Arrived(n, c, side, parts) ==
  {LET f == IF Boundary(n, c, side) # 0 THEN Fold(c, r) ELSE r
   IN  Place(f, CellClipped(n, f.pos)) : r \in parts}

\* the coordinate is done
Advance(n) ==
  /\ pc' = [pc EXCEPT ![n] = IF coord[n] = 2 THEN "reduce" ELSE "scan"]
  /\ coord' = [coord EXCEPT ![n] = IF @ = 2 THEN @ ELSE @ + 1]

\* recvBufL comes from the left neighbour, which sent it to its right
Append(n) ==
  LET c == coord[n]
  IN  \E ml, mr \in net :
        /\ pc[n] = "recv"
        /\ ml.dst = n /\ ml.coord = c /\ ml.dir = Right
        /\ mr.dst = n /\ mr.coord = c /\ mr.dir = Left
        /\ LET new == Arrived(n, c, Left, ml.parts) \cup Arrived(n, c, Right, mr.parts)
           IN  /\ store' = [store EXCEPT ![n] = @ \cup new]
               /\ finished' = [finished EXCEPT ![n] =
                                 @ /\ ~(c = 2 /\ \E r \in new : Outside(n, r.pos))]
        /\ net' = net \ {ml, mr}
        /\ Advance(n)
        /\ UNCHANGED <<fresh, unfolded, ops>>

\* a coordinate with a single node: fold, and sort during the last one
FoldLocal(n) ==
  LET c == coord[n]
      folded == {Fold(c, r) : r \in store[n]}
  IN  /\ pc[n] = "scan" /\ GridSize[c] = 1
      /\ store' = [store EXCEPT ![n] = IF c = 2 THEN {Sorted(n, r) : r \in folded} ELSE folded]
      /\ finished' = [finished EXCEPT ![n] =
                        @ /\ ~(c = 2 /\ \E r \in folded : Outside(n, r.pos))]
      /\ Advance(n)
      /\ UNCHANGED <<net, fresh, unfolded, ops>>

\* variant: one node that is finished is enough
AllReduceOr ==
  /\ \A n \in Node : pc[n] = "reduce"
  /\ LET all == \E n \in Node : finished[n]
     IN  /\ pc' = [n \in Node |-> IF all THEN "idle" ELSE "scan"]
         /\ fresh' = all
  /\ coord' = [n \in Node |-> 0]
  /\ finished' = [n \in Node |-> TRUE]
  /\ UNCHANGED <<store, net, unfolded, ops>>

\* variant: the flag of a node is not set again for the next round
AllReduceKeeps ==
  /\ \A n \in Node : pc[n] = "reduce"
  /\ LET all == \A n \in Node : finished[n]
     IN  /\ pc' = [n \in Node |-> IF all THEN "idle" ELSE "scan"]
         /\ fresh' = all
  /\ coord' = [n \in Node |-> 0]
  /\ UNCHANGED <<store, net, finished, unfolded, ops>>

\* the loop is left when every node is finished
AllReduce ==
  /\ \A n \in Node : pc[n] = "reduce"
  /\ LET all == \A n \in Node : finished[n]
     IN  /\ pc' = [n \in Node |-> IF all THEN "idle" ELSE "scan"]
         /\ fresh' = all
  /\ coord' = [n \in Node |-> 0]
  /\ finished' = [n \in Node |-> TRUE]
  /\ UNCHANGED <<store, net, unfolded, ops>>

-----------------------------------------------------------------------------
\* lists of particles to add; the controller hands the same list to all nodes
Lists == {l \in UNION {[S -> AddPositions] : S \in SUBSET Particle} :
            DOMAIN l # {} /\ (OnlyNewIds => \A p \in DOMAIN l : ~Exists(p))}

Decompose == Begin \/ AllReduce \/ \E n \in Node : Scan(n) \/ Append(n) \/ FoldLocal(n)

Next ==
  \/ \E l \in Lists : AddParticles(l)
  \/ \E n \in Node : \E r \in store[n], x \in MovePositions :
       Integrate(n, r, x) \/ ModifyParticle(n, r, x)
  \/ Decompose

Spec == Init /\ [][Next]_vars

\* tasks do not stop inside decompose
FairSpec == Spec /\ WF_vars(AllReduce)
                 /\ \A n \in Node : WF_vars(Scan(n) \/ Append(n) \/ FoldLocal(n))

-----------------------------------------------------------------------------
(* Properties.                                                             *)

\* all copies of p, on a node or in a buffer
Copies(p) == {x \in UNION {{n} \X store[n] : n \in Node} : x[2].id = p}
               \cup UNION {{<<m, r>> : r \in {q \in m.parts : q.id = p}} : m \in net}

\* Migration neither loses nor duplicates a particle, at any moment.
Conserved == \A p \in Particle : Cardinality(Copies(p)) = IF Exists(p) THEN 1 ELSE 0

\* No particle id is ever present twice.
IdsUnique == \A p \in Particle : Cardinality(Copies(p)) <= 1

\* Folding at the border of the box keeps track of the image: position and
\* image of a particle always add up to where it really is.
ImagesAddUp ==
  \A p \in Particle : \A x \in Copies(p) : \A c \in Coord :
    x[2].pos[c] + x[2].img[c] * BoxL(c) = unfolded[p][c]

\* decompose() leaves every particle in the box, on the node whose domain it
\* is in (or on whose right border it is) and in the cell of its position.
AtHome ==
  fresh => \A n \in Node : \A r \in store[n] :
             InDomain(n, r.pos) /\ r.cell = HomeCell(n, r.pos)

\* decompose() returns, however many rounds it takes.
Returns == ~Idle ~> Idle
=============================================================================
