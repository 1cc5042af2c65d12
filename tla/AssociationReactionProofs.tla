---------------------- MODULE AssociationReactionProofs ----------------------
(***************************************************************************)
(* Proofs about AssociationReaction, for every grid of nodes, every number *)
(* of particles and Verlet pairs and any number of reaction steps.         *)
(***************************************************************************)
EXTENDS AssociationReaction, FiniteSetTheorems, TLAPS

-----------------------------------------------------------------------------
(* The inductive invariant.                                                *)

\* pairs that can react at all
Reactive == {<<x.a, x.b>> : x \in Pairs}

\* the node that files a bond, and the agreed pairs of the step: filed
\* already, or still with that node
Filer(x) == Owner[Pid1(x)]
Agreed == born \cup {x \in Reactive : x \in blist[Filer(x)] \cup adding[Filer(x)]}

\* the choices are made jointly, applying them is not
Phases ==
  /\ \/ All("collect") \/ All("uniqueA") \/ All("uniqueB")
     \/ \A n \in Node : pc[n] \in {"apply", "add", "left"}
  /\ All("uniqueA") \/ All("uniqueB") => born = {}
  /\ \A n \in Node : /\ pc[n] \notin {"apply", "add"} => blist[n] = {}
                     /\ pc[n] # "add" => adding[n] = {}

\* only pairs in reach are candidates, and after uniqueA one for each A
Candidates ==
  /\ \A n \in Node : alist[n] \subseteq Reactive
  /\ All("uniqueB") => \A m, n \in Node : \A x \in alist[m], y \in alist[n] : x[1] = y[1] => x = y

\* no A and no B is in two agreed pairs, and every node works on agreed ones
Matching ==
  /\ bonds \subseteq Reactive /\ born \subseteq bonds
  /\ \A x, y \in Agreed : x[1] = y[1] \/ x[2] = y[2] => x = y
  /\ \A n \in Node : blist[n] \cup adding[n] \subseteq Agreed

RInv == TypeOK /\ Phases /\ Candidates /\ Matching

\* what a script has to see to: a B is looked at only in the copy that
\* localParticles points to, and a reaction changes its state
Tracked ==
  /\ \A x \in Pairs : <<x.node, x.b, x.kb>> \in Indexed(x.node, x.b)
  /\ deltaB # 0

\* the pairs that the state of a particle on a node has to count: bonds, and
\* agreed pairs that the node has applied
CountedAt(n, p) == {x \in bonds \cup Agreed : (x[1] = p \/ x[2] = p) /\ x \notin blist[n]}
Counted(p) == CountedAt(Owner[p], p)

\* an A is counted by its node, a B by every node that has a copy of it in
\* localParticles, ghost or not
Ledger ==
  /\ \A a \in A : st[Real(a)] = InitState + deltaA * Cardinality(Counted(a))
  /\ \A n \in Node, b \in B : \A c \in Indexed(n, b) : st[c] = deltaB * Cardinality(CountedAt(n, b))

\* a candidate is a B without a bond
StillFree ==
  All("uniqueA") \/ All("uniqueB") =>
    \A n \in Node : \A x \in alist[n] : st[Real(x[2])] = 0

\* a B is in one pair only, ever
BondedOnce == \A x, y \in bonds \cup Agreed : x[2] = y[2] => x = y

SInv == RInv /\ (Tracked => Ledger /\ StillFree /\ BondedOnce)

\* with at most three nodes along each coordinate everybody hears of all
\* pairs, and then has as many left to apply as everybody else
Small == \A c \in Coord : GridSize[c] <= 3

Pending(k) ==
  \A n \in Node : /\ pc[n] = "apply" => Cardinality(blist[n]) = k
                  /\ pc[n] = "add" => Cardinality(blist[n]) = k - 1
                  /\ pc[n] = "left" => k = 0

Even == (\A n \in Node : pc[n] \in {"apply", "add", "left"}) => \E k \in Nat : Pending(k)

-----------------------------------------------------------------------------
(* The exchange of pairs.                                                  *)

\* A neighbour on the grid is a node; where there are one or two nodes the
\* two neighbours are the same.
LEMMA Neighbours ==
  ASSUME NEW n \in Node, NEW c \in Coord
  PROVE  /\ \A dir \in {Left, Right} : NodeNeighbor(n, c, dir) \in Node
         /\ GridSize[c] = 1 => \A dir \in {Left, Right} : NodeNeighbor(n, c, dir) = n
         /\ GridSize[c] = 2 => NodeNeighbor(n, c, Left) = NodeNeighbor(n, c, Right)
<1>1. n \in [Coord -> 0 .. MaxExtent] /\ n[c] \in Nat /\ n[c] < GridSize[c]
  BY GridAssumption DEF Node, MaxExtent, Coord
<1>2. \A d \in Coord : n[d] < GridSize[d] /\ GridSize[d] \in Nat /\ GridSize[d] <= MaxExtent /\ MaxExtent \in Nat
  BY GridAssumption DEF Node, MaxExtent, Coord
<1>3. ASSUME NEW dir \in {Left, Right} PROVE NodeNeighbor(n, c, dir) \in Node
  <2> DEFINE x == IF dir = Left
                  THEN IF n[c] - 1 < 0 THEN n[c] - 1 + GridSize[c] ELSE n[c] - 1
                  ELSE IF n[c] + 1 >= GridSize[c] THEN n[c] + 1 - GridSize[c] ELSE n[c] + 1
  <2>1. x \in 0 .. MaxExtent /\ x < GridSize[c]
    BY <1>1, <1>2
  <2>2. NodeNeighbor(n, c, dir) = [n EXCEPT ![c] = x]
    BY DEF NodeNeighbor
  <2> HIDE DEF x
  <2> QED BY <1>1, <1>2, <2>1, <2>2 DEF Node
<1>4. ASSUME GridSize[c] = 1, NEW dir \in {Left, Right} PROVE NodeNeighbor(n, c, dir) = n
  <2>1. n[c] = 0
    BY <1>1, <1>4
  <2>2. NodeNeighbor(n, c, dir) = [n EXCEPT ![c] = 0]
    BY <1>4, <2>1 DEF NodeNeighbor, Left, Right
  <2> QED BY <1>1, <2>1, <2>2
<1>5. ASSUME GridSize[c] = 2 PROVE NodeNeighbor(n, c, Left) = NodeNeighbor(n, c, Right)
  <2>1. n[c] = 0 \/ n[c] = 1
    BY <1>1, <1>5
  <2>2. CASE n[c] = 0
    <3>1. NodeNeighbor(n, c, Left) = [n EXCEPT ![c] = 1] /\ NodeNeighbor(n, c, Right) = [n EXCEPT ![c] = 1]
      BY <1>5, <2>2 DEF NodeNeighbor, Left, Right
    <3> QED BY <3>1
  <2>3. CASE n[c] = 1
    <3>1. NodeNeighbor(n, c, Left) = [n EXCEPT ![c] = 0] /\ NodeNeighbor(n, c, Right) = [n EXCEPT ![c] = 0]
      BY <1>5, <2>3 DEF NodeNeighbor, Left, Right
    <3> QED BY <3>1
  <2> QED BY <2>1, <2>2, <2>3
<1> QED
  BY <1>3, <1>4, <1>5

\* One exchange brings what the two neighbours have, and nothing else.
LEMMA Gathered ==
  ASSUME NEW mm, NEW c \in Coord, NEW n \in Node
  PROVE  /\ Beside(n, c) \subseteq Node
         /\ \A x : x \in Gather(mm, c)[n] <=> \E k \in Beside(n, c) : x \in mm[k]
<1>1. \A dir \in {Left, Right} : NodeNeighbor(n, c, dir) \in Node
  BY Neighbours
<1>2. Beside(n, c) \subseteq Node
  BY <1>1 DEF Beside
<1>3. Gather(mm, c)[n] = mm[n] \cup UNION {mm[NodeNeighbor(n, c, Opposite(d))] : d \in Dirs(c)}
  BY DEF Gather
<1>4. Opposite(Left) = Right /\ Opposite(Right) = Left
  BY DEF Opposite, Left, Right
<1>5. GridSize[c] \in Nat /\ GridSize[c] > 0
  BY GridAssumption
<1>6. ASSUME NEW x PROVE x \in Gather(mm, c)[n] <=> \E k \in Beside(n, c) : x \in mm[k]
  <2>1. CASE GridSize[c] = 1
    <3>1. Dirs(c) = {} /\ Beside(n, c) = {n}
      BY <2>1, Neighbours DEF Dirs, Beside
    <3> QED BY <1>3, <3>1
  <2>2. CASE GridSize[c] = 2
    <3>1. Dirs(c) = {Left} /\ Beside(n, c) = {n, NodeNeighbor(n, c, Right)}
      BY <2>2, Neighbours DEF Dirs, Beside
    <3> QED BY <1>3, <1>4, <3>1
  <2>3. CASE GridSize[c] > 2
    <3>1. Dirs(c) = {Left, Right}
      BY <1>5, <2>3 DEF Dirs
    <3> QED BY <1>3, <1>4, <3>1 DEF Beside
  <2> QED BY <1>5, <2>1, <2>2, <2>3
<1> QED
  BY <1>2, <1>6

\* sendMultiMap brings together what the nodes around a node have.
LEMMA Collected ==
  ASSUME NEW mm, NEW n \in Node
  PROVE  /\ n \in Around(n)
         /\ SendMultiMap(mm) = [k \in Node |-> SendMultiMap(mm)[k]]
         /\ \A x : x \in SendMultiMap(mm)[n] <=> \E k \in Around(n) : x \in mm[k]
<1> DEFINE m0 == Gather(mm, 0)
           m1 == Gather(m0, 1)
<1>1. 0 \in Coord /\ 1 \in Coord /\ 2 \in Coord
  BY DEF Coord
<1>2. n \in Around(n)
  BY DEF Around, Beside
<1>3. SendMultiMap(mm) = Gather(m1, 2)
  BY DEF SendMultiMap
<1>4. SendMultiMap(mm) = [k \in Node |-> SendMultiMap(mm)[k]]
  BY <1>3 DEF Gather
<1>5. ASSUME NEW k \in Node, NEW x PROVE x \in m0[k] <=> \E h \in Beside(k, 0) : x \in mm[h]
  BY <1>1, Gathered
<1>6. ASSUME NEW k \in Node, NEW x PROVE x \in m1[k] <=> \E h \in Beside(k, 1) : x \in m0[h]
  BY <1>1, Gathered
<1>7. ASSUME NEW x PROVE x \in SendMultiMap(mm)[n] <=> \E h \in Beside(n, 2) : x \in m1[h]
  BY <1>1, <1>3, Gathered
<1>8. \A k \in Node, c \in Coord : Beside(k, c) \subseteq Node
  BY Gathered
<1> HIDE DEF m0, m1
<1>9. ASSUME NEW x PROVE x \in SendMultiMap(mm)[n] <=> \E k \in Around(n) : x \in mm[k]
  <2>1. ASSUME x \in SendMultiMap(mm)[n] PROVE \E k \in Around(n) : x \in mm[k]
    <3>1. PICK i \in Beside(n, 2) : x \in m1[i]
      BY <1>7, <2>1
    <3>2. PICK j \in Beside(i, 1) : x \in m0[j]
      BY <1>1, <1>6, <1>8, <3>1
    <3>3. PICK k \in Beside(j, 0) : x \in mm[k]
      BY <1>1, <1>5, <1>8, <3>2
    <3>4. k \in Node
      BY <1>1, <1>8
    <3> QED BY <3>3, <3>4 DEF Around
  <2>2. ASSUME NEW k \in Around(n), x \in mm[k] PROVE x \in SendMultiMap(mm)[n]
    <3>1. PICK i \in Beside(n, 2) : \E j \in Beside(i, 1) : k \in Beside(j, 0)
      BY DEF Around
    <3>2. PICK j \in Beside(i, 1) : k \in Beside(j, 0)
      BY <3>1
    <3>3. i \in Node /\ j \in Node
      BY <1>1, <1>8
    <3>4. x \in m0[j]
      BY <1>5, <2>2, <3>2, <3>3
    <3>5. x \in m1[i]
      BY <1>6, <3>3, <3>4
    <3> QED BY <1>7, <3>5
  <2> QED BY <2>1, <2>2
<1> QED
  BY <1>2, <1>4, <1>9

\* A reactive pair is an A and a B that are local on each other's node, so
\* each owner is around the other; one of the two files the bond.
LEMMA Partners ==
  ASSUME NEW x \in Reactive
  PROVE  /\ x \in A \X B /\ x = <<x[1], x[2]>> /\ x[1] \in A /\ x[2] \in B
         /\ Owner[x[1]] \in Node /\ Owner[x[2]] \in Node /\ Filer(x) \in Node
         /\ Filer(x) \in {Owner[x[1]], Owner[x[2]]}
         /\ Owner[x[2]] \in Around(Owner[x[1]])
<1>1. PICK y \in Pairs : x = <<y.a, y.b>>
  BY DEF Reactive
<1>2. y.a \in A /\ y.b \in B /\ Indexed(Owner[y.a], y.b) # {}
  BY LayoutAssumption
<1>3. Owner[y.a] \in Node /\ Owner[y.b] \in Node
  BY <1>2, LayoutAssumption DEF Id
<1>4. Filer(x) \in {Owner[x[1]], Owner[x[2]]}
  BY DEF Filer, Pid1
<1>5. Owner[y.b] \in Around(Owner[y.a])
  <2>1. CASE Owner[y.b] = Owner[y.a]
    BY <1>3, <2>1, Collected
  <2>2. CASE Owner[y.b] # Owner[y.a]
    <3>1. Ghosts[Owner[y.a]][y.b] > 0
      BY <1>2, <2>2 DEF Indexed
    <3> QED BY <1>2, <1>3, <3>1, LayoutAssumption DEF Id
  <2> QED BY <2>1, <2>2
<1> QED
  BY <1>1, <1>2, <1>3, <1>4, <1>5

-----------------------------------------------------------------------------
(* The steps of a reaction and the matching of pairs.                      *)

\* Every particle has one real copy.
LEMMA RealIsCopy ==
  ASSUME NEW p \in Id
  PROVE  Real(p) \in Copy /\ Real(p)[2] = p /\ Owner[p] \in Node
<1>1. Owner[p] \in Node
  BY LayoutAssumption
<1>2. 0 \in Copies(Owner[p], p)
  BY DEF Copies
<1>3. Real(p) \in {Owner[p]} \X {p} \X Copies(Owner[p], p)
  BY <1>2 DEF Real
<1>4. Real(p) \in Copy
  <2>1. {Owner[p]} \X {p} \X Copies(Owner[p], p) \in {{n} \X {q} \X Copies(n, q) : n \in Node, q \in Id}
    BY <1>1
  <2> DEFINE S == {Owner[p]} \X {p} \X Copies(Owner[p], p)
             T == {{n} \X {q} \X Copies(n, q) : n \in Node, q \in Id}
  <2>2. S \in T /\ Real(p) \in S /\ Copy = UNION T
    BY <1>3, <2>1 DEF Copy
  <2> HIDE DEF S, T
  <2> QED BY <2>2
<1> QED
  BY <1>1, <1>4 DEF Real

\* The copy that localParticles points to is a copy of the particle on the
\* node, and a node has copies from around it only.
LEMMA IndexedIsCopy ==
  ASSUME NEW n \in Node, NEW p \in Id, NEW c \in Indexed(n, p)
  PROVE  c \in Copy /\ c[1] = n /\ c[2] = p /\ Owner[p] \in Around(n)
<1>1. CASE Owner[p] = n
  <2>1. c = Real(p)
    BY <1>1 DEF Indexed
  <2> QED BY <1>1, <2>1, RealIsCopy, Collected DEF Real
<1>2. CASE Owner[p] # n
  <2>1. Ghosts[n][p] > 0 /\ Ghosts[n][p] \in Nat /\ c = <<n, p, 1>> /\ Owner[p] \in Around(n)
    BY <1>2, LayoutAssumption DEF Indexed
  <2> DEFINE S == {n} \X {p} \X Copies(n, p)
             T == {{k} \X {q} \X Copies(k, q) : k \in Node, q \in Id}
  <2>2. 1 \in Copies(n, p)
    BY <2>1 DEF Copies
  <2>3. c \in S /\ S \in T /\ Copy = UNION T
    BY <2>1, <2>2 DEF Copy
  <2> HIDE DEF S, T
  <2> QED BY <2>1, <2>3
<1> QED
  BY <1>1, <1>2

\* Before the first reaction step no pair is under way.
LEMMA InitRInv == Init => RInv
<1> SUFFICES ASSUME Init PROVE RInv
  OBVIOUS
<1>1. TypeOK
  BY ReactionAssumption DEF Init, TypeOK
<1>2. Phases
  BY DEF Init, Phases, All
<1>3. Candidates
  BY DEF Init, Candidates, All
<1>4. Agreed = {}
  BY Partners DEF Agreed, Init
<1>5. Matching
  BY <1>4 DEF Init, Matching
<1> QED
  BY <1>1, <1>2, <1>3, <1>5 DEF RInv

\* The joint phases exclude each other.
LEMMA OnePhase ==
  ASSUME NEW n \in Node
  PROVE  \A w : All(w) => pc[n] = w
  BY DEF All

\* There are nodes.
LEMMA SomeNode == \E n : n \in Node
<1>1. [c \in Coord |-> 0] \in Node
  BY GridAssumption DEF Node, MaxExtent, Coord
<1> QED
  BY <1>1

\* What reactPair finds are pairs in reach.
LEMMA CollectStep ==
  ASSUME RInv, Collect
  PROVE  RInv'
<1>1. TypeOK /\ Phases /\ Candidates /\ Matching
  BY DEF RInv
<1>2. PICK hit \in SUBSET {x \in Pairs : Eligible(x)} :
        alist' = SendMultiMap([n \in Node |-> {<<x.a, x.b>> : x \in {y \in hit : y.node = n}}])
  BY DEF Collect
<1>3. ASSUME NEW n \in Node, NEW x \in alist'[n] PROVE x \in Reactive
  <2> DEFINE mm == [k \in Node |-> {<<y.a, y.b>> : y \in {z \in hit : z.node = k}}]
  <2>1. PICK k \in Around(n) : x \in mm[k]
    BY <1>2, Collected
  <2>2. k \in Node
    BY DEF Around
  <2> QED BY <2>1, <2>2 DEF Reactive
<1>4. /\ All("collect") /\ steps < MaxSteps /\ pc' = [n \in Node |-> "uniqueA"]
      /\ born' = {} /\ steps' = steps + 1
      /\ st' = st /\ blist' = blist /\ adding' = adding /\ bonds' = bonds
  BY DEF Collect
<1>5. alist' \in [Node -> SUBSET (A \X B)]
  <2>1. alist' = [n \in Node |-> alist'[n]]
    BY <1>2, SomeNode, Collected
  <2>2. \A n \in Node : alist'[n] \in SUBSET (A \X B)
    BY <1>3, Partners
  <2> QED BY <2>1, <2>2
<1>6. TypeOK'
  BY <1>1, <1>4, <1>5, ReactionAssumption DEF TypeOK
<1>7. \A n \in Node : pc[n] = "collect" /\ blist[n] = {} /\ adding[n] = {}
  BY <1>1, <1>4, OnePhase DEF Phases
<1>8. Phases'
  BY <1>4, <1>7 DEF Phases, All
<1>9. ~All("uniqueB")'
  BY <1>4, SomeNode DEF All
<1>10. Candidates'
  BY <1>3, <1>9 DEF Candidates
<1>11. Agreed' = {}
  BY <1>4, <1>7, Partners DEF Agreed, Filer, Reactive, Pid1
<1>12. Matching'
  BY <1>1, <1>4, <1>7, <1>11 DEF Matching, Reactive
<1> QED
  BY <1>6, <1>8, <1>10, <1>12 DEF RInv

\* uniqueA leaves one candidate for each A.
LEMMA UniqueAStep ==
  ASSUME RInv, UniqueA
  PROVE  RInv'
<1>1. TypeOK /\ Phases /\ Candidates /\ Matching
  BY DEF RInv
<1> DEFINE asked == {a \in A : \E b \in B : <<a, b>> \in alist[Owner[a]]}
<1>2. PICK f \in [asked -> B] :
        /\ \A a \in asked : <<a, f[a]>> \in alist[Owner[a]]
        /\ alist' = SendMultiMap([n \in Node |-> {<<a, f[a]>> : a \in {x \in asked : Owner[x] = n}}])
  BY DEF UniqueA
<1>3. ASSUME NEW n \in Node, NEW x \in alist'[n]
      PROVE  /\ x \in Reactive /\ x = <<x[1], f[x[1]]>>
             /\ \E k \in Node : x \in alist[k]
  <2> DEFINE mm == [k \in Node |-> {<<a, f[a]>> : a \in {y \in asked : Owner[y] = k}}]
  <2>1. PICK k \in Around(n) : x \in mm[k]
    BY <1>2, Collected
  <2>2. k \in Node
    BY DEF Around
  <2>3. PICK a \in asked : x = <<a, f[a]>> /\ Owner[a] = k
    BY <2>1, <2>2
  <2>4. x \in alist[k]
    BY <1>2, <2>3
  <2> QED BY <1>1, <2>2, <2>3, <2>4 DEF Candidates
<1>4. /\ All("uniqueA") /\ pc' = [n \in Node |-> "uniqueB"]
      /\ born' = born /\ steps' = steps
      /\ st' = st /\ blist' = blist /\ adding' = adding /\ bonds' = bonds
  BY DEF UniqueA
<1>5. alist' \in [Node -> SUBSET (A \X B)]
  <2>1. alist' = [n \in Node |-> alist'[n]]
    BY <1>2, SomeNode, Collected
  <2>2. \A n \in Node : alist'[n] \in SUBSET (A \X B)
    BY <1>3, Partners
  <2> QED BY <2>1, <2>2
<1>6. TypeOK'
  BY <1>1, <1>4, <1>5 DEF TypeOK
<1>7. \A n \in Node : pc[n] = "uniqueA" /\ blist[n] = {} /\ adding[n] = {}
  BY <1>1, <1>4, OnePhase DEF Phases
<1>8. Phases'
  BY <1>1, <1>4, <1>7 DEF Phases, All
<1>9. Candidates'
  <2>1. \A n \in Node : alist'[n] \subseteq Reactive
    BY <1>3
  <2>2. \A m, n \in Node : \A x \in alist'[m], y \in alist'[n] : x[1] = y[1] => x = y
    BY <1>3
  <2> QED BY <2>1, <2>2 DEF Candidates, Reactive
<1>10. Agreed' = Agreed
  BY <1>4 DEF Agreed, Filer, Reactive, Pid1
<1>11. Matching'
  BY <1>1, <1>4, <1>10 DEF Matching, Reactive
<1> QED
  BY <1>6, <1>8, <1>9, <1>11 DEF RInv

\* uniqueB leaves one pair for each B, and both owners and everybody around
\* the owner of B learn of it.
LEMMA Chosen ==
  ASSUME RInv, UniqueB
  PROVE  /\ \A n \in Node : \A x \in blist'[n] :
              /\ x \in Reactive /\ x \in alist[Owner[x[2]]]
              /\ x \in blist'[Owner[x[1]]] /\ x \in blist'[Owner[x[2]]]
              /\ \A k \in Node : Owner[x[2]] \in Around(k) => x \in blist'[k]
              /\ \A k \in Node : \A y \in blist'[k] : y[2] = x[2] => y = x
         /\ blist' \in [Node -> SUBSET (A \X B)]
<1>1. TypeOK /\ Phases /\ Candidates /\ Matching
  BY DEF RInv
<1> DEFINE asked == {b \in B : \E a \in A : <<a, b>> \in alist[Owner[b]]}
<1>2. PICK f \in [asked -> A] :
        /\ \A b \in asked : <<f[b], b>> \in alist[Owner[b]]
        /\ blist' = SendMultiMap([n \in Node |-> {<<f[b], b>> : b \in {x \in asked : Owner[x] = n}}])
  BY DEF UniqueB
<1> DEFINE mm == [k \in Node |-> {<<f[b], b>> : b \in {y \in asked : Owner[y] = k}}]
<1>3. ASSUME NEW n \in Node, NEW x \in blist'[n]
      PROVE  /\ x \in Reactive /\ x \in alist[Owner[x[2]]] /\ x = <<f[x[2]], x[2]>>
             /\ x \in blist'[Owner[x[1]]] /\ x \in blist'[Owner[x[2]]]
             /\ \A h \in Node : Owner[x[2]] \in Around(h) => x \in blist'[h]
  <2>1. PICK k \in Around(n) : x \in mm[k]
    BY <1>2, Collected
  <2>2. k \in Node
    BY DEF Around
  <2>3. PICK b \in asked : x = <<f[b], b>> /\ Owner[b] = k
    BY <2>1, <2>2
  <2>4. x \in alist[k] /\ x[2] = b
    BY <1>2, <2>3
  <2>5. x \in Reactive
    BY <1>1, <2>2, <2>4 DEF Candidates
  <2>6. k \in Around(Owner[x[1]]) /\ k \in Around(k) /\ Owner[x[1]] \in Node
    BY <2>2, <2>3, <2>4, <2>5, Partners, Collected
  <2>7. \A h \in Node : k \in Around(h) => x \in blist'[h]
    BY <1>2, <2>1, <2>2, Collected
  <2>8. x \in blist'[Owner[x[1]]] /\ x \in blist'[k]
    BY <2>2, <2>6, <2>7
  <2> QED BY <2>3, <2>4, <2>5, <2>7, <2>8
<1>4. blist' = [n \in Node |-> blist'[n]]
  BY <1>2, SomeNode, Collected
<1>5. \A n \in Node : blist'[n] \in SUBSET (A \X B)
  BY <1>3, Partners
<1>6. \A k, n \in Node : \A x \in blist'[k], y \in blist'[n] : y[2] = x[2] => y = x
  BY <1>3
<1> HIDE DEF mm, asked
<1> QED
  BY <1>3, <1>4, <1>5, <1>6

\* After uniqueB the pairs left form a matching, and each is with its owners.
LEMMA UniqueBStep ==
  ASSUME RInv, UniqueB
  PROVE  RInv'
<1>1. TypeOK /\ Phases /\ Candidates /\ Matching
  BY DEF RInv
<1>2. /\ All("uniqueB") /\ pc' = [n \in Node |-> "apply"]
      /\ born' = born /\ steps' = steps
      /\ st' = st /\ alist' = alist /\ adding' = adding /\ bonds' = bonds
  BY DEF UniqueB
<1>3. /\ \A n \in Node : \A x \in blist'[n] :
           /\ x \in Reactive /\ x \in alist[Owner[x[2]]]
           /\ x \in blist'[Owner[x[1]]] /\ x \in blist'[Owner[x[2]]]
           /\ \A k \in Node : \A y \in blist'[k] : y[2] = x[2] => y = x
      /\ blist' \in [Node -> SUBSET (A \X B)]
  BY Chosen
<1>4. TypeOK'
  BY <1>1, <1>2, <1>3 DEF TypeOK
<1>5. born = {} /\ \A n \in Node : adding[n] = {}
  BY <1>1, <1>2, OnePhase DEF Phases
<1>6. ~All("uniqueA")' /\ ~All("uniqueB")'
  BY <1>2, SomeNode DEF All
<1>7. Phases'
  BY <1>2, <1>5, <1>6 DEF Phases
<1>8. Candidates'
  BY <1>1, <1>2, <1>6 DEF Candidates, Reactive
<1>9. \A x : x \in Agreed' <=> x \in Reactive /\ x \in blist'[Filer(x)]
  <2>1. \A x \in Reactive : Filer(x) \in Node
    BY Partners
  <2> QED BY <1>2, <1>5, <2>1 DEF Agreed, Filer, Reactive, Pid1
<1>10. ASSUME NEW n \in Node, NEW x \in blist'[n] PROVE x \in Agreed'
  BY <1>3, <1>9, Partners
<1>11. ASSUME NEW x \in Agreed', NEW y \in Agreed', x[1] = y[1] \/ x[2] = y[2] PROVE x = y
  <2>1. Filer(x) \in Node /\ Filer(y) \in Node /\ x \in blist'[Filer(x)] /\ y \in blist'[Filer(y)]
    BY <1>9, Partners
  <2>2. CASE x[2] = y[2]
    BY <1>3, <2>1, <2>2
  <2>3. CASE x[1] = y[1]
    <3>1. /\ x \in alist[Owner[x[2]]] /\ y \in alist[Owner[y[2]]]
          /\ Owner[x[2]] \in Node /\ Owner[y[2]] \in Node
      BY <1>3, <1>9, <2>1, Partners
    <3> QED BY <1>1, <1>2, <2>3, <3>1 DEF Candidates
  <2> QED BY <1>11, <2>2, <2>3
<1>12. Matching'
  <2>1. bonds' \subseteq Reactive /\ born' \subseteq bonds'
    BY <1>1, <1>2 DEF Matching
  <2>2. \A n \in Node : blist'[n] \cup adding'[n] \subseteq Agreed'
    BY <1>2, <1>5, <1>10
  <2> QED BY <1>11, <2>1, <2>2 DEF Matching, Reactive
<1> QED
  BY <1>4, <1>7, <1>8, <1>12 DEF RInv

\* A node that takes a pair keeps it until it is filed.
LEMMA Applying ==
  ASSUME RInv, NEW n \in Node, NEW x \in blist[n], Apply(n, x)
  PROVE  /\ blist'[n] = blist[n] \ {x} /\ adding'[n] = {x} /\ pc'[n] = "add"
         /\ pc[n] = "apply" /\ adding[n] = {}
         /\ \A k \in Node \ {n} : blist'[k] = blist[k] /\ adding'[k] = adding[k] /\ pc'[k] = pc[k]
         /\ Agreed' = Agreed /\ x \in Agreed /\ x \in Reactive
<1>1. TypeOK /\ Phases /\ Matching
  BY DEF RInv
<1>2. pc[n] = "apply" /\ adding[n] = {}
  BY <1>1 DEF Apply, Phases
<1>3. /\ blist'[n] = blist[n] \ {x} /\ adding'[n] = {x} /\ pc'[n] = "add"
      /\ \A k \in Node \ {n} : blist'[k] = blist[k] /\ adding'[k] = adding[k] /\ pc'[k] = pc[k]
  BY <1>1 DEF Apply, TypeOK
<1>4. born' = born
  BY DEF Apply
<1>5. x \in Agreed
  BY <1>1 DEF Matching
<1>6. Agreed \subseteq Reactive
  BY <1>1 DEF Agreed, Matching
<1>7. ASSUME NEW y \in Reactive
      PROVE  y \in blist'[Filer(y)] \cup adding'[Filer(y)] <=> y \in blist[Filer(y)] \cup adding[Filer(y)]
  <2>1. Filer(y) \in Node
    BY Partners
  <2> QED BY <1>2, <1>3, <2>1
<1>8. Agreed' = Agreed
  BY <1>4, <1>7 DEF Agreed, Filer, Reactive, Pid1
<1> QED
  BY <1>2, <1>3, <1>5, <1>6, <1>8

\* applyAR takes a pair from the list of one node and changes nothing that
\* the nodes have agreed upon.
LEMMA ApplyStep ==
  ASSUME RInv, NEW n \in Node, NEW x \in blist[n], Apply(n, x)
  PROVE  RInv'
<1>1. TypeOK /\ Phases /\ Candidates /\ Matching
  BY DEF RInv
<1>2. /\ blist'[n] = blist[n] \ {x} /\ adding'[n] = {x} /\ pc'[n] = "add"
      /\ pc[n] = "apply" /\ adding[n] = {}
      /\ \A k \in Node \ {n} : blist'[k] = blist[k] /\ adding'[k] = adding[k] /\ pc'[k] = pc[k]
      /\ Agreed' = Agreed /\ x \in Agreed /\ x \in Reactive
  BY Applying
<1>3. alist' = alist /\ bonds' = bonds /\ born' = born /\ steps' = steps
  BY DEF Apply
<1>4. TypeOK'
  <2>1. st' \in [Copy -> Int]
    BY <1>1, ReactionAssumption DEF Apply, TypeOK
  <2>2. x \in A \X B
    BY <1>2, Partners
  <2>3. blist' \in [Node -> SUBSET (A \X B)] /\ adding' \in [Node -> SUBSET (A \X B)]
    BY <1>1, <2>2 DEF Apply, TypeOK
  <2>4. pc' \in [Node -> {"collect", "uniqueA", "uniqueB", "apply", "add", "left"}]
    BY <1>1 DEF Apply, TypeOK
  <2> QED BY <1>1, <1>3, <2>1, <2>3, <2>4 DEF TypeOK
<1>5. ~All("collect") /\ ~All("uniqueA") /\ ~All("uniqueB")
  BY <1>2, OnePhase
<1>6. ~All("uniqueA")' /\ ~All("uniqueB")' /\ \A k \in Node : pc'[k] \in {"apply", "add", "left"}
  <2>1. pc'[n] = "add"
    BY <1>2
  <2>2. ~All("uniqueA")' /\ ~All("uniqueB")'
    BY <2>1 DEF All
  <2> QED BY <1>1, <1>2, <1>5, <2>2 DEF Phases
<1>7. Phases'
  BY <1>1, <1>2, <1>6 DEF Phases
<1>8. Candidates'
  BY <1>1, <1>3, <1>6 DEF Candidates, Reactive
<1>9. Matching'
  <2>1. bonds' \subseteq Reactive /\ born' \subseteq bonds'
    BY <1>1, <1>3 DEF Matching
  <2>2. \A k \in Node : blist'[k] \cup adding'[k] \subseteq Agreed'
    BY <1>1, <1>2 DEF Matching
  <2>3. \A u, v \in Agreed' : u[1] = v[1] \/ u[2] = v[2] => u = v
    BY <1>1, <1>2 DEF Matching
  <2> QED BY <2>1, <2>2, <2>3 DEF Matching, Reactive
<1> QED
  BY <1>4, <1>7, <1>8, <1>9 DEF RInv

\* FixedPairList::add returns on all nodes; one of them has filed the bond.
LEMMA Filing ==
  ASSUME RInv, AddReturns
  PROVE  Agreed' = Agreed /\ bonds \subseteq bonds' /\ bonds' \subseteq bonds \cup Agreed
<1>1. TypeOK /\ Phases /\ Matching
  BY DEF RInv
<1> DEFINE new == UNION {{x \in adding[n] : Owner[Pid1(x)] = n} : n \in Node}
<1>2. bonds' = bonds \cup new /\ born' = born \cup new /\ adding' = [n \in Node |-> {}] /\ blist' = blist
  BY DEF AddReturns
<1>3. \A x : x \in new <=> \E n \in Node : x \in adding[n] /\ Filer(x) = n
  BY DEF Filer
<1>4. new \subseteq Agreed
  BY <1>1, <1>3 DEF Matching
<1>5. Agreed \subseteq Reactive
  BY <1>1 DEF Agreed, Matching
<1> HIDE DEF new
<1>6. \A x : x \in Agreed' <=> x \in born \cup new \/ (x \in Reactive /\ x \in blist[Filer(x)])
  <2>1. \A x \in Reactive : Filer(x) \in Node
    BY Partners
  <2> QED BY <1>2, <2>1 DEF Agreed, Filer, Reactive, Pid1
<1>7. Agreed' \subseteq Agreed
  BY <1>4, <1>6 DEF Agreed
<1>8. ASSUME NEW x \in Agreed PROVE x \in Agreed'
  <2>1. CASE x \in adding[Filer(x)]
    <3>1. Filer(x) \in Node
      BY <1>5, Partners
    <3> QED BY <1>3, <1>6, <2>1, <3>1
  <2> QED BY <1>6, <2>1 DEF Agreed
<1>9. Agreed' = Agreed
  BY <1>7, <1>8
<1> QED
  BY <1>2, <1>4, <1>9

\* A bond that FixedPairList::add files was agreed upon, and stays so.
LEMMA AddStep ==
  ASSUME RInv, AddReturns
  PROVE  RInv'
<1>1. TypeOK /\ Phases /\ Candidates /\ Matching
  BY DEF RInv
<1>2. /\ All("add") /\ adding' = [n \in Node |-> {}] /\ pc' = [n \in Node |-> "apply"]
      /\ st' = st /\ alist' = alist /\ blist' = blist /\ steps' = steps
  BY DEF AddReturns
<1>3. Agreed' = Agreed /\ bonds' \subseteq bonds \cup Agreed
  BY Filing
<1>4. Agreed \subseteq Reactive /\ Reactive \subseteq A \X B
  BY <1>1, Partners DEF Agreed, Matching
<1>5. born' \subseteq bonds'
  BY <1>1 DEF AddReturns, Matching
<1>6. bonds' \subseteq Reactive
  BY <1>1, <1>3, <1>4 DEF Matching
<1>7. TypeOK'
  <2>1. bonds' \subseteq A \X B /\ born' \subseteq A \X B
    BY <1>4, <1>5, <1>6
  <2> QED BY <1>1, <1>2, <2>1 DEF TypeOK
<1>8. ~All("uniqueA")' /\ ~All("uniqueB")'
  BY <1>2, SomeNode DEF All
<1>9. Phases'
  BY <1>1, <1>2, <1>8 DEF Phases
<1>10. Candidates'
  BY <1>1, <1>2, <1>8 DEF Candidates, Reactive
<1>11. Matching'
  BY <1>1, <1>2, <1>3, <1>5, <1>6 DEF Matching, Reactive
<1> QED
  BY <1>7, <1>9, <1>10, <1>11 DEF RInv

\* A node leaves react() when it has no pair left, and the next time step
\* begins when all have.
LEMMA LeaveStep ==
  ASSUME RInv, (\E n \in Node : Leave(n)) \/ TimeStep
  PROVE  RInv'
<1>1. TypeOK /\ Phases /\ Candidates /\ Matching
  BY DEF RInv
<1>2. alist' = alist /\ blist' = blist /\ adding' = adding /\ bonds' = bonds /\ born' = born /\ steps' = steps
  BY DEF Leave, TimeStep
<1>3. Agreed' = Agreed
  BY <1>2 DEF Agreed, Filer, Reactive, Pid1
<1>4. Matching'
  BY <1>1, <1>2, <1>3 DEF Matching, Reactive
<1>5. ASSUME NEW n \in Node, Leave(n) PROVE RInv'
  <2>1. pc[n] = "apply" /\ blist[n] = {} /\ pc' = [pc EXCEPT ![n] = "left"] /\ st' = st
    BY <1>5 DEF Leave
  <2>2. TypeOK'
    BY <1>1, <1>2, <2>1 DEF TypeOK
  <2>3. pc'[n] = "left" /\ \A k \in Node \ {n} : pc'[k] = pc[k]
    BY <1>1, <2>1 DEF TypeOK
  <2>4. ~All("collect") /\ ~All("uniqueA") /\ ~All("uniqueB")
    BY <2>1, OnePhase
  <2>5. ~All("uniqueA")' /\ ~All("uniqueB")'
    BY <2>3 DEF All
  <2>6. Phases'
    BY <1>1, <1>2, <2>1, <2>3, <2>4, <2>5 DEF Phases
  <2>7. Candidates'
    BY <1>1, <1>2, <2>5 DEF Candidates, Reactive
  <2> QED BY <1>4, <2>2, <2>6, <2>7 DEF RInv
<1>6. ASSUME TimeStep PROVE RInv'
  <2>1. All("left") /\ pc' = [n \in Node |-> "collect"]
    BY <1>6 DEF TimeStep
  <2>2. st' \in [Copy -> Int]
    <3>1. st \in [Copy -> Int]
      BY <1>1 DEF TypeOK
    <3>2. Refreshed \in [Copy -> Int]
      <4>1. \A c \in Copy : c[2] \in Id
        BY DEF Copy
      <4>2. \A c \in Copy : st[Real(c[2])] \in Int
        BY <3>1, <4>1, RealIsCopy
      <4> QED BY <4>2 DEF Refreshed
    <3> QED BY <1>6, <3>1, <3>2 DEF TimeStep
  <2>3. TypeOK'
    BY <1>1, <1>2, <2>1, <2>2 DEF TypeOK
  <2>4. All("collect")' /\ ~All("uniqueA")' /\ ~All("uniqueB")'
    BY <2>1, SomeNode DEF All
  <2>5. \A n \in Node : blist[n] = {} /\ adding[n] = {}
    BY <1>1, <2>1, OnePhase DEF Phases
  <2>6. Phases'
    BY <1>2, <2>1, <2>4, <2>5 DEF Phases
  <2>7. Candidates'
    BY <1>1, <1>2, <2>4 DEF Candidates, Reactive
  <2> QED BY <1>4, <2>3, <2>6, <2>7 DEF RInv
<1> QED
  BY <1>5, <1>6

\* Every step of react() keeps the pairs under way a matching.
LEMMA StepRInv == RInv /\ [Next]_vars => RInv'
<1> SUFFICES ASSUME RInv, [Next]_vars PROVE RInv'
  OBVIOUS
<1>1. CASE UNCHANGED vars \/ Finished
  <2>1. UNCHANGED vars
    BY <1>1 DEF Finished
  <2> QED BY <2>1 DEF vars, RInv, TypeOK, Phases, Candidates, Matching, Agreed, All, Filer, Reactive, Pid1
<1>2. CASE Collect
  BY <1>2, CollectStep
<1>3. CASE UniqueA
  BY <1>3, UniqueAStep
<1>4. CASE UniqueB
  BY <1>4, UniqueBStep
<1>5. CASE AddReturns
  BY <1>5, AddStep
<1>6. CASE (\E n \in Node : Leave(n)) \/ TimeStep
  BY <1>6, LeaveStep
<1>7. CASE \E n \in Node : \E x \in blist[n] : Apply(n, x)
  BY <1>7, ApplyStep
<1> QED
  BY <1>1, <1>2, <1>3, <1>4, <1>5, <1>6, <1>7 DEF Next

\* In every reachable state the pairs under way form a matching.
THEOREM PairInvariant == Spec => []RInv
<1> QED
  BY InitRInv, StepRInv, PTL DEF Spec

\* Lists, states and bonds keep their types through react().
THEOREM Typing == Spec => []TypeOK
<1>1. RInv => TypeOK
  BY DEF RInv
<1> QED
  BY <1>1, PairInvariant, PTL

\* A particle enters at most one new bond in a reaction step, whichever
\* nodes found its candidates and however the nodes order their pairs.
THEOREM OneBond == Spec => []OneBondPerStep
<1>1. RInv => OneBondPerStep
  <2> SUFFICES ASSUME RInv PROVE OneBondPerStep
    OBVIOUS
  <2>1. born \subseteq Agreed /\ \A x, y \in Agreed : x[1] = y[1] \/ x[2] = y[2] => x = y
    BY DEF RInv, Matching, Agreed
  <2> QED BY <2>1 DEF OneBondPerStep
<1> QED
  BY <1>1, PairInvariant, PTL

-----------------------------------------------------------------------------
(* States count bonds.                                                     *)

\* There are finitely many reactive pairs, so what is counted is finite.
LEMMA FinitePairs ==
  IsFiniteSet(Reactive)
<1> DEFINE f == [x \in Pairs |-> <<x.a, x.b>>]
<1>1. f \in Surjection(Pairs, Reactive)
  BY DEF Surjection, Reactive
<1>2. IsFiniteSet(Pairs)
  BY LayoutAssumption
<1> QED
  BY <1>1, <1>2, FS_Surjection

\* What the state of a particle counts is a finite set of reactive pairs.
LEMMA CountedIsFinite ==
  ASSUME Matching, NEW n, NEW p
  PROVE  /\ IsFiniteSet(CountedAt(n, p)) /\ Cardinality(CountedAt(n, p)) \in Nat
         /\ bonds \cup Agreed \subseteq Reactive
<1>1. bonds \cup Agreed \subseteq Reactive
  BY DEF Matching, Agreed
<1>2. CountedAt(n, p) \in SUBSET Reactive
  BY <1>1 DEF CountedAt
<1> QED
  BY <1>1, <1>2, FinitePairs, FS_Subset, FS_CardinalityType

\* The node of a B keeps its books too.
LEMMA OwnLedger ==
  ASSUME Ledger, NEW b \in B
  PROVE  st[Real(b)] = deltaB * Cardinality(Counted(b))
<1>1. Owner[b] \in Node /\ Real(b) \in Indexed(Owner[b], b)
  BY RealIsCopy DEF Id, Indexed
<1> QED
  BY <1>1 DEF Ledger, Counted

\* A multiple of a number other than zero is zero only for zero times.
LEMMA NoMultiple ==
  ASSUME NEW d \in Int, d # 0, NEW k \in Nat, d * k = 0
  PROVE  k = 0
  OBVIOUS

\* The agreed pairs of a step that nobody has begun are those already filed.
LEMMA NothingPending ==
  ASSUME \A n \in Node : blist[n] = {} /\ adding[n] = {}
  PROVE  Agreed = born
  BY Partners DEF Agreed

\* A step that neither applies a pair nor changes a state leaves the books
\* as they are.
LEMMA SameBooks ==
  ASSUME bonds' \cup Agreed' = bonds \cup Agreed, blist' = blist, st' = st
  PROVE  /\ Ledger => Ledger'
         /\ BondedOnce => BondedOnce'
<1>1. ASSUME NEW n, NEW p PROVE CountedAt(n, p)' = CountedAt(n, p)
  BY DEF CountedAt
<1>2. Ledger => Ledger'
  BY <1>1 DEF Ledger, Counted, Real, Indexed
<1>3. BondedOnce => BondedOnce'
  BY DEF BondedOnce
<1> QED
  BY <1>2, <1>3

\* reactPair finds only B without a bond, on ghosts too.
LEMMA CollectBooks ==
  ASSUME RInv, RInv', Tracked, Ledger, BondedOnce, Collect
  PROVE  Ledger' /\ StillFree' /\ BondedOnce'
<1>1. Phases /\ Matching /\ Phases'
  BY DEF RInv
<1>2. PICK hit \in SUBSET {x \in Pairs : Eligible(x)} :
        alist' = SendMultiMap([n \in Node |-> {<<x.a, x.b>> : x \in {y \in hit : y.node = n}}])
  BY DEF Collect
<1>3. /\ All("collect") /\ pc' = [n \in Node |-> "uniqueA"] /\ born' = {}
      /\ st' = st /\ blist' = blist /\ adding' = adding /\ bonds' = bonds
  BY DEF Collect
<1>4. \A n \in Node : blist[n] = {} /\ adding[n] = {}
  BY <1>1, <1>3, OnePhase DEF Phases
<1>5. Agreed = born /\ Agreed' = {}
  <2>1. Agreed = born
    BY <1>4, NothingPending
  <2>2. Agreed' = {}
    BY <1>3, <1>4, Partners DEF Agreed, Filer, Reactive, Pid1
  <2> QED BY <2>1, <2>2
<1>6. bonds' \cup Agreed' = bonds \cup Agreed
  BY <1>1, <1>3, <1>5 DEF Matching
<1>7. Ledger' /\ BondedOnce'
  BY <1>3, <1>6, SameBooks
<1>8. ASSUME NEW n \in Node, NEW x \in alist'[n] PROVE st[Real(x[2])] = 0
  <2> DEFINE mm == [k \in Node |-> {<<y.a, y.b>> : y \in {z \in hit : z.node = k}}]
  <2>1. PICK k \in Around(n) : x \in mm[k]
    BY <1>2, Collected
  <2>2. k \in Node
    BY DEF Around
  <2>3. PICK y \in hit : x = <<y.a, y.b>> /\ y.node = k
    BY <2>1, <2>2
  <2> DEFINE c == <<k, y.b, y.kb>>
  <2>4. st[c] = 0 /\ c \in Indexed(k, y.b) /\ y.b \in B /\ Owner[y.b] \in Node
    BY <2>3, LayoutAssumption DEF Eligible, Tracked, Id
  <2>5. st[c] = deltaB * Cardinality(CountedAt(k, y.b))
    BY <2>2, <2>4 DEF Ledger
  <2>6. CountedAt(k, y.b) = Counted(y.b)
    BY <1>4, <2>2, <2>4 DEF CountedAt, Counted
  <2>7. st[Real(y.b)] = deltaB * Cardinality(Counted(y.b))
    BY <2>4, OwnLedger
  <2> QED BY <2>3, <2>4, <2>5, <2>6, <2>7
<1>9. StillFree'
  BY <1>3, <1>8 DEF StillFree, Real
<1> QED
  BY <1>7, <1>9

\* uniqueA only drops candidates.
LEMMA UniqueABooks ==
  ASSUME RInv, RInv', StillFree, Ledger, BondedOnce, UniqueA
  PROVE  Ledger' /\ StillFree' /\ BondedOnce'
<1>1. /\ All("uniqueA") /\ pc' = [n \in Node |-> "uniqueB"] /\ born' = born
      /\ st' = st /\ blist' = blist /\ adding' = adding /\ bonds' = bonds
  BY DEF UniqueA
<1>2. Agreed' = Agreed
  BY <1>1 DEF Agreed, Filer, Reactive, Pid1
<1>3. Ledger' /\ BondedOnce'
  BY <1>1, <1>2, SameBooks
<1> DEFINE asked == {a \in A : \E b \in B : <<a, b>> \in alist[Owner[a]]}
<1>4. PICK f \in [asked -> B] :
        /\ \A a \in asked : <<a, f[a]>> \in alist[Owner[a]]
        /\ alist' = SendMultiMap([n \in Node |-> {<<a, f[a]>> : a \in {x \in asked : Owner[x] = n}}])
  BY DEF UniqueA
<1>5. ASSUME NEW n \in Node, NEW x \in alist'[n] PROVE st[Real(x[2])] = 0
  <2> DEFINE mm == [k \in Node |-> {<<a, f[a]>> : a \in {y \in asked : Owner[y] = k}}]
  <2>1. PICK k \in Around(n) : x \in mm[k]
    BY <1>4, Collected
  <2>2. k \in Node
    BY DEF Around
  <2>3. x \in alist[k]
    BY <1>4, <2>1, <2>2
  <2> QED BY <1>1, <2>2, <2>3 DEF StillFree
<1>6. StillFree'
  BY <1>1, <1>5 DEF StillFree, Real
<1> QED
  BY <1>3, <1>6

\* What is agreed upon is new for its B, and nobody whose copies count it
\* has applied it.
LEMMA UniqueBBooks ==
  ASSUME RInv, RInv', Tracked, StillFree, Ledger, BondedOnce, UniqueB
  PROVE  Ledger' /\ StillFree' /\ BondedOnce'
<1>1. TypeOK /\ Phases /\ Candidates /\ Matching /\ Matching'
  BY DEF RInv
<1>2. /\ All("uniqueB") /\ pc' = [n \in Node |-> "apply"]
      /\ born' = born /\ st' = st /\ adding' = adding /\ bonds' = bonds
  BY DEF UniqueB
<1>3. \A n \in Node : \A x \in blist'[n] :
        /\ x \in Reactive /\ x \in alist[Owner[x[2]]]
        /\ x \in blist'[Owner[x[1]]]
        /\ \A k \in Node : Owner[x[2]] \in Around(k) => x \in blist'[k]
  BY Chosen
<1>4. born = {} /\ \A n \in Node : blist[n] = {} /\ adding[n] = {}
  BY <1>1, <1>2, OnePhase DEF Phases
<1>5. Agreed = {}
  BY <1>4, NothingPending
<1>6. ASSUME NEW x \in Agreed'
      PROVE  /\ x \in Reactive /\ st[Real(x[2])] = 0 /\ x \in blist'[Owner[x[1]]]
             /\ \A k \in Node : Owner[x[2]] \in Around(k) => x \in blist'[k]
  <2>1. x \in Reactive /\ x \in blist'[Filer(x)]
    BY <1>2, <1>4, Partners DEF Agreed, Filer, Reactive, Pid1
  <2>2. Filer(x) \in Node /\ Owner[x[2]] \in Node
    BY <2>1, Partners
  <2> QED BY <1>2, <1>3, <2>1, <2>2 DEF StillFree
<1>7. ASSUME NEW x \in Agreed', NEW y \in bonds, x[2] = y[2] PROVE FALSE
  <2>1. x[2] \in B /\ Owner[x[2]] \in Node
    BY <1>6, Partners
  <2>2. y \in Counted(x[2])
    BY <1>4, <1>7, <2>1 DEF Counted, CountedAt
  <2>3. deltaB * Cardinality(Counted(x[2])) = 0
    BY <1>6, <2>1, OwnLedger
  <2>4. IsFiniteSet(Counted(x[2])) /\ Cardinality(Counted(x[2])) \in Nat
    BY <1>1, CountedIsFinite DEF Counted
  <2>5. Cardinality(Counted(x[2])) = 0
    BY <2>3, <2>4, NoMultiple, ReactionAssumption DEF Tracked
  <2>6. Counted(x[2]) = {}
    BY <2>4, <2>5, FS_EmptySet
  <2> QED BY <2>2, <2>6
<1>8. BondedOnce'
  <2> SUFFICES ASSUME NEW x \in bonds' \cup Agreed', NEW y \in bonds' \cup Agreed', x[2] = y[2] PROVE x = y
    BY DEF BondedOnce
  <2>1. CASE x \in bonds /\ y \in bonds
    BY <2>1 DEF BondedOnce
  <2>2. CASE x \in Agreed' /\ y \in Agreed'
    BY <1>1, <2>2 DEF Matching
  <2> QED BY <1>2, <1>7, <2>1, <2>2
<1>9. ASSUME NEW n \in Node, NEW p,
             \A x \in Agreed' : x[1] = p \/ x[2] = p => x \in blist'[n]
      PROVE  CountedAt(n, p)' = CountedAt(n, p)
  <2>1. \A x \in bonds : x \notin blist'[n]
    BY <1>1, <1>7 DEF Matching
  <2> QED BY <1>2, <1>4, <1>5, <1>9, <2>1 DEF CountedAt
<1>10. ASSUME NEW a \in A PROVE Counted(a)' = Counted(a)
  <2>1. Owner[a] \in Node
    BY RealIsCopy DEF Id
  <2>2. \A x \in Agreed' : x[2] # a
    BY <1>6, Partners, LayoutAssumption
  <2>3. CountedAt(Owner[a], a)' = CountedAt(Owner[a], a)
    BY <1>6, <1>9, <2>1, <2>2
  <2> QED BY <2>3 DEF Counted
<1>11. ASSUME NEW n \in Node, NEW b \in B, NEW c \in Indexed(n, b) PROVE CountedAt(n, b)' = CountedAt(n, b)
  <2>1. Owner[b] \in Around(n)
    BY IndexedIsCopy DEF Id
  <2>2. \A x \in Agreed' : x[1] # b
    BY <1>6, Partners, LayoutAssumption
  <2> QED BY <1>6, <1>9, <2>1, <2>2
<1>12. Ledger'
  <2>1. \A a \in A : st'[Real(a)] = InitState + deltaA * Cardinality(Counted(a)')
    BY <1>2, <1>10 DEF Ledger
  <2>2. \A n \in Node, b \in B : \A c \in Indexed(n, b) : st'[c] = deltaB * Cardinality(CountedAt(n, b)')
    BY <1>2, <1>11 DEF Ledger
  <2> QED BY <2>1, <2>2 DEF Ledger, Real, Indexed
<1>13. ~All("uniqueA")' /\ ~All("uniqueB")'
  BY <1>2, SomeNode DEF All
<1> QED
  BY <1>8, <1>12, <1>13 DEF StillFree

\* localParticles of a node points to the real copy of a particle exactly
\* where the particle is real.
LEMMA RealIndexed ==
  ASSUME NEW n \in Node, NEW p \in Id, NEW q \in Id
  PROVE  Real(p) \in Indexed(n, q) <=> p = q /\ Owner[p] = n
<1>1. Real(p) # <<n, q, 1>>
  BY DEF Real
<1>2. Real(p) = Real(q) => p = q
  BY DEF Real
<1>3. CASE Owner[q] = n
  BY <1>2, <1>3 DEF Indexed
<1>4. CASE Owner[q] # n
  BY <1>1, <1>4 DEF Indexed
<1> QED
  BY <1>3, <1>4

\* applyAR counts the pair once in the copies its node has: in the state of
\* an A on the node of the A, in the state of a B wherever there is a copy.
LEMMA ApplyBooks ==
  ASSUME RInv, Ledger, BondedOnce, NEW n \in Node, NEW x \in blist[n], Apply(n, x)
  PROVE  Ledger' /\ BondedOnce'
<1>1. TypeOK /\ Matching
  BY DEF RInv
<1>2. /\ blist'[n] = blist[n] \ {x}
      /\ \A k \in Node \ {n} : blist'[k] = blist[k]
      /\ Agreed' = Agreed /\ x \in Agreed /\ x \in Reactive
  BY Applying
<1>3. bonds' = bonds
  BY DEF Apply
<1>4. BondedOnce'
  BY <1>2, <1>3 DEF BondedOnce
<1>5. x[1] \in A /\ x[2] \in B /\ x[1] \in Id /\ x[2] \in Id
  BY <1>2, Partners DEF Id
<1>6. ASSUME NEW m \in Node, NEW p \in Id, m # n \/ (p # x[1] /\ p # x[2])
      PROVE  CountedAt(m, p)' = CountedAt(m, p)
  <2>1. \A y : (y[1] = p \/ y[2] = p) => (y \in blist'[m] <=> y \in blist[m])
    BY <1>2, <1>6
  <2> QED BY <1>2, <1>3, <2>1 DEF CountedAt
<1>7. ASSUME NEW p \in Id, p = x[1] \/ p = x[2]
      PROVE  Cardinality(CountedAt(n, p)') = Cardinality(CountedAt(n, p)) + 1
  <2>1. x \notin CountedAt(n, p)
    BY DEF CountedAt
  <2>2. CountedAt(n, p)' = CountedAt(n, p) \cup {x}
    BY <1>2, <1>3, <1>7 DEF CountedAt
  <2>3. IsFiniteSet(CountedAt(n, p))
    BY <1>1, CountedIsFinite
  <2> QED BY <2>1, <2>2, <2>3, FS_AddElement
<1>8. ASSUME NEW a \in A PROVE st'[Real(a)] = InitState + deltaA * Cardinality(Counted(a)')
  <2>1. a \in Id /\ Real(a) \in Copy /\ Owner[a] \in Node /\ a # x[2]
    BY <1>5, RealIsCopy, LayoutAssumption DEF Id
  <2>2. st[Real(a)] = InitState + deltaA * Cardinality(Counted(a)) /\ Cardinality(Counted(a)) \in Nat
    BY <1>1, CountedIsFinite DEF Ledger, Counted
  <2>3. CASE a = x[1] /\ Owner[a] = n
    <3>1. st'[Real(a)] = st[Real(a)] + deltaA
      BY <1>5, <2>1, <2>3, RealIndexed DEF Apply
    <3>2. Cardinality(Counted(a)') = Cardinality(Counted(a)) + 1
      BY <1>7, <2>1, <2>3 DEF Counted
    <3>3. deltaA * (Cardinality(Counted(a)) + 1) = deltaA * Cardinality(Counted(a)) + deltaA
      BY <2>2, ReactionAssumption
    <3>4. deltaA * Cardinality(Counted(a)) \in Int
      BY <2>2, ReactionAssumption
    <3> QED BY <2>2, <3>1, <3>2, <3>3, <3>4, ReactionAssumption
  <2>4. CASE ~(a = x[1] /\ Owner[a] = n)
    <3>1. Real(a) \notin Indexed(n, x[1]) /\ Real(a) \notin Indexed(n, x[2])
      BY <1>5, <2>1, <2>4, RealIndexed
    <3>2. st'[Real(a)] = st[Real(a)]
      BY <2>1, <3>1 DEF Apply
    <3>3. Counted(a)' = Counted(a)
      BY <1>6, <2>1, <2>4 DEF Counted
    <3> QED BY <2>2, <3>2, <3>3
  <2> QED BY <2>3, <2>4
<1>9. ASSUME NEW m \in Node, NEW b \in B, NEW c \in Indexed(m, b)
      PROVE  st'[c] = deltaB * Cardinality(CountedAt(m, b)')
  <2>1. b \in Id /\ b # x[1]
    BY <1>5, LayoutAssumption DEF Id
  <2>2. c \in Copy /\ c[1] = m /\ c[2] = b
    BY <2>1, IndexedIsCopy
  <2>3. st[c] = deltaB * Cardinality(CountedAt(m, b)) /\ Cardinality(CountedAt(m, b)) \in Nat
    BY <1>1, CountedIsFinite DEF Ledger
  <2>4. c \notin Indexed(n, x[1])
    BY <1>5, <2>1, <2>2, IndexedIsCopy
  <2>5. CASE b = x[2] /\ m = n
    <3>1. st'[c] = st[c] + deltaB
      BY <2>2, <2>4, <2>5 DEF Apply
    <3>2. Cardinality(CountedAt(m, b)') = Cardinality(CountedAt(m, b)) + 1
      BY <1>7, <2>1, <2>5
    <3>3. deltaB * (Cardinality(CountedAt(m, b)) + 1) = deltaB * Cardinality(CountedAt(m, b)) + deltaB
      BY <2>3, ReactionAssumption
    <3> QED BY <2>3, <3>1, <3>2, <3>3
  <2>6. CASE ~(b = x[2] /\ m = n)
    <3>1. c \notin Indexed(n, x[2])
      BY <1>5, <2>2, <2>6, IndexedIsCopy
    <3>2. st'[c] = st[c]
      BY <2>2, <2>4, <3>1 DEF Apply
    <3>3. CountedAt(m, b)' = CountedAt(m, b)
      BY <1>6, <2>1, <2>6
    <3> QED BY <2>3, <3>2, <3>3
  <2> QED BY <2>5, <2>6
<1>10. Ledger'
  BY <1>8, <1>9 DEF Ledger, Real, Indexed
<1> QED
  BY <1>4, <1>10

\* A resort gives every copy the state of its particle; without one the
\* copies keep the states that applyAR gave them.
LEMMA TimeStepBooks ==
  ASSUME RInv, Ledger, BondedOnce, TimeStep
  PROVE  Ledger' /\ BondedOnce'
<1>1. /\ All("left") /\ (st' = Refreshed \/ st' = st)
      /\ bonds' = bonds /\ born' = born /\ blist' = blist /\ adding' = adding
  BY DEF TimeStep
<1>2. Agreed' = Agreed
  BY <1>1 DEF Agreed, Filer, Reactive, Pid1
<1>3. CASE st' = st
  BY <1>1, <1>2, <1>3, SameBooks
<1>4. CASE st' = Refreshed
  <2>1. \A n \in Node : blist[n] = {}
    BY <1>1, OnePhase DEF RInv, Phases
  <2>2. ASSUME NEW n, NEW p PROVE CountedAt(n, p)' = CountedAt(n, p)
    BY <1>1, <1>2 DEF CountedAt
  <2>3. ASSUME NEW a \in A PROVE st'[Real(a)] = InitState + deltaA * Cardinality(Counted(a)')
    <3>1. Real(a) \in Copy /\ Real(a)[2] = a
      BY RealIsCopy DEF Id
    <3>2. st'[Real(a)] = st[Real(a)]
      BY <1>4, <3>1 DEF Refreshed
    <3> QED BY <2>2, <3>2 DEF Ledger, Counted
  <2>4. ASSUME NEW n \in Node, NEW b \in B, NEW c \in Indexed(n, b)
        PROVE  st'[c] = deltaB * Cardinality(CountedAt(n, b)')
    <3>1. c \in Copy /\ c[2] = b /\ Owner[b] \in Node
      BY IndexedIsCopy, RealIsCopy DEF Id
    <3>2. st'[c] = st[Real(b)]
      BY <1>4, <3>1 DEF Refreshed
    <3>3. CountedAt(n, b) = Counted(b)
      BY <2>1, <3>1 DEF CountedAt, Counted
    <3> QED BY <2>2, <3>2, <3>3, OwnLedger
  <2>5. Ledger'
    BY <2>3, <2>4 DEF Ledger, Real, Indexed
  <2>6. BondedOnce'
    BY <1>1, <1>2 DEF BondedOnce
  <2> QED BY <2>5, <2>6
<1> QED
  BY <1>1, <1>3, <1>4

\* Every step keeps the books.
LEMMA StepSInv == SInv /\ [Next]_vars => SInv'
<1> SUFFICES ASSUME SInv, [Next]_vars PROVE SInv'
  OBVIOUS
<1>1. RInv /\ RInv'
  BY StepRInv DEF SInv
<1> SUFFICES ASSUME Tracked PROVE Ledger' /\ StillFree' /\ BondedOnce'
  BY <1>1 DEF SInv, Tracked, Indexed, Real
<1>2. Ledger /\ StillFree /\ BondedOnce
  BY DEF SInv
<1>3. Phases /\ Phases' /\ TypeOK
  BY <1>1 DEF RInv
<1>4. CASE UNCHANGED vars \/ Finished
  <2>1. UNCHANGED vars
    BY <1>4 DEF Finished
  <2> QED BY <1>2, <2>1 DEF vars, Ledger, StillFree, BondedOnce, Counted, CountedAt, Agreed, All, Filer,
                          Reactive, Pid1, Real, Indexed
<1>5. CASE Collect
  BY <1>1, <1>2, <1>5, CollectBooks
<1>6. CASE UniqueA
  BY <1>1, <1>2, <1>6, UniqueABooks
<1>7. CASE UniqueB
  BY <1>1, <1>2, <1>7, UniqueBBooks
<1>8. CASE AddReturns
  <2>1. Agreed' = Agreed /\ bonds \subseteq bonds' /\ bonds' \subseteq bonds \cup Agreed
    BY <1>1, <1>8, Filing
  <2>2. st' = st /\ blist' = blist /\ pc' = [n \in Node |-> "apply"]
    BY <1>8 DEF AddReturns
  <2>3. Ledger' /\ BondedOnce'
    BY <1>2, <2>1, <2>2, SameBooks
  <2>4. ~All("uniqueA")' /\ ~All("uniqueB")'
    BY <2>2, SomeNode DEF All
  <2> QED BY <2>3, <2>4 DEF StillFree
<1>9. CASE \E n \in Node : Leave(n)
  <2>1. PICK n \in Node : Leave(n)
    BY <1>9
  <2>2. st' = st /\ blist' = blist /\ adding' = adding /\ bonds' = bonds /\ born' = born
    BY <2>1 DEF Leave
  <2>3. Agreed' = Agreed
    BY <2>2 DEF Agreed, Filer, Reactive, Pid1
  <2>4. Ledger' /\ BondedOnce'
    BY <1>2, <2>2, <2>3, SameBooks
  <2>5. pc'[n] = "left"
    BY <1>3, <2>1 DEF Leave, TypeOK
  <2>6. ~All("uniqueA")' /\ ~All("uniqueB")'
    BY <2>5 DEF All
  <2> QED BY <2>4, <2>6 DEF StillFree
<1>10. CASE TimeStep
  <2>1. Ledger' /\ BondedOnce'
    BY <1>1, <1>2, <1>10, TimeStepBooks
  <2>2. pc' = [n \in Node |-> "collect"]
    BY <1>10 DEF TimeStep
  <2>3. ~All("uniqueA")' /\ ~All("uniqueB")'
    BY <2>2, SomeNode DEF All
  <2> QED BY <2>1, <2>3 DEF StillFree
<1>11. ASSUME NEW n \in Node, NEW x \in blist[n], Apply(n, x)
       PROVE  Ledger' /\ StillFree' /\ BondedOnce'
  <2>1. Ledger' /\ BondedOnce'
    BY <1>1, <1>2, <1>11, ApplyBooks
  <2>2. pc'[n] = "add"
    BY <1>1, <1>11, Applying
  <2>3. ~All("uniqueA")' /\ ~All("uniqueB")'
    BY <2>2 DEF All
  <2> QED BY <2>1, <2>3 DEF StillFree
<1> QED
  BY <1>4, <1>5, <1>6, <1>7, <1>8, <1>9, <1>10, <1>11 DEF Next

\* Before the first step nothing is counted.
LEMMA InitSInv == Init => SInv
<1> SUFFICES ASSUME Init PROVE SInv
  OBVIOUS
<1>1. RInv
  BY InitRInv
<1>2. Agreed = {}
  BY Partners DEF Agreed, Init
<1>3. \A n, p : Cardinality(CountedAt(n, p)) = 0
  <2>1. \A n, p : CountedAt(n, p) = {}
    BY <1>2 DEF CountedAt, Init
  <2> QED BY <2>1, FS_EmptySet
<1>4. Ledger
  <2>1. ASSUME NEW a \in A PROVE st[Real(a)] = InitState + deltaA * Cardinality(Counted(a))
    <3>1. Real(a) \in Copy /\ Real(a)[2] = a
      BY RealIsCopy DEF Id
    <3>2. Cardinality(Counted(a)) = 0 /\ st[Real(a)] = InitState
      BY <1>3, <3>1 DEF Counted, Init
    <3> QED BY <3>2, ReactionAssumption
  <2>2. ASSUME NEW n \in Node, NEW b \in B, NEW c \in Indexed(n, b)
        PROVE  st[c] = deltaB * Cardinality(CountedAt(n, b))
    <3>1. c \in Copy /\ c[2] \notin A
      BY IndexedIsCopy, LayoutAssumption DEF Id
    <3>2. Cardinality(CountedAt(n, b)) = 0 /\ st[c] = 0
      BY <1>3, <3>1 DEF Init
    <3> QED BY <3>2, ReactionAssumption
  <2> QED BY <2>1, <2>2 DEF Ledger
<1>5. StillFree /\ BondedOnce
  BY <1>2 DEF Init, StillFree, BondedOnce
<1> QED
  BY <1>1, <1>4, <1>5 DEF SInv

\* In every reachable state the books are in order.
THEOREM StateInvariant == Spec => []SInv
<1> QED
  BY InitSInv, StepSInv, PTL DEF Spec

\* A B leaves state 0 by its one reaction and never changes again, however
\* long the next resort is in coming: applyAR brings the state to every copy
\* that localParticles points to, and a B is found through no other.
THEOREM ReactsOnce ==
  ASSUME Tracked
  PROVE  Spec => []ReactsFromZero
<1>1. SInv => ReactsFromZero
  <2> SUFFICES ASSUME SInv, NEW b \in B PROVE st[Real(b)] \in {0, deltaB}
    BY DEF ReactsFromZero
  <2>1. Matching /\ Ledger /\ BondedOnce
    BY DEF SInv, RInv
  <2>2. st[Real(b)] = deltaB * Cardinality(Counted(b)) /\ IsFiniteSet(Counted(b))
    BY <2>1, CountedIsFinite, OwnLedger DEF Counted
  <2>3. ASSUME NEW x \in Counted(b), NEW y \in Counted(b) PROVE x = y
    <3>1. x \in Reactive /\ y \in Reactive
      BY <2>1, CountedIsFinite DEF Counted, CountedAt
    <3>2. x[1] # b /\ y[1] # b
      BY <3>1, Partners, LayoutAssumption
    <3> QED BY <2>1, <3>2 DEF Counted, CountedAt, BondedOnce
  <2>4. CASE Counted(b) = {}
    <3>1. Cardinality(Counted(b)) = 0
      BY <2>4, FS_EmptySet
    <3> QED BY <2>2, <3>1, ReactionAssumption
  <2>5. CASE Counted(b) # {}
    <3>1. PICK x : x \in Counted(b)
      BY <2>5
    <3>2. Counted(b) = {x}
      BY <2>3, <3>1
    <3>3. Cardinality(Counted(b)) = 1
      BY <3>2, FS_Singleton
    <3> QED BY <2>2, <3>3, ReactionAssumption
  <2> QED BY <2>4, <2>5
<1> QED
  BY <1>1, StateInvariant, PTL

\* When all nodes have left react() the state of a particle counts its
\* bonds: no change of state was lost between the nodes or applied twice.
THEOREM CountsBonds ==
  ASSUME Tracked
  PROVE  Spec => []StateCountsBonds
<1>1. SInv => StateCountsBonds
  <2> SUFFICES ASSUME SInv, All("left")
               PROVE  /\ \A a \in A : st[Real(a)] = InitState + deltaA * Cardinality({x \in bonds : x[1] = a})
                      /\ \A b \in B : st[Real(b)] = deltaB * Cardinality({x \in bonds : x[2] = b})
    BY DEF StateCountsBonds
  <2>1. Phases /\ Matching /\ Ledger
    BY DEF SInv, RInv
  <2>2. \A n \in Node : blist[n] = {} /\ adding[n] = {}
    BY <2>1, OnePhase DEF Phases
  <2>3. Agreed \subseteq bonds /\ bonds \subseteq Reactive
    BY <2>1, <2>2, NothingPending DEF Matching
  <2>4. ASSUME NEW a \in A PROVE Counted(a) = {x \in bonds : x[1] = a}
    <3>1. Owner[a] \in Node
      BY RealIsCopy DEF Id
    <3>2. \A x \in bonds : x[2] # a
      BY <2>3, Partners, LayoutAssumption
    <3> QED BY <2>2, <2>3, <3>1, <3>2 DEF Counted, CountedAt
  <2>5. ASSUME NEW b \in B PROVE Counted(b) = {x \in bonds : x[2] = b}
    <3>1. Owner[b] \in Node
      BY RealIsCopy DEF Id
    <3>2. \A x \in bonds : x[1] # b
      BY <2>3, Partners, LayoutAssumption
    <3> QED BY <2>2, <2>3, <3>1, <3>2 DEF Counted, CountedAt
  <2> QED BY <2>1, <2>4, <2>5, OwnLedger DEF Ledger
<1> QED
  BY <1>1, StateInvariant, PTL

-----------------------------------------------------------------------------
(* Calls of FixedPairList::add align on grids of at most three nodes along *)
(* each coordinate.                                                        *)

\* One exchange reaches all nodes of a line of at most three.
LEMMA WholeLine ==
  ASSUME Small, NEW n \in Node, NEW c \in Coord, NEW v \in Nat, v < GridSize[c]
  PROVE  [n EXCEPT ![c] = v] \in Beside(n, c) /\ [n EXCEPT ![c] = v] \in Node
<1>1. n \in [Coord -> 0 .. MaxExtent] /\ n[c] \in Nat /\ n[c] < GridSize[c]
  BY GridAssumption DEF Node, MaxExtent, Coord
<1>2. GridSize[c] \in Nat /\ GridSize[c] <= 3 /\ GridSize[c] > 0 /\ GridSize[c] <= MaxExtent /\ MaxExtent \in Nat
  BY GridAssumption DEF Small, MaxExtent, Coord
<1>3. [n EXCEPT ![c] = v] \in Node
  BY <1>1, <1>2 DEF Node
<1>4. CASE v = n[c]
  <2>1. [n EXCEPT ![c] = v] = n
    BY <1>1, <1>4
  <2> QED BY <1>3, <2>1 DEF Beside
<1>5. CASE v # n[c]
  <2> DEFINE lo == IF n[c] - 1 < 0 THEN n[c] - 1 + GridSize[c] ELSE n[c] - 1
             hi == IF n[c] + 1 >= GridSize[c] THEN n[c] + 1 - GridSize[c] ELSE n[c] + 1
  <2>1. v = lo \/ v = hi
    BY <1>1, <1>2, <1>5
  <2>2. NodeNeighbor(n, c, Left) = [n EXCEPT ![c] = lo] /\ NodeNeighbor(n, c, Right) = [n EXCEPT ![c] = hi]
    BY DEF NodeNeighbor, Left, Right
  <2> HIDE DEF lo, hi
  <2> QED BY <1>3, <2>1, <2>2 DEF Beside
<1> QED
  BY <1>3, <1>4, <1>5

\* Three exchanges then reach every node.
LEMMA EverybodyAround ==
  ASSUME Small, NEW n \in Node
  PROVE  Around(n) = Node
<1> SUFFICES ASSUME NEW k \in Node PROVE k \in Around(n)
  BY DEF Around
<1>1. 0 \in Coord /\ 1 \in Coord /\ 2 \in Coord /\ \A c \in Coord : k[c] \in Nat /\ k[c] < GridSize[c]
  BY GridAssumption DEF Node, MaxExtent, Coord
<1> DEFINE i == [n EXCEPT ![2] = k[2]]
           j == [i EXCEPT ![1] = k[1]]
           h == [j EXCEPT ![0] = k[0]]
<1>2. i \in Beside(n, 2) /\ i \in Node
  BY <1>1, WholeLine
<1>3. j \in Beside(i, 1) /\ j \in Node
  BY <1>1, <1>2, WholeLine
<1>4. h \in Beside(j, 0) /\ h \in Node
  BY <1>1, <1>3, WholeLine
<1>5. h = k
  <2>1. n \in [Coord -> 0 .. MaxExtent] /\ k \in [Coord -> 0 .. MaxExtent]
    BY DEF Node
  <2>2. h \in [Coord -> 0 .. MaxExtent]
    BY <1>4 DEF Node
  <2>3. \A c \in Coord : h[c] = k[c]
    BY <2>1 DEF Coord
  <2> QED BY <2>1, <2>2, <2>3
<1> HIDE DEF i, j, h
<1> QED
  BY <1>2, <1>3, <1>4, <1>5 DEF Around

\* The third exchange leaves every node with the same pairs to apply.
LEMMA SamePairs ==
  ASSUME RInv, Small, UniqueB, NEW m \in Node, NEW n \in Node
  PROVE  blist'[m] = blist'[n]
<1> DEFINE asked == {b \in B : \E a \in A : <<a, b>> \in alist[Owner[b]]}
<1>1. PICK f \in [asked -> A] :
        blist' = SendMultiMap([k \in Node |-> {<<f[b], b>> : b \in {x \in asked : Owner[x] = k}}])
  BY DEF UniqueB
<1> DEFINE mm == [k \in Node |-> {<<f[b], b>> : b \in {x \in asked : Owner[x] = k}}]
<1>2. \A x : x \in blist'[m] <=> \E k \in Node : x \in mm[k]
  BY <1>1, Collected, EverybodyAround
<1>3. \A x : x \in blist'[n] <=> \E k \in Node : x \in mm[k]
  BY <1>1, Collected, EverybodyAround
<1>4. blist'[m] \subseteq A \X B /\ blist'[n] \subseteq A \X B
  BY Chosen
<1> HIDE DEF mm, asked
<1> QED
  BY <1>2, <1>3, <1>4

\* A node has finitely many pairs to apply.
LEMMA FinitelyMany ==
  ASSUME RInv, NEW n \in Node
  PROVE  IsFiniteSet(blist[n]) /\ Cardinality(blist[n]) \in Nat
<1>1. blist[n] \in SUBSET Reactive
  BY DEF RInv, Matching, Agreed
<1> QED
  BY <1>1, FinitePairs, FS_Subset, FS_CardinalityType

\* No node gets more than one call of add ahead of another.
LEMMA StepEven ==
  ASSUME Small, RInv, RInv', Even, [Next]_vars
  PROVE  Even'
<1>1. TypeOK /\ Phases
  BY DEF RInv
<1> DEFINE Joint(w) == pc' = [n \in Node |-> w]
<1>2. ASSUME NEW w, Joint(w), w \notin {"apply", "add", "left"} PROVE Even'
  BY <1>2, SomeNode DEF Even
<1>3. CASE Collect \/ UniqueA \/ TimeStep
  <2>1. Joint("uniqueA") \/ Joint("uniqueB") \/ Joint("collect")
    BY <1>3 DEF Collect, UniqueA, TimeStep
  <2> QED BY <1>2, <2>1
<1>4. CASE UNCHANGED vars \/ Finished
  <2>1. UNCHANGED vars
    BY <1>4 DEF Finished
  <2> QED BY <2>1 DEF vars, Even, Pending
<1>5. CASE UniqueB
  <2>1. PICK n0 \in Node : TRUE
    BY SomeNode
  <2>2. Cardinality(blist'[n0]) \in Nat
    <3>1. blist'[n0] \in SUBSET Reactive
      BY <1>5, Chosen
    <3> QED BY <3>1, FinitePairs, FS_Subset, FS_CardinalityType
  <2>3. \A n \in Node : pc'[n] = "apply" /\ blist'[n] = blist'[n0]
    BY <1>5, SamePairs DEF UniqueB
  <2> QED BY <2>2, <2>3 DEF Even, Pending
<1>6. CASE AddReturns
  <2>1. /\ \A n \in Node : pc[n] = "add" /\ pc'[n] = "apply"
        /\ blist' = blist
    BY <1>6, OnePhase DEF AddReturns
  <2>2. PICK k \in Nat : Pending(k)
    BY <2>1 DEF Even
  <2>3. PICK n0 \in Node : TRUE
    BY SomeNode
  <2>4. k - 1 \in Nat
    BY <2>1, <2>2, FinitelyMany DEF Pending
  <2>5. \A n \in Node : pc'[n] = "apply" /\ Cardinality(blist'[n]) = k - 1
    BY <2>1, <2>2 DEF Pending
  <2> QED BY <2>4, <2>5 DEF Even, Pending
<1>7. ASSUME NEW n \in Node, Leave(n) PROVE Even'
  <2>1. /\ pc[n] = "apply" /\ blist[n] = {} /\ blist' = blist
        /\ pc'[n] = "left" /\ \A m \in Node \ {n} : pc'[m] = pc[m]
    BY <1>1, <1>7 DEF Leave, TypeOK
  <2>2. \A m \in Node : pc[m] \in {"apply", "add", "left"}
    BY <1>1, <2>1, OnePhase DEF Phases
  <2>3. PICK k \in Nat : Pending(k)
    BY <2>2 DEF Even
  <2>4. k = 0
    BY <2>1, <2>3, FS_EmptySet DEF Pending
  <2>5. \A m \in Node : /\ pc'[m] = "apply" => Cardinality(blist'[m]) = 0
                        /\ pc'[m] = "add" => Cardinality(blist'[m]) = 0 - 1
    BY <2>1, <2>3, <2>4 DEF Pending
  <2> QED BY <2>5 DEF Even, Pending
<1>8. ASSUME NEW n \in Node, NEW x \in blist[n], Apply(n, x) PROVE Even'
  <2>1. /\ blist'[n] = blist[n] \ {x} /\ pc'[n] = "add" /\ pc[n] = "apply"
        /\ \A m \in Node \ {n} : blist'[m] = blist[m] /\ pc'[m] = pc[m]
    BY <1>8, Applying
  <2>2. \A m \in Node : pc[m] \in {"apply", "add", "left"}
    BY <1>1, <2>1, OnePhase DEF Phases
  <2>3. PICK k \in Nat : Pending(k)
    BY <2>2 DEF Even
  <2>4. Cardinality(blist'[n]) = k - 1
    BY <2>1, <2>3, FinitelyMany, FS_RemoveElement DEF Pending
  <2>5. \A m \in Node : /\ pc'[m] = "apply" => Cardinality(blist'[m]) = k
                        /\ pc'[m] = "add" => Cardinality(blist'[m]) = k - 1
                        /\ pc'[m] = "left" => k = 0
    BY <2>1, <2>3, <2>4 DEF Pending
  <2> QED BY <2>5 DEF Even, Pending
<1> HIDE DEF Joint
<1> QED
  BY <1>3, <1>4, <1>5, <1>6, <1>7, <1>8 DEF Next

\* On a grid of at most three nodes along each coordinate no node waits in
\* FixedPairList::add for one that has left react(): all have the same
\* number of pairs to add, so every collective call finds its partners.
THEOREM CallsAlign ==
  ASSUME Small
  PROVE  Spec => []AddsAlign
<1>1. Init => Even
  BY SomeNode DEF Init, Even
<1>2. RInv /\ RInv' /\ Even /\ [Next]_vars => Even'
  BY StepEven
<1>3. RInv /\ Even => AddsAlign
  <2> SUFFICES ASSUME RInv, Even, NEW m \in Node, NEW n \in Node, pc[m] = "add", pc[n] = "left"
               PROVE  FALSE
    BY DEF AddsAlign
  <2>1. \A k \in Node : pc[k] \in {"apply", "add", "left"}
    BY OnePhase DEF RInv, Phases
  <2>2. PICK k \in Nat : Pending(k)
    BY <2>1 DEF Even
  <2> QED BY <2>2, FinitelyMany DEF Pending
<1> QED
  BY <1>1, <1>2, <1>3, PairInvariant, PTL DEF Spec

=============================================================================
