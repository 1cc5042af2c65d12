------------------------- MODULE BondedSystemProofs -------------------------
(***************************************************************************)
(* Proofs about BondedSystem, for every number of nodes, particles,        *)
(* residues and bonds and for any rules.                                   *)
(***************************************************************************)
EXTENDS BondedSystem, FiniteSetTheorems, WellFoundedInduction, TLAPS

-----------------------------------------------------------------------------
(* The inductive invariant of the topology manager.                        *)

TopoTypes ==
  /\ bonds \in [Node -> SUBSET Bondable] /\ graph \in [Node -> SUBSET Bondable]
  /\ DOMAIN type = Node /\ DOMAIN gathered = Node
  /\ resGraph \in [Node -> SUBSET SUBSET Residue]
  /\ mid \in [Node -> [Id -> Nat]] /\ maxMol = [n \in Node |-> maxMol[n]]
  /\ \A n \in Node, p \in Id : maxMol[n] \in Nat /\ mid[n][p] <= maxMol[n]
  /\ newEdges \in [Node -> SUBSET Bondable] /\ removedEdges \in [Node -> SUBSET Bondable]
  /\ near \in [Node -> SUBSET (Id \X (1 .. 2) \X Id)]
  /\ toDelete \in [Node -> SUBSET Bondable] /\ toAdd \in [Node -> SUBSET Bondable]
  /\ pc \in [Node -> {"init", "run", "apply", "failed"}]

\* a node that runs has applied everything; what is to be deleted is there
Working ==
  \A n \in Node :
    /\ pc[n] # "failed"
    /\ pc[n] = "run" => toDelete[n] = {} /\ toAdd[n] = {}
    /\ pc[n] = "init" => toDelete[n] = {} /\ newEdges[n] = {} /\ removedEdges[n] = {} /\ near[n] = {}
    /\ toDelete[n] \subseteq graph[n]

\* what a node notes while it runs it has seen in its present graph
Noticed ==
  \A n \in Node : pc[n] = "run" =>
    /\ removedEdges[n] \subseteq graph[n] /\ newEdges[n] \cap graph[n] = {}
    /\ \A t \in near[n] : t[3] \in AtDistance(graph[n], t[1], t[2])

\* what a node has of the topology, and what it will have after its next edge
Replica(n) == [graph |-> graph[n], res |-> resGraph[n], mid |-> mid[n], max |-> maxMol[n],
               del |-> toDelete[n], add |-> toAdd[n]]

Without(x, e) ==
  LET g == x.graph \ {e}
      held == \E f \in g : ResEdge(f) = ResEdge(e)
      rg == x.res \ {ResEdge(e)}
      split == IF held THEN {} ELSE Component(rg, Res[e[1]]) \ Component(rg, Res[e[2]])
      same == Cardinality(ResEdge(e)) = 1 \/ split = {}
  IN  [graph |-> g,
       res   |-> IF Cardinality(ResEdge(e)) = 1 \/ held THEN x.res ELSE rg,
       mid   |-> IF same THEN x.mid ELSE [p \in Id |-> IF Res[p] \in split THEN x.max + 1 ELSE x.mid[p]],
       max   |-> IF same THEN x.max ELSE x.max + 1,
       del   |-> x.del \ {e},
       add   |-> x.add]

With(x, e) ==
  [graph |-> x.graph \cup {e},
   res   |-> x.res \cup {ResEdge(e)},
   mid   |-> [p \in Id |-> IF x.mid[p] = x.mid[e[2]] THEN x.mid[e[1]] ELSE x.mid[p]],
   max   |-> x.max,
   del   |-> x.del,
   add   |-> x.add \ {e}]

After(x) == IF x.del # {} THEN Without(x, First(x.del)) ELSE With(x, First(x.add))

\* x has less to apply than y
Further(x, y) == x.del \subseteq y.del /\ x.add \subseteq y.add /\ (x.del # y.del \/ x.add # y.add)

\* from x one comes to y by applying edges
Leads(s, k, x, y) ==
  /\ s[0] = x /\ s[k] = y
  /\ \A i \in 0 .. k - 1 : s[i + 1] = After(s[i]) /\ Further(y, s[i])
Behind(x, y) == \E k \in Nat : \E s : Leads(s, k, x, y)

\* of any two nodes one will come to where the other one is, or is there
InLine == \A m, n \in Node : Behind(Replica(m), Replica(n)) \/ Behind(Replica(n), Replica(m))

\* the type a copy has when its node has applied what it gathered
Eventual(n, p) == IF pc[n] = "apply" /\ p \in Sees[n] THEN NewType(n, p) ELSE type[n][p]
TypesFollow == \A n \in Node : \A p \in Sees[n] : Eventual(n, p) = Eventual(Owner[p], p)

TopoInv ==
  /\ TopoTypes /\ Working /\ Noticed /\ MoleculesAreComponents
  /\ GraphsAgree /\ InLine /\ TypesFollow

-----------------------------------------------------------------------------
(* Components of the graph of residues.                                    *)

Closed(rg, S) == \A e \in rg : e \cap S # {} => e \subseteq S

\* A component is the smallest closed set with its residue.
LEMMA Smallest ==
  ASSUME NEW rg \in SUBSET SUBSET Residue, NEW r \in Residue
  PROVE  /\ r \in Component(rg, r) /\ Component(rg, r) \subseteq Residue
         /\ Closed(rg, Component(rg, r))
         /\ \A S \in SUBSET Residue : r \in S /\ Closed(rg, S) => Component(rg, r) \subseteq S
<1> DEFINE C == Component(rg, r)
<1>1. \A s : s \in C <=> s \in Residue /\ \A S \in SUBSET Residue : r \in S /\ Closed(rg, S) => s \in S
  BY DEF Component, Closed
<1> HIDE DEF C
<1>2. r \in C /\ C \subseteq Residue /\ \A S \in SUBSET Residue : r \in S /\ Closed(rg, S) => C \subseteq S
  BY <1>1
<1>3. ASSUME NEW e \in rg, NEW x \in e \cap C, NEW y \in e PROVE y \in C
  <2>1. y \in Residue
    OBVIOUS
  <2>2. ASSUME NEW S \in SUBSET Residue, r \in S, Closed(rg, S) PROVE y \in S
    <3>1. x \in S
      BY <1>1, <2>2
    <3> QED BY <2>2, <3>1 DEF Closed
  <2> QED BY <1>1, <2>1, <2>2
<1>4. Closed(rg, C)
  BY <1>3 DEF Closed
<1> QED
  BY <1>2, <1>4 DEF C

\* Residues of one component have the same component.
LEMMA Partition ==
  ASSUME NEW rg \in SUBSET SUBSET Residue, NEW r \in Residue, NEW s \in Residue
  PROVE  s \in Component(rg, r) <=> Component(rg, s) = Component(rg, r)
<1>1. ASSUME s \in Component(rg, r) PROVE Component(rg, s) = Component(rg, r)
  <2>1. Component(rg, s) \subseteq Component(rg, r)
    BY <1>1, Smallest
  <2>2. r \in Component(rg, s)
    <3> SUFFICES ASSUME r \notin Component(rg, s) PROVE FALSE
      OBVIOUS
    <3> DEFINE S == Residue \ Component(rg, s)
    <3>1. Closed(rg, Component(rg, s)) /\ s \in Component(rg, s)
      BY Smallest
    <3>2. Closed(rg, S)
      BY <3>1 DEF Closed
    <3>3. Component(rg, r) \subseteq S
      BY <3>2, Smallest
    <3> QED BY <1>1, <3>1, <3>3
  <2>3. Component(rg, r) \subseteq Component(rg, s)
    BY <2>2, Smallest
  <2> QED BY <2>1, <2>3
<1>2. ASSUME Component(rg, s) = Component(rg, r) PROVE s \in Component(rg, r)
  BY <1>2, Smallest
<1> QED
  BY <1>1, <1>2

\* rg2 has one more edge than rg, the one between a and b
OneMore(rg2, rg, a, b) ==
  /\ rg \in SUBSET SUBSET Residue /\ a \in Residue /\ b \in Residue
  /\ {a, b} \in rg2 /\ rg2 \in SUBSET SUBSET Residue /\ rg \subseteq rg2
  /\ \A d \in rg2 : d \in rg \/ d = {a, b}

\* An edge between two residues joins their components.
LEMMA Joining ==
  ASSUME NEW rg2, NEW rg, NEW a, NEW b, OneMore(rg2, rg, a, b), NEW r \in Residue
  PROVE  /\ r \in Component(rg, a) \/ r \in Component(rg, b)
              => Component(rg2, r) = Component(rg, a) \cup Component(rg, b)
         /\ r \notin Component(rg, a) /\ r \notin Component(rg, b)
              => Component(rg2, r) = Component(rg, r)
<1> DEFINE J == Component(rg, a) \cup Component(rg, b)
<1>1. /\ rg \in SUBSET SUBSET Residue /\ a \in Residue /\ b \in Residue
      /\ {a, b} \in rg2 /\ rg2 \in SUBSET SUBSET Residue /\ rg \subseteq rg2
      /\ \A d \in rg2 : d \in rg \/ d = {a, b}
  BY DEF OneMore
<1>2. /\ a \in Component(rg, a) /\ b \in Component(rg, b) /\ J \subseteq Residue
      /\ Closed(rg, Component(rg, a)) /\ Closed(rg, Component(rg, b))
  BY <1>1, Smallest
<1>3. Closed(rg2, J)
  BY <1>1, <1>2 DEF Closed
<1>4. \A x \in Residue : Component(rg, x) \subseteq Component(rg2, x)
  <2> TAKE x \in Residue
  <2>1. Closed(rg2, Component(rg2, x)) /\ x \in Component(rg2, x) /\ Component(rg2, x) \in SUBSET Residue
    BY <1>1, Smallest
  <2>2. Closed(rg, Component(rg2, x))
    BY <1>1, <2>1 DEF Closed
  <2> QED BY <1>1, <2>1, <2>2, Smallest
<1>5. b \in Component(rg2, a)
  <2>1. Closed(rg2, Component(rg2, a)) /\ a \in Component(rg2, a)
    BY <1>1, Smallest
  <2>2. {a, b} \cap Component(rg2, a) # {}
    BY <2>1
  <2>3. {a, b} \subseteq Component(rg2, a)
    BY <1>1, <2>1, <2>2 DEF Closed
  <2> QED BY <2>3
<1>6. Component(rg2, a) = Component(rg2, b)
  BY <1>1, <1>5, Partition
<1>7. J \subseteq Component(rg2, a)
  BY <1>1, <1>4, <1>6
<1>8. CASE r \in J
  <2>1. Component(rg2, r) = Component(rg2, a)
    <3>1. r \in Component(rg2, a)
      BY <1>7, <1>8
    <3> HIDE DEF J
    <3> QED BY <1>1, <3>1, Partition
  <2>2. Component(rg2, r) \subseteq J
    BY <1>1, <1>2, <1>3, <1>8, Smallest
  <2> QED BY <1>7, <1>8, <2>1, <2>2
<1>9. CASE r \notin J
  <2>1. Closed(rg, Component(rg, r)) /\ r \in Component(rg, r) /\ Component(rg, r) \in SUBSET Residue
    BY <1>1, Smallest
  <2>2. a \notin Component(rg, r) /\ b \notin Component(rg, r)
    BY <1>1, <1>9, <2>1, Partition
  <2>3. Closed(rg2, Component(rg, r))
    BY <1>1, <2>1, <2>2 DEF Closed
  <2>4. Component(rg2, r) \subseteq Component(rg, r)
    BY <1>1, <2>1, <2>3, Smallest
  <2> QED BY <1>4, <1>9, <2>4
<1> QED
  BY <1>8, <1>9

\* Without an edge its component falls into those of its ends, or stays.
LEMMA Splitting ==
  ASSUME NEW rg2, NEW rg, NEW a, NEW b, OneMore(rg, rg2, a, b)
  PROVE  /\ Component(rg, a) = Component(rg2, a) \cup Component(rg2, b)
         /\ Component(rg, b) = Component(rg, a)
         /\ \A r \in Residue : r \notin Component(rg, a) => Component(rg2, r) = Component(rg, r)
<1> DEFINE J == Component(rg2, a) \cup Component(rg2, b)
<1>1. /\ rg2 \in SUBSET SUBSET Residue /\ a \in Residue /\ b \in Residue
      /\ {a, b} \in rg /\ rg \in SUBSET SUBSET Residue /\ rg2 \subseteq rg
      /\ \A d \in rg : d \in rg2 \/ d = {a, b}
  BY DEF OneMore
<1>2. \A x \in Residue : Component(rg2, x) \subseteq Component(rg, x)
  <2> TAKE x \in Residue
  <2>1. Closed(rg, Component(rg, x)) /\ x \in Component(rg, x) /\ Component(rg, x) \in SUBSET Residue
    BY <1>1, Smallest
  <2>2. Closed(rg2, Component(rg, x))
    BY <1>1, <2>1 DEF Closed
  <2> QED BY <1>1, <2>1, <2>2, Smallest
<1>3. Component(rg, b) = Component(rg, a)
  <2>1. Closed(rg, Component(rg, a)) /\ a \in Component(rg, a)
    BY <1>1, Smallest
  <2>2. b \in Component(rg, a)
    BY <1>1, <2>1 DEF Closed
  <2> QED BY <1>1, <2>2, Partition
<1>4. Component(rg, a) \subseteq J
  <2>1. /\ a \in Component(rg2, a) /\ b \in Component(rg2, b) /\ J \in SUBSET Residue
        /\ Closed(rg2, Component(rg2, a)) /\ Closed(rg2, Component(rg2, b))
    BY <1>1, Smallest
  <2>2. ASSUME NEW e \in rg, e \cap J # {} PROVE e \subseteq J
    <3>1. CASE e = {a, b}
      BY <2>1, <3>1
    <3>2. CASE e # {a, b}
      BY <1>1, <2>1, <2>2, <3>2 DEF Closed
    <3> QED BY <3>1, <3>2
  <2>3. Closed(rg, J) /\ a \in J /\ J \in SUBSET Residue
    BY <2>1, <2>2 DEF Closed
  <2> HIDE DEF J
  <2> QED BY <1>1, <2>3, Smallest
<1>5. ASSUME NEW r \in Residue, r \notin Component(rg, a) PROVE Component(rg2, r) = Component(rg, r)
  <2>1. /\ Closed(rg2, Component(rg2, r)) /\ r \in Component(rg2, r) /\ Component(rg2, r) \in SUBSET Residue
        /\ r \in Component(rg, r)
    BY <1>1, Smallest
  <2>2. a \notin Component(rg, r) /\ b \notin Component(rg, r)
    BY <1>1, <1>3, <1>5, <2>1, Partition
  <2>3. a \notin Component(rg2, r) /\ b \notin Component(rg2, r)
    BY <1>2, <2>2
  <2>4. Closed(rg, Component(rg2, r))
    <3> SUFFICES ASSUME NEW e \in rg, e \cap Component(rg2, r) # {} PROVE e \subseteq Component(rg2, r)
      BY DEF Closed
    <3>1. e # {a, b}
      BY <2>3
    <3> QED BY <1>1, <2>1, <3>1 DEF Closed
  <2>5. Component(rg, r) \subseteq Component(rg2, r)
    BY <1>1, <2>1, <2>4, Smallest
  <2> QED BY <1>2, <2>5
<1>6. Component(rg, a) = J
  BY <1>1, <1>2, <1>3, <1>4
<1> QED
  BY <1>3, <1>5, <1>6

\* The first edge of a set that is applied in order is one of the set.
LEMMA FirstIsOne ==
  ASSUME NEW E \in SUBSET Bondable, E # {}
  PROVE  First(E) \in E
<1> DEFINE R == OpToRel(<, Nat)
           L == LexPairOrdering(R, R, Nat, Nat)
<1>1. \A e \in E : e \in Nat \X Nat /\ e[1] \in Nat /\ e[2] \in Nat /\ e = <<e[1], e[2]>>
  BY TopologyAssumption
<1>2. IsWellFoundedOn(L, Nat \X Nat)
  BY NatLessThanWellFounded, WFLexPairOrdering
<1>3. PICK e \in E : \A f \in E : ~(<<f, e>> \in L)
  <2>1. E \subseteq Nat \X Nat
    BY <1>1
  <2> HIDE DEF L
  <2> QED BY <1>2, <2>1, WFMin
<1>4. \A f \in E : <<f, e>> \in L <=> Before(f, e)
  BY <1>1 DEF LexPairOrdering, OpToRel, Before
<1>5. ASSUME NEW f \in E \ {e} PROVE Before(e, f)
  <2>1. ~Before(f, e) /\ f # e
    BY <1>3, <1>4
  <2>2. f[1] # e[1] \/ f[2] # e[2]
    BY <1>1, <2>1
  <2> QED BY <1>1, <2>1, <2>2 DEF Before
<1>6. \E x \in E : \A f \in E \ {x} : Before(x, f)
  BY <1>5
<1> QED
  BY <1>6 DEF First

\* An edge of the graph of residues has one end or two.
LEMMA PairCard ==
  ASSUME NEW x, NEW y, NEW S, S = {x, y}
  PROVE  Cardinality(S) = IF x = y THEN 1 ELSE 2
<1>1. CASE x = y
  <2>1. S = {x}
    BY <1>1
  <2> QED BY <1>1, <2>1, FS_Singleton
<1>2. CASE x # y
  <2>1. IsFiniteSet({x}) /\ Cardinality({x}) = 1
    BY FS_Singleton
  <2>2. Cardinality({x} \cup {y}) = 2
    BY <1>2, <2>1, FS_AddElement
  <2>3. S = {x} \cup {y}
    OBVIOUS
  <2> QED BY <1>2, <2>2, <2>3
<1> QED
  BY <1>1, <1>2

\* Bonds connect particles with residues.
LEMMA EdgeFacts ==
  ASSUME NEW e \in Bondable
  PROVE  /\ e \in Id \X Id /\ e = <<e[1], e[2]>> /\ e[1] \in Id /\ e[2] \in Id /\ e[1] < e[2]
         /\ Res[e[1]] \in Residue /\ Res[e[2]] \in Residue
         /\ ResEdge(e) = {Res[e[1]], Res[e[2]]} /\ ResEdge(e) \in SUBSET Residue
         /\ Cardinality(ResEdge(e)) = IF Res[e[1]] = Res[e[2]] THEN 1 ELSE 2
         /\ Owner[e[1]] \in Node /\ e[1] \in Nat /\ e[2] \in Nat
<1>1. e \in Id \X Id /\ e[1] < e[2]
  BY TopologyAssumption
<1>2. Res[e[1]] \in Residue /\ Res[e[2]] \in Residue
  BY <1>1 DEF Residue
<1>3. ResEdge(e) = {Res[e[1]], Res[e[2]]}
  BY DEF ResEdge
<1>4. Cardinality(ResEdge(e)) = IF Res[e[1]] = Res[e[2]] THEN 1 ELSE 2
  BY <1>3, PairCard
<1>5. Owner[e[1]] \in Node /\ e[1] \in Nat /\ e[2] \in Nat
  BY <1>1, TopologyAssumption
<1> QED
  BY <1>1, <1>2, <1>3, <1>4, <1>5

\* A bond is filed in one order.
LEMMA OneOrder == ASSUME NEW e \in Bondable PROVE <<e[2], e[1]>> \notin Bondable /\ e = <<e[1], e[2]>>
<1>1. e[1] \in Nat /\ e[2] \in Nat /\ e[1] < e[2] /\ e = <<e[1], e[2]>>
  BY EdgeFacts
<1>2. ASSUME <<e[2], e[1]>> \in Bondable PROVE e[2] < e[1]
  BY <1>2, EdgeFacts
<1> QED
  BY <1>1, <1>2

-----------------------------------------------------------------------------
(* Molecules.                                                              *)

\* particles have the same molecule exactly if bonds connect their residues
Tells(m, rg) == \A p, q \in Id : m[p] = m[q] <=> Res[q] \in Component(rg, Res[p])

\* the edges between residues are those of bonds
Mirrors(rg, g) == {e \in rg : Cardinality(e) = 2} = {ResEdge(e) : e \in {f \in g : Res[f[1]] # Res[f[2]]}}

\* newEdge() joins two molecules when a bond joins their residues.
LEMMA MergeTells ==
  ASSUME NEW rg \in SUBSET SUBSET Residue, NEW m \in [Id -> Nat], Tells(m, rg), NEW e \in Bondable
  PROVE  Tells([p \in Id |-> IF m[p] = m[e[2]] THEN m[e[1]] ELSE m[p]], rg \cup {ResEdge(e)})
<1> DEFINE a == Res[e[1]]
           b == Res[e[2]]
           m2 == [p \in Id |-> IF m[p] = m[e[2]] THEN m[e[1]] ELSE m[p]]
           rg2 == rg \cup {ResEdge(e)}
<1>1. e[1] \in Id /\ e[2] \in Id /\ a \in Residue /\ b \in Residue /\ ResEdge(e) = {a, b}
  BY EdgeFacts
<1>2. ASSUME NEW p \in Id, NEW q \in Id PROVE m2[p] = m2[q] <=> Res[q] \in Component(rg2, Res[p])
  <2>1. Res[p] \in Residue /\ Res[q] \in Residue
    BY DEF Residue
  <2>2. /\ Res[p] \in Component(rg, a) \/ Res[p] \in Component(rg, b)
             => Component(rg2, Res[p]) = Component(rg, a) \cup Component(rg, b)
        /\ Res[p] \notin Component(rg, a) /\ Res[p] \notin Component(rg, b)
             => Component(rg2, Res[p]) = Component(rg, Res[p])
    <3>1. OneMore(rg2, rg, a, b)
      BY <1>1 DEF OneMore
    <3> HIDE DEF rg2, a, b, m2
    <3> QED BY <2>1, <3>1, Joining
  <2>3. \A x, y \in Id : Res[y] \in Component(rg, Res[x]) <=> m[x] = m[y]
    BY DEF Tells
  <2>4. /\ Res[p] \in Component(rg, a) <=> m[p] = m[e[1]]
        /\ Res[p] \in Component(rg, b) <=> m[p] = m[e[2]]
        /\ Res[q] \in Component(rg, a) <=> m[q] = m[e[1]]
        /\ Res[q] \in Component(rg, b) <=> m[q] = m[e[2]]
        /\ Res[q] \in Component(rg, Res[p]) <=> m[p] = m[q]
    BY <1>1, <2>3
  <2>5. /\ m2[p] = IF m[p] = m[e[2]] THEN m[e[1]] ELSE m[p]
        /\ m2[q] = IF m[q] = m[e[2]] THEN m[e[1]] ELSE m[q]
    OBVIOUS
  <2> HIDE DEF m2, rg2, a, b
  <2> QED BY <2>2, <2>4, <2>5
<1> QED
  BY <1>1, <1>2 DEF Tells

\* deleteEdge() gives a new id to what the first end alone still reaches.
LEMMA SplitTells ==
  ASSUME NEW rg \in SUBSET SUBSET Residue, NEW m \in [Id -> Nat], Tells(m, rg), NEW e \in Bondable,
         ResEdge(e) \in rg, NEW top \in Nat, \A p \in Id : m[p] <= top
  PROVE  LET rg2 == rg \ {ResEdge(e)}
             split == Component(rg2, Res[e[1]]) \ Component(rg2, Res[e[2]])
         IN  /\ split = {} => Tells(m, rg2)
             /\ split # {} => Tells([p \in Id |-> IF Res[p] \in split THEN top + 1 ELSE m[p]], rg2)
<1> DEFINE a == Res[e[1]]
           b == Res[e[2]]
           rg2 == rg \ {ResEdge(e)}
           split == Component(rg2, a) \ Component(rg2, b)
           m2 == [p \in Id |-> IF Res[p] \in split THEN top + 1 ELSE m[p]]
<1>1. e[1] \in Id /\ e[2] \in Id /\ a \in Residue /\ b \in Residue /\ ResEdge(e) = {a, b}
  BY EdgeFacts
<1>2. rg2 \in SUBSET SUBSET Residue /\ ResEdge(e) \in rg
  BY <1>1
<1>3. /\ Component(rg, a) = Component(rg2, a) \cup Component(rg2, b)
      /\ Component(rg, b) = Component(rg, a)
      /\ \A r \in Residue : r \notin Component(rg, a) => Component(rg2, r) = Component(rg, r)
  <2>1. OneMore(rg, rg2, a, b)
    BY <1>1, <1>2 DEF OneMore
  <2> HIDE DEF rg2, a, b, split, m2
  <2> QED BY <2>1, Splitting
<1>4. a \in Component(rg2, a) /\ b \in Component(rg2, b)
  BY <1>1, <1>2, Smallest
<1>5. \A r, s \in Residue : s \in Component(rg2, r) <=> Component(rg2, s) = Component(rg2, r)
  BY <1>2, Partition
<1>6. \A r, s \in Residue : s \in Component(rg, r) <=> Component(rg, s) = Component(rg, r)
  BY Partition
<1>7. \A p \in Id : Res[p] \in Residue /\ Res[p] \in Component(rg, Res[p]) /\ Res[p] \in Component(rg2, Res[p])
  BY <1>2, Smallest DEF Residue
<1> HIDE DEF rg2
<1>8. ASSUME Component(rg2, a) = Component(rg2, b)
      PROVE  split = {} /\ \A r \in Residue : Component(rg2, r) = Component(rg, r)
  <2>1. split = {}
    BY <1>8
  <2>2. ASSUME NEW r \in Residue PROVE Component(rg2, r) = Component(rg, r)
    <3>1. CASE r \in Component(rg, a)
      BY <1>1, <1>3, <1>5, <1>6, <1>8, <3>1
    <3> QED BY <1>3, <3>1
  <2> QED BY <2>1, <2>2
<1>9. ASSUME Component(rg2, a) # Component(rg2, b)
      PROVE  split # {} /\ split = Component(rg2, a) /\ Component(rg2, a) \cap Component(rg2, b) = {}
  <2>1. ASSUME NEW r \in Component(rg2, a), r \in Component(rg2, b) PROVE FALSE
    <3>1. r \in Residue
      BY DEF Component
    <3> QED BY <1>1, <1>5, <1>9, <2>1, <3>1
  <2> QED BY <1>4, <2>1
<1>10. ASSUME split = {} PROVE Tells(m, rg2)
  <2>1. \A r \in Residue : Component(rg2, r) = Component(rg, r)
    BY <1>8, <1>9, <1>10
  <2> QED BY <1>7, <2>1 DEF Tells
<1>11. ASSUME split # {}, NEW p \in Id, NEW q \in Id PROVE m2[p] = m2[q] <=> Res[q] \in Component(rg2, Res[p])
  <2>1. split = Component(rg2, a) /\ Component(rg2, a) \cap Component(rg2, b) = {}
    BY <1>8, <1>9, <1>11
  <2>2. m[p] = m[q] <=> Res[q] \in Component(rg, Res[p])
    BY DEF Tells
  <2>3. /\ m2[p] = IF Res[p] \in split THEN top + 1 ELSE m[p]
        /\ m2[q] = IF Res[q] \in split THEN top + 1 ELSE m[q]
        /\ m[p] # top + 1 /\ m[q] # top + 1
    OBVIOUS
  <2>4. Res[p] \in Residue /\ Res[q] \in Residue
    BY <1>7
  <2> HIDE DEF split, m2
  <2>5. CASE Res[p] \in split
    <3>1. Component(rg2, Res[p]) = Component(rg2, a)
      BY <1>1, <1>5, <2>1, <2>4, <2>5
    <3> QED BY <2>1, <2>3, <2>5, <3>1
  <2>6. CASE Res[p] \notin split /\ Res[p] \in Component(rg, a)
    <3>1. Res[p] \in Component(rg2, b)
      BY <1>3, <2>1, <2>6
    <3>2. Component(rg2, Res[p]) = Component(rg2, b)
      BY <1>1, <1>5, <2>4, <3>1
    <3>3. Component(rg, Res[p]) = Component(rg, a)
      BY <1>1, <1>6, <2>4, <2>6
    <3> QED BY <1>3, <2>1, <2>2, <2>3, <2>6, <3>2, <3>3
  <2>7. CASE Res[p] \notin Component(rg, a)
    <3>1. Component(rg2, Res[p]) = Component(rg, Res[p]) /\ Res[p] \notin split
      BY <1>3, <2>1, <2>4, <2>7
    <3>2. Res[q] \in split => Res[q] \notin Component(rg, Res[p])
      <4> SUFFICES ASSUME Res[q] \in split, Res[q] \in Component(rg, Res[p]) PROVE FALSE
        OBVIOUS
      <4>1. Res[q] \in Component(rg, a)
        BY <1>3, <2>1
      <4>2. Component(rg, Res[q]) = Component(rg, a) /\ Component(rg, Res[q]) = Component(rg, Res[p])
        BY <1>1, <1>6, <2>4, <4>1
      <4> QED BY <1>7, <2>7, <4>2
    <3> QED BY <2>2, <2>3, <3>1, <3>2
  <2> QED BY <2>5, <2>6, <2>7
<1>12. split # {} => Tells(m2, rg2)
  BY <1>11 DEF Tells
<1> HIDE DEF split, m2
<1> QED
  BY <1>1, <1>10, <1>12 DEF split, m2, rg2

-----------------------------------------------------------------------------
(* Nodes that apply the same edges one by one stay in line.                *)

\* A node is behind itself.
LEMMA Level == \A x : Behind(x, x)
<1> TAKE x
<1> DEFINE s == [i \in {0} |-> x]
<1>1. Leads(s, 0, x, x)
  BY DEF Leads
<1> HIDE DEF s
<1> QED
  BY <1>1 DEF Behind

\* there is an edge to apply
Busy(x) == x.del \in SUBSET Bondable /\ x.add \in SUBSET Bondable /\ (x.del # {} \/ x.add # {})

\* With every edge there is less to apply.
LEMMA AfterLess == ASSUME NEW x, Busy(x) PROVE Further(After(x), x)
<1>1. CASE x.del # {}
  <2>1. First(x.del) \in x.del
    BY <1>1, FirstIsOne DEF Busy
  <2>2. After(x).del = x.del \ {First(x.del)} /\ After(x).add = x.add
    BY <1>1 DEF After, Without
  <2> QED BY <2>1, <2>2 DEF Further
<1>2. CASE x.del = {}
  <2>1. First(x.add) \in x.add
    BY <1>2, FirstIsOne DEF Busy
  <2>2. After(x).del = x.del /\ After(x).add = x.add \ {First(x.add)}
    BY <1>2 DEF After, With
  <2> QED BY <2>1, <2>2 DEF Further
<1> QED
  BY <1>1, <1>2

\* When one of two nodes in line applies an edge they are still in line.
LEMMA StepInLine ==
  ASSUME NEW x, NEW y, Busy(x), Behind(x, y) \/ Behind(y, x)
  PROVE  Behind(After(x), y) \/ Behind(y, After(x))
<1>1. Further(After(x), x)
  BY AfterLess
<1>2. CASE Behind(x, y)
  <2>0. PICK k \in Nat : \E s : Leads(s, k, x, y)
    BY <1>2 DEF Behind
  <2>1. PICK s : Leads(s, k, x, y)
    BY <2>0
  <2>2. CASE k = 0
    <3> DEFINE t == [i \in 0 .. 1 |-> IF i = 0 THEN x ELSE After(x)]
    <3>1. x = y
      BY <2>1, <2>2 DEF Leads
    <3>2. \A i \in 0 .. 1 - 1 : i = 0
      OBVIOUS
    <3>3. t[0] = x /\ t[1] = After(x)
      OBVIOUS
    <3> HIDE DEF t
    <3>4. Leads(t, 1, y, After(x))
      BY <1>1, <3>1, <3>2, <3>3 DEF Leads
    <3> QED BY <3>4 DEF Behind
  <2>3. CASE k # 0
    <3> DEFINE t == [i \in 0 .. k - 1 |-> s[i + 1]]
    <3>1. k - 1 \in Nat /\ t[0] = s[1] /\ t[k - 1] = s[k]
      BY <2>3
    <3>2. \A i \in 0 .. (k - 1) - 1 : i \in 0 .. k - 1 /\ i + 1 \in 0 .. k - 1 /\ t[i] = s[i + 1] /\ t[i + 1] = s[(i + 1) + 1]
      BY <2>3
    <3>3. s[1] = After(x) /\ s[k] = y
      <4>1. 0 \in 0 .. k - 1 /\ 0 + 1 = 1
        BY <2>3
      <4> QED BY <2>1, <4>1 DEF Leads
    <3> HIDE DEF t
    <3>4. Leads(t, k - 1, After(x), y)
      BY <2>1, <3>1, <3>2, <3>3 DEF Leads
    <3> QED BY <3>1, <3>4 DEF Behind
  <2> QED BY <2>2, <2>3
<1>3. CASE Behind(y, x)
  <2>0. PICK k \in Nat : \E s : Leads(s, k, y, x)
    BY <1>3 DEF Behind
  <2>1. PICK s : Leads(s, k, y, x)
    BY <2>0
  <2> DEFINE t == [i \in 0 .. k + 1 |-> IF i = k + 1 THEN After(x) ELSE s[i]]
  <2>2. k + 1 \in Nat /\ t[0] = s[0] /\ t[k] = s[k] /\ t[k + 1] = After(x)
    OBVIOUS
  <2>3. \A i \in 0 .. (k + 1) - 1 : t[i] = s[i] /\ (i = k \/ (i \in 0 .. k - 1 /\ t[i + 1] = s[i + 1]))
    OBVIOUS
  <2> HIDE DEF t
  <2>4. \A i \in 0 .. k - 1 : Further(After(x), s[i])
    BY <1>1, <2>1 DEF Leads, Further
  <2>5. Leads(t, k + 1, y, After(x))
    BY <1>1, <2>1, <2>2, <2>3, <2>4 DEF Leads
  <2> QED BY <2>2, <2>5 DEF Behind
<1> QED
  BY <1>2, <1>3

\* Nodes in line that have the same edges to apply are at the same place.
LEMMA SamePlace ==
  ASSUME NEW x, NEW y, Behind(x, y) \/ Behind(y, x), x.del = y.del, x.add = y.add
  PROVE  x = y
<1>1. ASSUME NEW u, NEW v, Behind(u, v), u.del = v.del, u.add = v.add PROVE u = v
  <2>0. PICK k \in Nat : \E s : Leads(s, k, u, v)
    BY <1>1 DEF Behind
  <2>1. PICK s : Leads(s, k, u, v)
    BY <2>0
  <2>2. k = 0
    <3> SUFFICES ASSUME k # 0 PROVE FALSE
      OBVIOUS
    <3>1. 0 \in 0 .. k - 1
      OBVIOUS
    <3> QED BY <1>1, <2>1, <3>1 DEF Leads, Further
  <2> QED BY <2>1, <2>2 DEF Leads
<1> QED
  BY <1>1

-----------------------------------------------------------------------------
(* The start.                                                              *)

\* A largest residue exists, since there are finitely many particles.
LEMMA Largest ==
  ASSUME NEW p \in Id
  PROVE  \E r \in Residue : \A s \in Residue : s <= r
<1> DEFINE Above(r) == {s \in Residue : s > r}
           T == {Cardinality(Above(r)) : r \in Residue}
<1>1. Residue \subseteq Nat /\ Res[p] \in Residue
  BY TopologyAssumption DEF Residue
<1>2. IsFiniteSet(Residue)
  <2>1. Res \in Surjection(Id, Residue)
    BY TopologyAssumption DEF Surjection, Residue
  <2> QED BY <2>1, FS_Surjection, TopologyAssumption
<1>3. \A r \in Residue : Above(r) \in SUBSET Residue
  OBVIOUS
<1>4. \A r \in Residue : IsFiniteSet(Above(r)) /\ Cardinality(Above(r)) \in Nat
  <2> HIDE DEF Above
  <2> QED BY <1>2, <1>3, FS_Subset, FS_CardinalityType
<1>5. PICK c \in T : \A d \in T : ~(<<d, c>> \in OpToRel(<, Nat))
  <2>1. T \subseteq Nat /\ T # {}
    BY <1>1, <1>4
  <2> HIDE DEF T
  <2> QED BY <2>1, NatLessThanWellFounded, WFMin
<1>6. PICK r \in Residue : c = Cardinality(Above(r))
  OBVIOUS
<1>7. ASSUME NEW s \in Residue, s > r PROVE FALSE
  <2>1. Above(s) \in SUBSET Above(r) /\ s \in Above(r) /\ s \notin Above(s)
    <3>1. \A x \in Residue : x \in Nat
      BY <1>1
    <3>2. \A x \in Residue : x > s => x > r
      BY <1>7, <3>1
    <3> QED BY <1>7, <3>1, <3>2
  <2>2. Cardinality(Above(s)) <= Cardinality(Above(r)) /\ Cardinality(Above(r)) # Cardinality(Above(s))
    <3> HIDE DEF Above
    <3> QED BY <1>4, <2>1, FS_Subset
  <2>3. Cardinality(Above(s)) < c /\ Cardinality(Above(s)) \in Nat /\ c \in Nat
    BY <1>4, <1>6, <2>2
  <2>4. Cardinality(Above(s)) \in T
    OBVIOUS
  <2> HIDE DEF Above, T
  <2> QED BY <1>5, <2>3, <2>4 DEF OpToRel
<1> QED
  BY <1>1, <1>7


\* initializeTopology() starts with every residue a molecule.
LEMMA TopoStart == Init => TopoInv
<1> SUFFICES ASSUME Init PROVE TopoInv
  OBVIOUS
<1> DEFINE top == CHOOSE r \in Residue : \A s \in Residue : s <= r
<1>1. \A p \in Id : top \in Nat /\ Res[p] <= top
  <2> TAKE p \in Id
  <2>1. top \in Residue /\ \A s \in Residue : s <= top
    BY Largest
  <2> HIDE DEF top
  <2> QED BY <2>1, TopologyAssumption DEF Residue
<1>2. /\ bonds = [n \in Node |-> {e \in InitBonds : Owner[e[1]] = n}]
      /\ type = [n \in Node |-> InitType] /\ graph = [n \in Node |-> {}]
      /\ resGraph = [n \in Node |-> {}] /\ mid = [n \in Node |-> Res]
      /\ maxMol = [n \in Node |-> top]
      /\ newEdges = [n \in Node |-> {}] /\ removedEdges = [n \in Node |-> {}]
      /\ near = [n \in Node |-> {}]
      /\ gathered = [n \in Node |-> Nothing] /\ toDelete = [n \in Node |-> {}]
      /\ toAdd = [n \in Node |-> InitBonds] /\ pc = [n \in Node |-> "init"]
  BY DEF Init
<1> HIDE DEF top
<1>3. TopoTypes
  <2>1. InitBonds \in SUBSET Bondable /\ Res \in [Id -> Nat]
    BY TopologyAssumption
  <2> QED BY <1>1, <1>2, <2>1 DEF TopoTypes
<1>4. Working /\ Noticed /\ GraphsAgree
  BY <1>2 DEF Working, Noticed, GraphsAgree, Final
<1>5. MoleculesAreComponents
  <2> SUFFICES ASSUME NEW n \in Node
               PROVE  /\ {e \in resGraph[n] : Cardinality(e) = 2} =
                            {ResEdge(e) : e \in {f \in graph[n] : Res[f[1]] # Res[f[2]]}}
                      /\ \A p, q \in Id : mid[n][p] = mid[n][q] <=> Res[q] \in Component(resGraph[n], Res[p])
    BY DEF MoleculesAreComponents
  <2>1. resGraph[n] = {} /\ graph[n] = {} /\ mid[n] = Res
    BY <1>2
  <2>2. \A r \in Residue : Component({}, r) = {r}
    <3> TAKE r \in Residue
    <3>1. Closed({}, {r}) /\ {r} \in SUBSET Residue
      BY DEF Closed
    <3> QED BY <3>1, Smallest
  <2>3. \A p \in Id : Res[p] \in Residue
    BY DEF Residue
  <2>4. \A p, q \in Id : Res[p] = Res[q] <=> Res[q] \in Component({}, Res[p])
    BY <2>2, <2>3
  <2> QED BY <2>1, <2>4
<1>6. InLine
  <2>1. \A m, n \in Node : Replica(m) = Replica(n)
    BY <1>2 DEF Replica
  <2> QED BY <2>1, Level DEF InLine
<1>7. TypesFollow
  BY <1>2, TopologyAssumption DEF TypesFollow, Eventual
<1> QED
  BY <1>3, <1>4, <1>5, <1>6, <1>7 DEF TopoInv

-----------------------------------------------------------------------------
(* Changes that are noted.                                                 *)

\* What only notes changes leaves the replicas of the topology as they are.
LEMMA OnlyNotes ==
  ASSUME TopoInv, UNCHANGED <<graph, molecules, toDelete, toAdd, pc, type, gathered>>,
         TopoTypes', Working', Noticed'
  PROVE  TopoInv'
<1>1. /\ graph' = graph /\ resGraph' = resGraph /\ mid' = mid /\ maxMol' = maxMol
      /\ toDelete' = toDelete /\ toAdd' = toAdd /\ pc' = pc /\ type' = type /\ gathered' = gathered
  BY DEF molecules
<1>2. MoleculesAreComponents'
  BY <1>1 DEF TopoInv, MoleculesAreComponents
<1>3. GraphsAgree'
  BY <1>1 DEF TopoInv, GraphsAgree, Final
<1>4. InLine'
  <2>1. \A n \in Node : Replica(n)' = Replica(n)
    BY <1>1 DEF Replica
  <2> QED BY <2>1 DEF TopoInv, InLine
<1>5. TypesFollow'
  BY <1>1 DEF TopoInv, TypesFollow, Eventual, NewType
<1> QED
  BY <1>2, <1>3, <1>4, <1>5 DEF TopoInv

\* FixedPairList::add() notes a bond that is no edge.
LEMMA AddBondStep == ASSUME TopoInv, NEW n \in Node, NEW e \in Changeable, AddBond(n, e) PROVE TopoInv'
<1>1. TopoTypes /\ Working /\ Noticed
  BY DEF TopoInv
<1>2. e \in Bondable /\ e = <<e[1], e[2]>>
  BY EdgeFacts, TopologyAssumption
<1>3. /\ pc[n] = "run" /\ bonds' = [bonds EXCEPT ![n] = @ \cup {e}]
      /\ graph' = graph /\ resGraph' = resGraph /\ mid' = mid /\ maxMol' = maxMol
      /\ toDelete' = toDelete /\ toAdd' = toAdd /\ pc' = pc /\ type' = type /\ gathered' = gathered
      /\ removedEdges' = removedEdges /\ near' = near
      /\ \/ newEdges' = newEdges
         \/ e \notin graph[n] /\ newEdges' = [newEdges EXCEPT ![n] = @ \cup {e}]
  BY <1>2 DEF AddBond, OnTupleAdded, molecules, Linked
<1>4. TopoTypes'
  BY <1>1, <1>2, <1>3 DEF TopoTypes
<1>5. Working'
  BY <1>1, <1>3 DEF Working, TopoTypes
<1>6. Noticed'
  <2>1. newEdges \in [Node -> SUBSET Bondable] /\ removedEdges \in [Node -> SUBSET Bondable]
    BY <1>1 DEF TopoTypes
  <2> QED BY <1>1, <1>3, <2>1 DEF Noticed
<1> QED
  BY <1>3, <1>4, <1>5, <1>6, OnlyNotes DEF molecules

\* FixedPairList::remove() notes a bond that is an edge.
LEMMA RemoveBondStep == ASSUME TopoInv, NEW n \in Node, NEW e \in Changeable, RemoveBond(n, e) PROVE TopoInv'
<1>1. TopoTypes /\ Working /\ Noticed
  BY DEF TopoInv
<1>2. e \in Bondable /\ e = <<e[1], e[2]>> /\ <<e[2], e[1]>> \notin Bondable
  BY OneOrder, TopologyAssumption
<1>3. /\ pc[n] = "run" /\ bonds' = [bonds EXCEPT ![n] = @ \ {e}]
      /\ graph' = graph /\ resGraph' = resGraph /\ mid' = mid /\ maxMol' = maxMol
      /\ toDelete' = toDelete /\ toAdd' = toAdd /\ pc' = pc /\ type' = type /\ gathered' = gathered
      /\ newEdges' = newEdges /\ near' = near
      /\ \/ removedEdges' = removedEdges
         \/ e \in graph[n] /\ removedEdges' = [removedEdges EXCEPT ![n] = @ \cup {e}]
  <2>1. Linked(graph[n], e[1], e[2]) => e \in graph[n]
    BY <1>1, <1>2 DEF Linked, TopoTypes
  <2> QED BY <2>1 DEF RemoveBond, OnTupleRemoved, molecules
<1>4. TopoTypes'
  <2>1. bonds[n] \ {e} \in SUBSET Bondable /\ removedEdges[n] \cup {e} \in SUBSET Bondable
    BY <1>1, <1>2 DEF TopoTypes
  <2>2. bonds' \in [Node -> SUBSET Bondable]
    BY <1>1, <1>3, <2>1 DEF TopoTypes
  <2>3. removedEdges' \in [Node -> SUBSET Bondable]
    BY <1>1, <1>3, <2>1 DEF TopoTypes
  <2> QED BY <1>1, <1>3, <2>2, <2>3 DEF TopoTypes
<1>5. Working'
  BY <1>1, <1>3 DEF Working, TopoTypes
<1>6. Noticed'
  <2>1. newEdges \in [Node -> SUBSET Bondable] /\ removedEdges \in [Node -> SUBSET Bondable]
    BY <1>1 DEF TopoTypes
  <2> QED BY <1>1, <1>3, <2>1 DEF Noticed
<1> QED
  BY <1>3, <1>4, <1>5, <1>6, OnlyNotes DEF molecules

\* Post-processes note what they find in the present graph.
LEMMA PostProcessStep == ASSUME TopoInv, NEW x \in Roots, PostProcess(x[1], x[2]) PROVE TopoInv'
<1> DEFINE n == x[1]
           r == x[2]
<1>1. TopoTypes /\ Working /\ Noticed
  BY DEF TopoInv
<1>2. n \in Node /\ r \in Id
  BY TopologyAssumption
<1>3. /\ pc[n] = "run" /\ bonds' = bonds
      /\ graph' = graph /\ resGraph' = resGraph /\ mid' = mid /\ maxMol' = maxMol
      /\ toDelete' = toDelete /\ toAdd' = toAdd /\ pc' = pc /\ type' = type /\ gathered' = gathered
      /\ newEdges' = newEdges /\ removedEdges' = removedEdges
      /\ near' = [near EXCEPT ![n] = NearWith(n, r)]
  BY DEF PostProcess, molecules
<1>4. ASSUME NEW t \in NearWith(n, r), t \notin near[n]
      PROVE  t \in Id \X (1 .. 2) \X Id /\ t[3] \in AtDistance(graph[n], t[1], t[2])
  <2>1. PICK k \in DOMAIN LevelRule : t \in {<<r, k[1], y>> : y \in AtDistance(graph[n], r, k[1])}
    BY <1>4 DEF NearWith
  <2>2. PICK y \in AtDistance(graph[n], r, k[1]) : t = <<r, k[1], y>>
    BY <2>1
  <2>3. k[1] \in 1 .. 2
    BY TopologyAssumption
  <2>4. y \in Id
    <3>1. AtDistance(graph[n], r, k[1]) \subseteq Id
      BY DEF AtDistance, Nbrs
    <3> QED BY <3>1
  <2> QED BY <1>2, <2>2, <2>3, <2>4
<1> HIDE DEF n, r
<1>5. near[n] \subseteq Id \X (1 .. 2) \X Id
  BY <1>1, <1>2 DEF TopoTypes
<1>6. NearWith(n, r) \subseteq Id \X (1 .. 2) \X Id
  BY <1>4, <1>5
<1>7. TopoTypes'
  BY <1>1, <1>2, <1>3, <1>6 DEF TopoTypes
<1>8. Working'
  BY <1>1, <1>2, <1>3 DEF Working, TopoTypes
<1>9. Noticed'
  <2> SUFFICES ASSUME NEW m \in Node, pc[m] = "run"
               PROVE  /\ removedEdges[m] \subseteq graph[m] /\ newEdges[m] \cap graph[m] = {}
                      /\ \A t \in near'[m] : t[3] \in AtDistance(graph[m], t[1], t[2])
    BY <1>3 DEF Noticed
  <2>1. m # n => near'[m] = near[m]
    BY <1>1, <1>2, <1>3 DEF TopoTypes
  <2>2. m = n => near'[m] = NearWith(n, r)
    BY <1>1, <1>2, <1>3 DEF TopoTypes
  <2>3. CASE m # n
    BY <1>1, <2>1, <2>3 DEF Noticed
  <2>4. CASE m = n
    BY <1>1, <1>4, <2>2, <2>4 DEF Noticed
  <2> QED BY <2>3, <2>4
<1> QED
  BY <1>3, <1>7, <1>8, <1>9, OnlyNotes DEF molecules

-----------------------------------------------------------------------------
(* What was gathered is applied.                                           *)

\* A node that applies an edge stays in line with the others.
LEMMA AppliedInLine ==
  ASSUME InLine, NEW n \in Node, Busy(Replica(n)), Replica(n)' = After(Replica(n)),
         \A m \in Node \ {n} : Replica(m)' = Replica(m)
  PROVE  InLine'
<1>1. SUFFICES ASSUME NEW l \in Node, NEW m \in Node
               PROVE  Behind(Replica(l)', Replica(m)') \/ Behind(Replica(m)', Replica(l)')
  BY DEF InLine
<1>2. CASE l = n /\ m = n
  BY <1>2, Level
<1>3. CASE l # n /\ m # n
  BY <1>3 DEF InLine
<1>4. ASSUME NEW k \in Node \ {n}
      PROVE  Behind(Replica(n)', Replica(k)') \/ Behind(Replica(k)', Replica(n)')
  <2>1. Behind(Replica(n), Replica(k)) \/ Behind(Replica(k), Replica(n))
    BY DEF InLine
  <2>2. Behind(After(Replica(n)), Replica(k)) \/ Behind(Replica(k), After(Replica(n)))
    BY <2>1, StepInLine
  <2> QED BY <2>2
<1> QED
  BY <1>2, <1>3, <1>4

\* What MoleculesAreComponents says of one node.
LEMMA MoleculesOf ==
  MoleculesAreComponents <=>
    \A n \in Node : pc[n] # "failed" => Mirrors(resGraph[n], graph[n]) /\ Tells(mid[n], resGraph[n])
  BY DEF MoleculesAreComponents, Mirrors, Tells

\* The ends of an edge have the same molecule.
LEMMA SameMolecule ==
  ASSUME NEW rg \in SUBSET SUBSET Residue, NEW g \in SUBSET Bondable, NEW m, NEW e \in g,
         Mirrors(rg, g), Tells(m, rg)
  PROVE  m[e[1]] = m[e[2]] /\ (Res[e[1]] # Res[e[2]] => ResEdge(e) \in rg)
<1>1. /\ e[1] \in Id /\ e[2] \in Id /\ Res[e[1]] \in Residue /\ Res[e[2]] \in Residue
      /\ ResEdge(e) = {Res[e[1]], Res[e[2]]}
  BY EdgeFacts
<1>2. ASSUME Res[e[1]] # Res[e[2]] PROVE ResEdge(e) \in rg
  <2>1. ResEdge(e) \in {ResEdge(d) : d \in {f \in g : Res[f[1]] # Res[f[2]]}}
    BY <1>2
  <2> QED BY <2>1 DEF Mirrors
<1>3. Res[e[2]] \in Component(rg, Res[e[1]])
  <2>1. Closed(rg, Component(rg, Res[e[1]])) /\ Res[e[1]] \in Component(rg, Res[e[1]])
    BY <1>1, Smallest
  <2>2. CASE Res[e[1]] = Res[e[2]]
    BY <2>1, <2>2
  <2>3. CASE Res[e[1]] # Res[e[2]]
    BY <1>1, <1>2, <2>1, <2>3 DEF Closed
  <2> QED BY <2>2, <2>3
<1> QED
  BY <1>1, <1>2, <1>3 DEF Tells

\* Without an edge that no other bond mirrors the graphs still correspond.
LEMMA MirrorsWithout ==
  ASSUME NEW rg \in SUBSET SUBSET Residue, NEW g \in SUBSET Bondable, NEW e \in g, Mirrors(rg, g)
  PROVE  /\ Res[e[1]] = Res[e[2]] => Mirrors(rg, g \ {e})
         /\ (\E f \in g \ {e} : ResEdge(f) = ResEdge(e)) => Mirrors(rg, g \ {e})
         /\ Res[e[1]] # Res[e[2]] /\ ~(\E f \in g \ {e} : ResEdge(f) = ResEdge(e))
              => Mirrors(rg \ {ResEdge(e)}, g \ {e})
<1> DEFINE Between(h) == {ResEdge(d) : d \in {f \in h : Res[f[1]] # Res[f[2]]}}
<1>1. {d \in rg : Cardinality(d) = 2} = Between(g)
  BY DEF Mirrors
<1>2. CASE Res[e[1]] = Res[e[2]]
  <2>1. Between(g \ {e}) = Between(g)
    BY <1>2
  <2> QED BY <1>1, <1>2, <2>1 DEF Mirrors
<1>3. \A f \in Bondable : Cardinality(ResEdge(f)) = 2 <=> Res[f[1]] # Res[f[2]]
  BY EdgeFacts
<1>4. CASE Res[e[1]] # Res[e[2]] /\ \E f \in g \ {e} : ResEdge(f) = ResEdge(e)
  <2>1. PICK f \in g \ {e} : ResEdge(f) = ResEdge(e)
    BY <1>4
  <2>2. Res[f[1]] # Res[f[2]]
    BY <1>3, <1>4, <2>1
  <2>3. Between(g \ {e}) = Between(g)
    BY <2>1, <2>2
  <2> QED BY <1>1, <1>4, <2>3 DEF Mirrors
<1>5. CASE Res[e[1]] # Res[e[2]] /\ ~\E f \in g \ {e} : ResEdge(f) = ResEdge(e)
  <2>1. Between(g \ {e}) = Between(g) \ {ResEdge(e)}
    BY <1>5
  <2>2. {d \in rg \ {ResEdge(e)} : Cardinality(d) = 2} = Between(g) \ {ResEdge(e)}
    BY <1>1
  <2> QED BY <1>5, <2>1, <2>2 DEF Mirrors
<1> QED
  BY <1>2, <1>4, <1>5

\* A new bond is mirrored by an edge between its residues.
LEMMA MirrorsWith ==
  ASSUME NEW rg \in SUBSET SUBSET Residue, NEW g \in SUBSET Bondable, NEW e \in Bondable, Mirrors(rg, g)
  PROVE  Mirrors(rg \cup {ResEdge(e)}, g \cup {e})
<1> DEFINE Between(h) == {ResEdge(d) : d \in {f \in h : Res[f[1]] # Res[f[2]]}}
<1>1. {d \in rg : Cardinality(d) = 2} = Between(g)
  BY DEF Mirrors
<1>2. Cardinality(ResEdge(e)) = 2 <=> Res[e[1]] # Res[e[2]]
  BY EdgeFacts
<1>3. Between(g \cup {e}) = IF Res[e[1]] # Res[e[2]] THEN Between(g) \cup {ResEdge(e)} ELSE Between(g)
  OBVIOUS
<1>4. {d \in rg \cup {ResEdge(e)} : Cardinality(d) = 2} =
         IF Res[e[1]] # Res[e[2]] THEN Between(g) \cup {ResEdge(e)} ELSE Between(g)
  BY <1>1, <1>2
<1> QED
  BY <1>3, <1>4 DEF Mirrors

\* deleteEdge() finds one molecule at both ends, and splits it if it has to.
LEMMA DeleteEdgeStep == ASSUME TopoInv, NEW n \in Node, DeleteEdge(n) PROVE TopoInv'
<1> DEFINE e == First(toDelete[n])
           g == graph[n] \ {e}
           held == \E f \in g : ResEdge(f) = ResEdge(e)
           inside == Cardinality(ResEdge(e)) = 1
           rg == resGraph[n] \ {ResEdge(e)}
           split == SplitOff(n, e, g)
           res2 == IF inside \/ held THEN resGraph[n] ELSE rg
           max2 == IF inside \/ split = {} THEN maxMol[n] ELSE maxMol[n] + 1
           mid2 == IF inside \/ split = {} THEN mid[n]
                   ELSE [p \in Id |-> IF Res[p] \in split THEN maxMol[n] + 1 ELSE mid[n][p]]
<1>1. TopoTypes /\ Working /\ Noticed /\ GraphsAgree /\ InLine /\ TypesFollow
  BY DEF TopoInv
<1>2. Mirrors(resGraph[n], graph[n]) /\ Tells(mid[n], resGraph[n])
  BY <1>1, MoleculesOf DEF TopoInv, Working
<1>3. e \in toDelete[n] /\ e \in graph[n] /\ e \in Bondable
  <2>1. toDelete[n] \in SUBSET Bondable /\ toDelete[n] # {} /\ toDelete[n] \subseteq graph[n]
    BY <1>1 DEF DeleteEdge, TopoTypes, Working
  <2> QED BY <2>1, FirstIsOne
<1>4. /\ e[1] \in Id /\ e[2] \in Id /\ Res[e[1]] \in Residue /\ Res[e[2]] \in Residue
      /\ inside <=> Res[e[1]] = Res[e[2]]
  BY <1>3, EdgeFacts
<1>5. /\ resGraph[n] \in SUBSET SUBSET Residue /\ graph[n] \in SUBSET Bondable /\ mid[n] \in [Id -> Nat]
      /\ maxMol[n] \in Nat /\ \A p \in Id : mid[n][p] <= maxMol[n]
  BY <1>1, <1>4 DEF TopoTypes
<1>6. mid[n][e[1]] = mid[n][e[2]] /\ (~inside => ResEdge(e) \in resGraph[n])
  <2> HIDE DEF e
  <2> QED BY <1>2, <1>3, <1>4, <1>5, SameMolecule
<1>7. /\ pc[n] = "apply" /\ toDelete[n] # {} /\ pc' = pc
      /\ bonds' = [bonds EXCEPT ![n] = IF Drops(n, e) THEN bonds[n] \ {e} ELSE bonds[n]]
      /\ graph' = [graph EXCEPT ![n] = g] /\ toDelete' = [toDelete EXCEPT ![n] = toDelete[n] \ {e}]
      /\ type' = type /\ gathered' = gathered /\ toAdd' = toAdd
      /\ newEdges' = newEdges /\ removedEdges' = removedEdges /\ near' = near
  BY <1>6 DEF DeleteEdge, noted
<1>8. resGraph' = [resGraph EXCEPT ![n] = res2]
  BY <1>6 DEF DeleteEdge
<1>9. maxMol' = [maxMol EXCEPT ![n] = max2] /\ mid' = [mid EXCEPT ![n] = mid2]
  <2>1. CASE inside \/ split = {}
    <3>1. maxMol' = maxMol /\ mid' = mid
      BY <1>6, <2>1 DEF DeleteEdge
    <3>2. max2 = maxMol[n] /\ mid2 = mid[n]
      BY <2>1
    <3> HIDE DEF max2, mid2
    <3> QED BY <1>1, <3>1, <3>2 DEF TopoTypes
  <2>2. CASE ~(inside \/ split = {})
    <3>1. /\ maxMol' = [maxMol EXCEPT ![n] = maxMol[n] + 1]
          /\ mid' = [mid EXCEPT ![n] = [p \in Id |-> IF Res[p] \in split THEN maxMol[n] + 1 ELSE mid[n][p]]]
      BY <1>6, <2>2 DEF DeleteEdge
    <3>2. /\ max2 = maxMol[n] + 1
          /\ mid2 = [p \in Id |-> IF Res[p] \in split THEN maxMol[n] + 1 ELSE mid[n][p]]
      BY <2>2
    <3> QED BY <3>1, <3>2
  <2> QED BY <2>1, <2>2
<1>10. /\ res2 \in SUBSET SUBSET Residue /\ max2 \in Nat /\ mid2 \in [Id -> Nat]
       /\ \A p \in Id : mid2[p] <= max2
  BY <1>5
<1>11. split = IF held THEN {} ELSE Component(rg, Res[e[1]]) \ Component(rg, Res[e[2]])
  BY DEF SplitOff
<1>12. Mirrors(res2, g)
  <2>1. /\ Res[e[1]] = Res[e[2]] => Mirrors(resGraph[n], g)
        /\ held => Mirrors(resGraph[n], g)
        /\ Res[e[1]] # Res[e[2]] /\ ~held => Mirrors(rg, g)
    <3> HIDE DEF e
    <3> QED BY <1>2, <1>3, <1>5, MirrorsWithout
  <2> HIDE DEF held, inside, g, rg, e
  <2> QED BY <1>4, <2>1
<1>13. Tells(mid2, res2)
  <2>1. CASE inside \/ held
    BY <1>2, <1>11, <2>1
  <2>2. CASE ~(inside \/ held)
    <3>1. /\ split = {} => Tells(mid[n], rg)
          /\ split # {} => Tells([p \in Id |-> IF Res[p] \in split THEN maxMol[n] + 1 ELSE mid[n][p]], rg)
      <4>1. split = Component(rg, Res[e[1]]) \ Component(rg, Res[e[2]])
        BY <1>11, <2>2
      <4>2. ResEdge(e) \in resGraph[n]
        BY <1>6, <2>2
      <4> HIDE DEF e, split
      <4>3. LET rg2 == resGraph[n] \ {ResEdge(e)}
                split2 == Component(rg2, Res[e[1]]) \ Component(rg2, Res[e[2]])
            IN  /\ split2 = {} => Tells(mid[n], rg2)
                /\ split2 # {} => Tells([p \in Id |-> IF Res[p] \in split2 THEN maxMol[n] + 1 ELSE mid[n][p]], rg2)
        BY <1>2, <1>3, <1>5, <4>2, SplitTells
      <4> QED BY <4>1, <4>3
    <3> QED BY <2>2, <3>1
  <2> QED BY <2>1, <2>2
<1>14. Replica(n)' = After(Replica(n)) /\ Busy(Replica(n))
  <2>1. Replica(n)' = [graph |-> g, res |-> res2, mid |-> mid2, max |-> max2,
                       del |-> toDelete[n] \ {e}, add |-> toAdd[n]]
    <3> HIDE DEF e, g, res2, mid2, max2
    <3> QED BY <1>1, <1>7, <1>8, <1>9 DEF Replica, TopoTypes
  <2>2. After(Replica(n)) = Without(Replica(n), e)
    BY <1>7 DEF After, Replica
  <2>3. Without(Replica(n), e) = [graph |-> g, res |-> res2, mid |-> mid2, max |-> max2,
                                  del |-> toDelete[n] \ {e}, add |-> toAdd[n]]
    BY <1>11 DEF Without, Replica
  <2>4. Busy(Replica(n))
    BY <1>1, <1>7 DEF Busy, Replica, TopoTypes
  <2> QED BY <2>1, <2>2, <2>3, <2>4
<1> HIDE DEF e, g, held, inside, rg, split, res2, max2, mid2
<1>15. InLine'
  <2>1. \A m \in Node \ {n} : Replica(m)' = Replica(m)
    BY <1>1, <1>7, <1>8, <1>9 DEF Replica, TopoTypes
  <2> QED BY <1>1, <1>14, <2>1, AppliedInLine
<1>16. TopoTypes'
  <2>1. bonds' \in [Node -> SUBSET Bondable]
    <3>1. bonds[n] \ {e} \in SUBSET Bondable /\ bonds[n] \in SUBSET Bondable
      BY <1>1 DEF TopoTypes
    <3> QED BY <1>1, <1>7, <3>1 DEF TopoTypes
  <2>2. graph' \in [Node -> SUBSET Bondable] /\ toDelete' \in [Node -> SUBSET Bondable]
    <3>1. g \in SUBSET Bondable /\ toDelete[n] \ {e} \in SUBSET Bondable
      BY <1>1 DEF TopoTypes, g
    <3> QED BY <1>1, <1>7, <3>1 DEF TopoTypes
  <2>3. resGraph' \in [Node -> SUBSET SUBSET Residue]
    BY <1>1, <1>8, <1>10 DEF TopoTypes
  <2>4. mid' \in [Node -> [Id -> Nat]] /\ maxMol' = [m \in Node |-> maxMol'[m]]
    BY <1>1, <1>9, <1>10 DEF TopoTypes
  <2>5. ASSUME NEW m \in Node, NEW p \in Id PROVE maxMol'[m] \in Nat /\ mid'[m][p] <= maxMol'[m]
    BY <1>1, <1>9, <1>10 DEF TopoTypes
  <2> QED BY <1>1, <1>7, <2>1, <2>2, <2>3, <2>4, <2>5 DEF TopoTypes
<1>17. Working'
  <2>1. toDelete[n] \ {e} \subseteq g
    BY <1>1 DEF Working, g
  <2> QED BY <1>1, <1>7, <2>1 DEF Working, TopoTypes
<1>18. Noticed'
  BY <1>1, <1>7 DEF Noticed, TopoTypes
<1>19. MoleculesAreComponents'
  <2>1. \A m \in Node : pc'[m] # "failed" => Mirrors(resGraph'[m], graph'[m]) /\ Tells(mid'[m], resGraph'[m])
    <3> TAKE m \in Node
    <3>1. CASE m = n
      BY <1>1, <1>7, <1>8, <1>9, <1>12, <1>13, <3>1 DEF TopoTypes
    <3>2. CASE m # n
      <4>1. resGraph'[m] = resGraph[m] /\ graph'[m] = graph[m] /\ mid'[m] = mid[m] /\ pc'[m] = pc[m]
        BY <1>1, <1>7, <1>8, <1>9, <3>2 DEF TopoTypes
      <4> QED BY <4>1, MoleculesOf DEF TopoInv
    <3> QED BY <3>1, <3>2
  <2>2. MoleculesAreComponents' <=>
          \A m \in Node : pc'[m] # "failed" => Mirrors(resGraph'[m], graph'[m]) /\ Tells(mid'[m], resGraph'[m])
    BY DEF MoleculesAreComponents, Mirrors, Tells
  <2> QED BY <2>1, <2>2
<1>20. GraphsAgree'
  <2>1. \A m \in Node : Final(m)' = Final(m)
    <3> TAKE m \in Node
    <3>1. CASE m = n
      <4>1. Final(n)' = (g \ (toDelete[n] \ {e})) \cup toAdd[n]
        BY <1>1, <1>7 DEF Final, TopoTypes
      <4> QED BY <1>3, <3>1, <4>1 DEF Final, g
    <3>2. CASE m # n
      BY <1>1, <1>7, <3>2 DEF Final, TopoTypes
    <3> QED BY <3>1, <3>2
  <2> QED BY <1>1, <2>1 DEF GraphsAgree
<1>21. TypesFollow'
  BY <1>1, <1>7 DEF TypesFollow, Eventual, NewType
<1> QED
  BY <1>15, <1>16, <1>17, <1>18, <1>19, <1>20, <1>21 DEF TopoInv

\* newEdge() joins the molecules of its ends.
LEMMA NewEdgeStep == ASSUME TopoInv, NEW n \in Node, NewEdge(n) PROVE TopoInv'
<1> DEFINE e == First(toAdd[n])
           g == graph[n] \cup {e}
           res2 == resGraph[n] \cup {ResEdge(e)}
           mid2 == Merge(n, e)
<1>1. TopoTypes /\ Working /\ Noticed /\ GraphsAgree /\ InLine /\ TypesFollow
  BY DEF TopoInv
<1>2. Mirrors(resGraph[n], graph[n]) /\ Tells(mid[n], resGraph[n])
  BY <1>1, MoleculesOf DEF TopoInv, Working
<1>3. e \in toAdd[n] /\ e \in Bondable /\ toDelete[n] = {}
  <2>1. toAdd[n] \in SUBSET Bondable /\ toAdd[n] # {} /\ toDelete[n] = {}
    BY <1>1 DEF NewEdge, TopoTypes
  <2> QED BY <2>1, FirstIsOne
<1>4. e[1] \in Id /\ e[2] \in Id /\ ResEdge(e) \in SUBSET Residue
  BY <1>3, EdgeFacts
<1>5. /\ resGraph[n] \in SUBSET SUBSET Residue /\ graph[n] \in SUBSET Bondable /\ mid[n] \in [Id -> Nat]
      /\ maxMol[n] \in Nat /\ \A p \in Id : mid[n][p] <= maxMol[n]
  BY <1>1, <1>4 DEF TopoTypes
<1>6. /\ pc[n] \in {"init", "apply"} /\ pc' = pc /\ bonds' = bonds /\ maxMol' = maxMol
      /\ graph' = [graph EXCEPT ![n] = g] /\ resGraph' = [resGraph EXCEPT ![n] = res2]
      /\ mid' = [mid EXCEPT ![n] = mid2] /\ toAdd' = [toAdd EXCEPT ![n] = toAdd[n] \ {e}]
      /\ type' = type /\ gathered' = gathered /\ toDelete' = toDelete
      /\ newEdges' = newEdges /\ removedEdges' = removedEdges /\ near' = near
  BY DEF NewEdge, noted
<1>7. mid2 = [p \in Id |-> IF mid[n][p] = mid[n][e[2]] THEN mid[n][e[1]] ELSE mid[n][p]]
  BY DEF Merge
<1>8. /\ res2 \in SUBSET SUBSET Residue /\ mid2 \in [Id -> Nat]
      /\ \A p \in Id : mid2[p] <= maxMol[n]
  <2> HIDE DEF mid2, e
  <2> QED BY <1>4, <1>5, <1>7
<1>9. Mirrors(res2, g)
  <2> HIDE DEF e
  <2> QED BY <1>2, <1>3, <1>5, MirrorsWith
<1>10. Tells(mid2, res2)
  <2> HIDE DEF e
  <2>1. Tells([p \in Id |-> IF mid[n][p] = mid[n][e[2]] THEN mid[n][e[1]] ELSE mid[n][p]], resGraph[n] \cup {ResEdge(e)})
    BY <1>2, <1>3, <1>5, MergeTells
  <2> QED BY <1>7, <2>1
<1>11. Replica(n)' = After(Replica(n)) /\ Busy(Replica(n))
  <2>1. Replica(n)' = [graph |-> g, res |-> res2, mid |-> mid2, max |-> maxMol[n],
                       del |-> toDelete[n], add |-> toAdd[n] \ {e}]
    <3> HIDE DEF e, g, res2, mid2
    <3> QED BY <1>1, <1>6 DEF Replica, TopoTypes
  <2>2. After(Replica(n)) = With(Replica(n), e)
    BY <1>3 DEF After, Replica
  <2>3. With(Replica(n), e) = [graph |-> g, res |-> res2, mid |-> mid2, max |-> maxMol[n],
                               del |-> toDelete[n], add |-> toAdd[n] \ {e}]
    BY <1>7 DEF With, Replica
  <2>4. Busy(Replica(n))
    BY <1>1, <1>3 DEF Busy, Replica, TopoTypes
  <2> QED BY <2>1, <2>2, <2>3, <2>4
<1> HIDE DEF e, g, res2, mid2
<1>12. InLine'
  <2>1. \A m \in Node \ {n} : Replica(m)' = Replica(m)
    BY <1>1, <1>6 DEF Replica, TopoTypes
  <2> QED BY <1>1, <1>11, <2>1, AppliedInLine
<1>13. TopoTypes'
  <2>1. graph' \in [Node -> SUBSET Bondable]
    <3>1. g \in SUBSET Bondable
      BY <1>3, <1>5 DEF g
    <3> QED BY <1>1, <1>6, <3>1 DEF TopoTypes
  <2>2. toAdd' \in [Node -> SUBSET Bondable]
    <3>1. toAdd[n] \ {e} \in SUBSET Bondable
      BY <1>1 DEF TopoTypes
    <3> QED BY <1>1, <1>6, <3>1 DEF TopoTypes
  <2>3. resGraph' \in [Node -> SUBSET SUBSET Residue]
    BY <1>1, <1>6, <1>8 DEF TopoTypes
  <2>4. mid' \in [Node -> [Id -> Nat]]
    BY <1>1, <1>6, <1>8 DEF TopoTypes
  <2>5. ASSUME NEW m \in Node, NEW p \in Id PROVE maxMol'[m] \in Nat /\ mid'[m][p] <= maxMol'[m]
    BY <1>1, <1>6, <1>8 DEF TopoTypes
  <2> QED BY <1>1, <1>6, <2>1, <2>2, <2>3, <2>4, <2>5 DEF TopoTypes
<1>14. Working'
  BY <1>1, <1>3, <1>6 DEF Working, TopoTypes
<1>15. Noticed'
  BY <1>1, <1>6 DEF Noticed, TopoTypes
<1>16. MoleculesAreComponents'
  <2>1. \A m \in Node : pc'[m] # "failed" => Mirrors(resGraph'[m], graph'[m]) /\ Tells(mid'[m], resGraph'[m])
    <3> TAKE m \in Node
    <3>1. CASE m = n
      BY <1>1, <1>6, <1>9, <1>10, <3>1 DEF TopoTypes
    <3>2. CASE m # n
      <4>1. resGraph'[m] = resGraph[m] /\ graph'[m] = graph[m] /\ mid'[m] = mid[m] /\ pc'[m] = pc[m]
        BY <1>1, <1>6, <3>2 DEF TopoTypes
      <4> QED BY <4>1, MoleculesOf DEF TopoInv
    <3> QED BY <3>1, <3>2
  <2>2. MoleculesAreComponents' <=>
          \A m \in Node : pc'[m] # "failed" => Mirrors(resGraph'[m], graph'[m]) /\ Tells(mid'[m], resGraph'[m])
    BY DEF MoleculesAreComponents, Mirrors, Tells
  <2> QED BY <2>1, <2>2
<1>17. GraphsAgree'
  <2>1. \A m \in Node : Final(m)' = Final(m)
    <3> TAKE m \in Node
    <3>1. CASE m = n
      <4>1. Final(n)' = (g \ toDelete[n]) \cup (toAdd[n] \ {e})
        BY <1>1, <1>6 DEF Final, TopoTypes
      <4> QED BY <1>3, <3>1, <4>1 DEF Final, g
    <3>2. CASE m # n
      BY <1>1, <1>6, <3>2 DEF Final, TopoTypes
    <3> QED BY <3>1, <3>2
  <2> QED BY <1>1, <2>1 DEF GraphsAgree
<1>18. TypesFollow'
  BY <1>1, <1>6 DEF TypesFollow, Eventual, NewType
<1> QED
  BY <1>12, <1>13, <1>14, <1>15, <1>16, <1>17, <1>18 DEF TopoInv

\* When a node has applied all edges it starts to run.
LEMMA EndsApplying ==
  ASSUME TopoInv, NEW n \in Node, toDelete[n] = {}, toAdd[n] = {}, pc' = [pc EXCEPT ![n] = "run"],
         bonds' = bonds, graph' = graph, UNCHANGED molecules, toDelete' = toDelete, toAdd' = toAdd,
         TopoTypes', TypesFollow',
         newEdges'[n] = {} /\ removedEdges'[n] = {} /\ near'[n] = {},
         \A m \in Node \ {n} : newEdges'[m] = newEdges[m] /\ removedEdges'[m] = removedEdges[m] /\ near'[m] = near[m]
  PROVE  TopoInv'
<1>1. TopoTypes /\ Working /\ Noticed /\ GraphsAgree /\ InLine /\ MoleculesAreComponents
  BY DEF TopoInv
<1>2. resGraph' = resGraph /\ mid' = mid /\ maxMol' = maxMol
  BY DEF molecules
<1>3. pc'[n] = "run" /\ \A m \in Node \ {n} : pc'[m] = pc[m]
  BY <1>1 DEF TopoTypes
<1>4. Working'
  BY <1>1, <1>3 DEF Working
<1>5. Noticed'
  BY <1>1, <1>3 DEF Noticed
<1>6. GraphsAgree'
  BY <1>1 DEF GraphsAgree, Final
<1>7. InLine'
  <2>1. \A m \in Node : Replica(m)' = Replica(m)
    BY <1>2 DEF Replica
  <2> QED BY <1>1, <2>1 DEF InLine
<1>8. MoleculesAreComponents'
  BY <1>1, <1>2, <1>3 DEF MoleculesAreComponents, Working
<1> QED
  BY <1>4, <1>5, <1>6, <1>7, <1>8 DEF TopoInv

\* initializeTopology() ends with nothing noted.
LEMMA InitializedStep == ASSUME TopoInv, NEW n \in Node, Initialized(n) PROVE TopoInv'
<1>1. TopoTypes /\ Working /\ TypesFollow
  BY DEF TopoInv
<1>2. /\ pc[n] = "init" /\ toAdd[n] = {} /\ pc' = [pc EXCEPT ![n] = "run"]
      /\ bonds' = bonds /\ type' = type /\ graph' = graph /\ UNCHANGED molecules
      /\ newEdges' = newEdges /\ removedEdges' = removedEdges /\ near' = near
      /\ gathered' = gathered /\ toDelete' = toDelete /\ toAdd' = toAdd
  BY DEF Initialized
<1>3. toDelete[n] = {} /\ newEdges[n] = {} /\ removedEdges[n] = {} /\ near[n] = {}
  BY <1>1, <1>2 DEF Working
<1>4. TopoTypes'
  BY <1>1, <1>2 DEF TopoTypes, molecules
<1>5. TypesFollow'
  <2>1. \A m \in Node : pc'[m] = "apply" <=> pc[m] = "apply"
    BY <1>1, <1>2 DEF TopoTypes
  <2>2. \A p \in Id : Owner[p] \in Node
    BY TopologyAssumption
  <2>3. \A m \in Node : Sees[m] \subseteq Id
    BY TopologyAssumption
  <2>4. \A m \in Node : \A p \in Id : Eventual(m, p)' = Eventual(m, p)
    BY <1>2, <2>1 DEF Eventual, NewType
  <2> QED BY <1>1, <2>2, <2>3, <2>4 DEF TypesFollow
<1> QED
  BY <1>2, <1>3, <1>4, <1>5, EndsApplying

\* At the end of exchangeData() copies have the types all nodes decided on.
LEMMA FinishStep == ASSUME TopoInv, NEW n \in Node, Finish(n) PROVE TopoInv'
<1>1. TopoTypes /\ Working /\ TypesFollow
  BY DEF TopoInv
<1>2. /\ pc[n] = "apply" /\ toDelete[n] = {} /\ toAdd[n] = {} /\ pc' = [pc EXCEPT ![n] = "run"]
      /\ type' = [type EXCEPT ![n] = [p \in Id |-> IF Changed(n, p) THEN NewType(n, p) ELSE @[p]]]
      /\ bonds' = bonds /\ graph' = graph /\ UNCHANGED molecules
      /\ newEdges' = [newEdges EXCEPT ![n] = {}] /\ removedEdges' = [removedEdges EXCEPT ![n] = {}]
      /\ near' = [near EXCEPT ![n] = {}] /\ gathered' = [gathered EXCEPT ![n] = Nothing]
      /\ toDelete' = toDelete /\ toAdd' = toAdd
  BY DEF Finish
<1>3. /\ newEdges'[n] = {} /\ removedEdges'[n] = {} /\ near'[n] = {}
      /\ \A m \in Node \ {n} : newEdges'[m] = newEdges[m] /\ removedEdges'[m] = removedEdges[m] /\ near'[m] = near[m]
  BY <1>1, <1>2 DEF TopoTypes
<1>4. TopoTypes'
  BY <1>1, <1>2 DEF TopoTypes, molecules
<1>5. TypesFollow'
  <2>1. pc'[n] = "run" /\ \A m \in Node \ {n} : pc'[m] = pc[m] /\ type'[m] = type[m] /\ gathered'[m] = gathered[m]
    BY <1>1, <1>2 DEF TopoTypes
  <2>2. \A p \in Sees[n] : p \in Id /\ type'[n][p] = NewType(n, p)
    BY <1>1, <1>2, TopologyAssumption DEF TopoTypes, Changed
  <2>3. \A m \in Node : \A p \in Sees[m] : Eventual(m, p)' = Eventual(m, p)
    <3> TAKE m \in Node
    <3> TAKE p \in Sees[m]
    <3>1. CASE m = n
      BY <1>2, <2>1, <2>2, <3>1 DEF Eventual
    <3>2. CASE m # n
      BY <2>1, <3>2 DEF Eventual, NewType
    <3> QED BY <3>1, <3>2
  <2>4. \A m \in Node : \A p \in Sees[m] : Owner[p] \in Node /\ p \in Sees[Owner[p]]
    BY TopologyAssumption
  <2> QED BY <1>1, <2>3, <2>4 DEF TypesFollow
<1> QED
  BY <1>2, <1>3, <1>4, <1>5, EndsApplying

-----------------------------------------------------------------------------
(* exchangeData() gathers.                                                 *)

\* Two particles that are bonded are the ends of an edge.
LEMMA LinkedIsEdge ==
  ASSUME NEW g \in SUBSET Bondable, NEW p, NEW q, Linked(g, p, q)
  PROVE  Ordered(<<p, q>>) \in g /\ Linked(g, q, p) /\ p \in Id /\ q \in Id
<1>1. CASE <<p, q>> \in g
  <2>1. p < q /\ p \in Id /\ q \in Id
    BY <1>1, EdgeFacts
  <2> QED BY <1>1, <2>1 DEF Ordered, Linked
<1>2. CASE <<q, p>> \in g
  <2>1. q < p /\ q \in Nat /\ p \in Nat /\ q \in Id /\ p \in Id
    BY <1>2, EdgeFacts
  <2>2. ~(p < q)
    BY <2>1
  <2>3. Ordered(<<p, q>>) = <<q, p>>
    BY <2>2 DEF Ordered
  <2> QED BY <1>2, <2>1, <2>3 DEF Linked
<1> QED
  BY <1>1, <1>2 DEF Linked

\* What removeNeighbourEdges() finds around a root are edges of its graph.
LEMMA FoundAreEdges ==
  ASSUME TopoTypes, NEW n \in Node, NEW r PROVE NeighbourEdges(n, r) \subseteq graph[n]
<1> DEFINE g == graph[n]
           parent(x, d) == IF d = 1 THEN r
                           ELSE CHOOSE y \in Nbrs(g, r) \cap Nbrs(g, x) :
                                  \A z \in Nbrs(g, r) \cap Nbrs(g, x) : y <= z
<1>1. g \in SUBSET Bondable
  BY DEF TopoTypes
<1>2. ASSUME NEW x \in Id, NEW d \in 1 .. 2, x \in AtDistance(g, r, d) PROVE Linked(g, parent(x, d), x)
  <2>1. CASE d = 1
    BY <1>2, <2>1 DEF AtDistance, Nbrs
  <2>2. CASE d # 1
    <3> DEFINE T == Nbrs(g, r) \cap Nbrs(g, x)
    <3>1. T # {} /\ T \subseteq Nat
      <4>1. PICK y \in Nbrs(g, r) : x \in Nbrs(g, y)
        BY <1>2, <2>2 DEF AtDistance
      <4>2. Linked(g, x, y) /\ y \in Id
        BY <1>1, <4>1, LinkedIsEdge DEF Nbrs
      <4>3. y \in Nbrs(g, x)
        BY <4>2 DEF Nbrs
      <4>4. T \subseteq Id
        BY DEF Nbrs
      <4>5. T \subseteq Nat
        BY <4>4, TopologyAssumption
      <4> QED BY <4>1, <4>3, <4>5
    <3>2. PICK y \in T : \A z \in T : ~(<<z, y>> \in OpToRel(<, Nat))
      <4> HIDE DEF T
      <4> QED BY <3>1, NatLessThanWellFounded, WFMin
    <3>3. \A z \in T : y <= z
      <4> HIDE DEF T
      <4> TAKE z \in T
      <4>1. z \in Nat /\ y \in Nat
        BY <3>1
      <4>2. ~(z < y)
        BY <3>2, <4>1 DEF OpToRel
      <4> QED BY <4>1, <4>2
    <3>4. parent(x, d) \in T
      BY <2>2, <3>3
    <3>5. Linked(g, x, parent(x, d))
      BY <3>4 DEF Nbrs
    <3> HIDE DEF T, parent
    <3> QED BY <1>1, <3>5, LinkedIsEdge
  <2> QED BY <2>1, <2>2
<1>3. NeighbourEdges(n, r) =
        {Ordered(<<parent(y[1], y[2]), y[1]>>) :
           y \in {z \in Sees[n] \X (1 .. 2) :
              /\ r \in Sees[n]
              /\ z[1] \in AtDistance(g, r, z[2]) /\ parent(z[1], z[2]) \in Sees[n]
              /\ <<type[n][r], z[2], {type[n][z[1]], type[n][parent(z[1], z[2])]}>> \in BondRule}}
  BY DEF NeighbourEdges
<1> HIDE DEF parent
<1>4. ASSUME NEW f \in NeighbourEdges(n, r) PROVE f \in g
  <2>1. PICK y \in Sees[n] \X (1 .. 2) :
          y[1] \in AtDistance(g, r, y[2]) /\ f = Ordered(<<parent(y[1], y[2]), y[1]>>)
    BY <1>3
  <2>2. y[1] \in Id /\ y[2] \in 1 .. 2
    BY TopologyAssumption
  <2>3. Linked(g, parent(y[1], y[2]), y[1])
    BY <1>2, <2>1, <2>2
  <2> QED BY <1>1, <2>1, <2>3, LinkedIsEdge
<1> QED
  BY <1>4

\* Nodes that all run have the same graph and the same molecules.
LEMMA AllAlike ==
  ASSUME TopoInv, All("run"), NEW m \in Node, NEW n \in Node
  PROVE  /\ graph[m] = graph[n] /\ Replica(m) = Replica(n)
         /\ toDelete[m] = {} /\ toAdd[m] = {} /\ pc[m] = "run"
<1>1. Working /\ InLine
  BY DEF TopoInv
<1>2. \A k \in Node : pc[k] = "run" /\ toDelete[k] = {} /\ toAdd[k] = {}
  BY <1>1 DEF All, Working
<1>3. Replica(m).del = Replica(n).del /\ Replica(m).add = Replica(n).add
  BY <1>2 DEF Replica
<1>4. Behind(Replica(m), Replica(n)) \/ Behind(Replica(n), Replica(m))
  BY <1>1 DEF InLine
<1>5. Replica(m) = Replica(n)
  BY <1>3, <1>4, SamePlace
<1>6. Replica(m).graph = graph[m] /\ Replica(n).graph = graph[n]
  BY DEF Replica
<1> QED
  BY <1>2, <1>5, <1>6

\* exchangeData() gathers edges all nodes have, and distances no two nodes
\* contradict each other about.
LEMMA GatherStep == ASSUME TopoInv, Gather PROVE TopoInv'
<1> DEFINE added  == UNION {newEdges[n] : n \in Node}
           nearby == UNION {near[n] : n \in Node}
           all    == [new |-> added, near |-> nearby, props |-> UNION {props[m] : m \in Node}]
<1>1. TopoTypes /\ Working /\ Noticed /\ GraphsAgree /\ InLine /\ TypesFollow /\ All("run")
  BY DEF TopoInv, Gather
<1>2. \A m, n \in Node : graph[m] = graph[n] /\ Replica(m) = Replica(n)
  BY <1>1, AllAlike
<1>3. \A n \in Node : toDelete[n] = {} /\ toAdd[n] = {} /\ pc[n] = "run"
  BY <1>1, AllAlike
<1>4. Unambiguous(nearby)
  <2> SUFFICES ASSUME NEW x \in nearby, NEW y \in nearby, x[1] = y[1], x[3] = y[3]
               PROVE  x[2] = y[2]
    BY DEF Unambiguous
  <2>1. PICK m \in Node, n \in Node : x \in near[m] /\ y \in near[n]
    OBVIOUS
  <2>2. x[2] \in 1 .. 2 /\ y[2] \in 1 .. 2
    <3>1. x \in Id \X (1 .. 2) \X Id /\ y \in Id \X (1 .. 2) \X Id
      BY <1>1, <2>1 DEF TopoTypes
    <3> QED BY <3>1
  <2>3. x[3] \in AtDistance(graph[m], x[1], x[2]) /\ x[3] \in AtDistance(graph[m], x[1], y[2])
    <3>1. y[3] \in AtDistance(graph[n], y[1], y[2]) /\ graph[n] = graph[m]
      BY <1>1, <1>2, <1>3, <2>1 DEF Noticed
    <3> QED BY <1>1, <1>3, <2>1, <3>1 DEF Noticed
  <2>4. AtDistance(graph[m], x[1], 1) \cap AtDistance(graph[m], x[1], 2) = {}
    BY DEF AtDistance
  <2>5. CASE x[2] = 1 /\ y[2] = 2
    BY <2>3, <2>4, <2>5
  <2>6. CASE x[2] = 2 /\ y[2] = 1
    BY <2>3, <2>4, <2>6
  <2> QED BY <2>2, <2>5, <2>6
<1>5. /\ gathered' = [n \in Node |-> all] /\ pc' = [n \in Node |-> "apply"]
      /\ toDelete' = [n \in Node |-> Removed(n)] /\ toAdd' = [n \in Node |-> added]
      /\ bonds' = bonds /\ type' = type /\ graph' = graph
      /\ resGraph' = resGraph /\ mid' = mid /\ maxMol' = maxMol
      /\ newEdges' = newEdges /\ removedEdges' = removedEdges /\ near' = near
  BY <1>4 DEF Gather, molecules, noted
<1> HIDE DEF all
<1>6. \A n \in Node : Removed(n) \subseteq graph[n]
  <2> TAKE n \in Node
  <2>1. ASSUME NEW m \in Node PROVE removedEdges[m] \cup Found(m) \subseteq graph[n]
    <3>1. removedEdges[m] \subseteq graph[m]
      BY <1>1, <1>3 DEF Noticed
    <3>2. Found(m) \subseteq graph[m]
      BY <1>1, FoundAreEdges DEF Found
    <3> QED BY <1>2, <3>1, <3>2
  <2> QED BY <2>1 DEF Removed
<1>7. \A m, n \in Node : Removed(m) = Removed(n)
  BY DEF Removed
<1>8. added \in SUBSET Bondable /\ \A n \in Node : Removed(n) \in SUBSET Bondable
  <2>1. \A n \in Node : newEdges[n] \in SUBSET Bondable /\ graph[n] \in SUBSET Bondable
    BY <1>1 DEF TopoTypes
  <2> QED BY <1>6, <2>1
<1> HIDE DEF added, nearby
<1>9. TopoTypes'
  <2>1. toDelete' \in [Node -> SUBSET Bondable] /\ toAdd' \in [Node -> SUBSET Bondable]
    BY <1>5, <1>8
  <2> QED BY <1>1, <1>5, <2>1 DEF TopoTypes
<1>10. \A n \in Node : pc'[n] = "apply" /\ toDelete'[n] = Removed(n) /\ toAdd'[n] = added
  BY <1>5
<1>11. Working' /\ Noticed'
  BY <1>5, <1>6, <1>10 DEF Working, Noticed
<1>12. MoleculesAreComponents'
  BY <1>3, <1>5 DEF TopoInv, MoleculesAreComponents
<1>13. GraphsAgree'
  BY <1>2, <1>5, <1>7, <1>10 DEF GraphsAgree, Final
<1>14. InLine'
  <2>1. ASSUME NEW m \in Node, NEW n \in Node PROVE Replica(m)' = Replica(n)'
    <3>1. /\ graph[m] = graph[n] /\ resGraph[m] = resGraph[n] /\ mid[m] = mid[n] /\ maxMol[m] = maxMol[n]
      <4>1. Replica(m).res = Replica(n).res /\ Replica(m).mid = Replica(n).mid /\ Replica(m).max = Replica(n).max
        BY <1>2
      <4> QED BY <1>2, <4>1 DEF Replica
    <3> QED BY <1>5, <1>7, <1>10, <3>1 DEF Replica
  <2> QED BY <2>1, Level DEF InLine
<1>15. TypesFollow'
  <2> SUFFICES ASSUME NEW n \in Node, NEW p \in Sees[n] PROVE Eventual(n, p)' = Eventual(Owner[p], p)'
    BY DEF TypesFollow
  <2>1. Owner[p] \in Node /\ p \in Sees[Owner[p]]
    BY TopologyAssumption
  <2>2. type[n][p] = type[Owner[p]][p]
    BY <1>1, <1>3, <2>1 DEF TypesFollow, Eventual
  <2>3. Eventual(n, p)' = ByRules(all, p, type[n][p])
    BY <1>5 DEF Eventual, NewType
  <2>4. Eventual(Owner[p], p)' = ByRules(all, p, type[Owner[p]][p])
    BY <1>5, <2>1 DEF Eventual, NewType
  <2> QED BY <2>2, <2>3, <2>4
<1> QED
  BY <1>9, <1>11, <1>12, <1>13, <1>14, <1>15 DEF TopoInv

-----------------------------------------------------------------------------
(* The invariant of the whole system.                                      *)

SysInv == TopoInv /\ Ex!ExclusionsAgree

\* Whatever the topology manager does, and whatever leaves it alone, keeps its
\* invariant.
LEMMA TopoStep == TopoInv /\ [TopoNext]_topoVars => TopoInv'
<1> SUFFICES ASSUME TopoInv, [TopoNext]_topoVars PROVE TopoInv'
  OBVIOUS
<1>1. CASE ChangeBond
  BY <1>1, AddBondStep, RemoveBondStep DEF ChangeBond
<1>2. CASE RunPostProcess
  BY <1>2, PostProcessStep DEF RunPostProcess
<1>3. CASE Exchange
  BY <1>3, GatherStep, DeleteEdgeStep, NewEdgeStep, InitializedStep, FinishStep DEF Exchange
<1>4. CASE UNCHANGED topoVars
  <2>1. /\ UNCHANGED <<graph, molecules, toDelete, toAdd, pc, type, gathered>>
        /\ bonds' = bonds /\ newEdges' = newEdges /\ removedEdges' = removedEdges /\ near' = near
        /\ graph' = graph /\ resGraph' = resGraph /\ mid' = mid /\ maxMol' = maxMol
        /\ toDelete' = toDelete /\ toAdd' = toAdd /\ pc' = pc /\ type' = type /\ gathered' = gathered
    BY <1>4 DEF topoVars, molecules, noted
  <2>2. TopoTypes' /\ Working' /\ Noticed'
    BY <2>1 DEF TopoInv, TopoTypes, Working, Noticed
  <2> QED BY <2>1, <2>2, OnlyNotes
<1> QED
  BY <1>1, <1>2, <1>3, <1>4 DEF TopoNext

\* Every step of the system is one of the topology manager or leaves it alone.
LEMMA SysIsTopo == SysNext => [TopoNext]_topoVars
<1>1. AddOrRemove => ChangeBond
  BY DEF AddOrRemove
<1>2. Integrate => Exchange \/ UNCHANGED topoVars
  BY DEF Integrate, BefIntP, AftIntV, ApplyGathered, Exchange
<1> QED
  BY <1>1, <1>2 DEF SysNext, TopoNext

\* Exclusions are gathered by all nodes alike.
LEMMA ExclusionsStep == Ex!ExclusionsAgree /\ [SysNext]_vars => Ex!ExclusionsAgree'
<1> SUFFICES ASSUME Ex!ExclusionsAgree, [SysNext]_vars PROVE Ex!ExclusionsAgree'
  OBVIOUS
<1>1. exList' = exList \/ exList' = [n \in Node |-> Ex!Updated(exList[n])]
  <2>1. CASE UNCHANGED vars
    BY <2>1 DEF vars, exVars
  <2>2. CASE AddOrRemove \/ ApplyGathered
    BY <2>2 DEF AddOrRemove, ApplyGathered, Signals, Ex!Note
  <2>3. CASE (RunPostProcess /\ UNCHANGED <<exVars, turn>>) \/ AftIntV
    BY <2>3 DEF AftIntV, exVars
  <2>4. CASE BefIntP
    BY <2>4 DEF BefIntP, Ex!UpdateList, Ex!exVars, Ex!Node, Node
  <2> QED BY <2>1, <2>2, <2>3, <2>4 DEF SysNext, Integrate
<1>2. CASE exList' = exList
  BY <1>2 DEF Ex!ExclusionsAgree
<1>3. CASE exList' = [n \in Node |-> Ex!Updated(exList[n])]
  BY <1>3 DEF Ex!ExclusionsAgree, Ex!Node, Node
<1> QED
  BY <1>1, <1>2, <1>3

\* The invariant holds in every state of every behaviour of the system.
THEOREM Invariant == SysSpec => []SysInv
<1>1. SysInit => SysInv
  BY TopoStart DEF SysInit, SysInv, Ex!ExInit, Ex!ExclusionsAgree
<1>2. SysInv /\ [SysNext]_vars => SysInv'
  <2>1. [SysNext]_vars => [TopoNext]_topoVars
    BY SysIsTopo DEF vars
  <2> QED BY <2>1, TopoStep, ExclusionsStep DEF SysInv
<1> QED
  BY <1>1, <1>2, PTL DEF SysSpec

\* exchangeData() throws neither for contradicting distances nor for an edge
\* between two molecules, whatever scripts, reactions and post-processes do:
\* no two nodes report a particle at different distances of a root, and
\* both ends of an edge that is deleted are in one molecule.
THEOREM NoException == SysSpec => []NeverThrows
<1>1. SysInv => NeverThrows
  BY DEF SysInv, TopoInv, Working, NeverThrows
<1> QED
  BY <1>1, Invariant, PTL

\* The molecules of every node are the components of the graph of residues,
\* also while it applies what it has gathered.
THEOREM Molecules == SysSpec => []MoleculesAreComponents
<1>1. SysInv => MoleculesAreComponents
  BY DEF SysInv, TopoInv
<1> QED
  BY <1>1, Invariant, PTL

\* What every node keeps for itself is the same on all nodes: the graph they
\* work towards, ids of molecules, types and exclusions.
THEOREM Alike == SysSpec => []ReplicasAgree
<1>1. SysInv => MoleculesAgree
  <2> SUFFICES ASSUME SysInv, NEW m \in Node, NEW n \in Node, toDelete[m] = toDelete[n], toAdd[m] = toAdd[n]
               PROVE  mid[m] = mid[n] /\ maxMol[m] = maxMol[n] /\ resGraph[m] = resGraph[n]
    BY DEF MoleculesAgree
  <2>1. Behind(Replica(m), Replica(n)) \/ Behind(Replica(n), Replica(m))
    BY DEF SysInv, TopoInv, InLine
  <2>2. Replica(m).del = Replica(n).del /\ Replica(m).add = Replica(n).add
    BY DEF Replica
  <2>3. Replica(m) = Replica(n)
    BY <2>1, <2>2, SamePlace
  <2>4. Replica(m).mid = Replica(n).mid /\ Replica(m).max = Replica(n).max /\ Replica(m).res = Replica(n).res
    BY <2>3
  <2> QED BY <2>4 DEF Replica
<1>2. SysInv => TypesAgree
  <2> SUFFICES ASSUME SysInv, All("run"), NEW n \in Node, NEW p \in Sees[n]
               PROVE  type[n][p] = type[Owner[p]][p]
    BY DEF TypesAgree
  <2>1. Owner[p] \in Node
    BY TopologyAssumption
  <2>2. pc[n] = "run" /\ pc[Owner[p]] = "run"
    BY <2>1 DEF All
  <2>3. Eventual(n, p) = Eventual(Owner[p], p)
    BY DEF SysInv, TopoInv, TypesFollow
  <2> QED BY <2>2, <2>3 DEF Eventual
<1>3. SysInv => ReplicasAgree
  BY <1>1, <1>2 DEF SysInv, TopoInv, ReplicasAgree
<1> QED
  BY <1>3, Invariant, PTL

-----------------------------------------------------------------------------
(* The books each node keeps of its bonds, if no bond is changed twice     *)
(* before all nodes know of the first change.                              *)

\* the bonds of a node that its graph and its notes account for
Expected(n) == IF pc[n] = "run" THEN (Final(n) \ removedEdges[n]) \cup newEdges[n] ELSE Final(n)

ExTypes ==
  /\ exAdd \in [Node -> SUBSET Bondable] /\ exRemove \in [Node -> SUBSET Bondable]
  /\ exList \in [Node -> SUBSET Bondable]

\* Only the owner of a bond keeps it and notes its changes; the bonds it keeps
\* are those of the graph but for what it noted, and are excluded but for what
\* the exclusions have not heard; a new bond they have not heard of is none an
\* exchange removes.
BooksOf(n) ==
  /\ \A e \in bonds[n] \cup newEdges[n] \cup exAdd[n] \cup exRemove[n] : Owner[e[1]] = n
  /\ \A e \in Bondable : Owner[e[1]] = n =>
       /\ e \in bonds[n] \ toDelete[n] <=> e \in Expected(n)
       /\ e \in exAdd[n] => e \in bonds[n] /\ e \notin toDelete[n]
       /\ e \in exRemove[n] => e \notin bonds[n]
       /\ e \notin exAdd[n] \cup exRemove[n] => (e \in exList[0] <=> e \in bonds[n])
  /\ exAdd[n] \cup exRemove[n] # {} => exDirty[n]
  /\ turn = "aftIntV" => pc[n] = "run" /\ exAdd[n] \subseteq newEdges[n]

BookInv == ExTypes /\ \A n \in Node : BooksOf(n)

\* There is a first node.
LEMMA ZeroNode == 0 \in Node
  BY TopologyAssumption DEF Node

\* What the books of a node depend on.
SameFor(n) ==
  /\ bonds'[n] = bonds[n] /\ newEdges'[n] = newEdges[n] /\ removedEdges'[n] = removedEdges[n]
  /\ exAdd'[n] = exAdd[n] /\ exRemove'[n] = exRemove[n] /\ (exDirty[n] => exDirty'[n])
  /\ toDelete'[n] = toDelete[n] /\ toAdd'[n] = toAdd[n] /\ graph'[n] = graph[n] /\ pc'[n] = pc[n]
  /\ exList' = exList /\ turn' = turn

\* A node that is left alone keeps its books.
LEMMA SameBooks == ASSUME NEW n \in Node, BooksOf(n), SameFor(n) PROVE BooksOf(n)'
<1>1. Expected(n)' = Expected(n)
  BY DEF SameFor, Expected, Final
<1> QED
  BY <1>1 DEF BooksOf, SameFor

\* exclude() and unexclude() follow the signals of the pair list.
LEMMA SignalsNote ==
  ASSUME Signals, NEW m \in Node
  PROVE  /\ exAdd'[m] = exAdd[m] \cup (bonds'[m] \ bonds[m])
         /\ exRemove'[m] = exRemove[m] \cup (bonds[m] \ bonds'[m])
         /\ exDirty[m] => exDirty'[m]
         /\ (bonds'[m] \ bonds[m]) \cup (bonds[m] \ bonds'[m]) # {} => exDirty'[m]
         /\ exList' = exList
<1> DEFINE in == [n \in Node |-> bonds'[n] \ bonds[n]]
           out == [n \in Node |-> bonds[n] \ bonds'[n]]
<1>1. /\ exAdd' = [n \in Node |-> exAdd[n] \cup in[n]] /\ exRemove' = [n \in Node |-> exRemove[n] \cup out[n]]
      /\ exDirty' = [n \in Node |-> exDirty[n] \/ in[n] \cup out[n] # {}]
      /\ exList' = exList
  BY DEF Signals, Ex!Note, Ex!Node, Node
<1>2. in[m] = bonds'[m] \ bonds[m] /\ out[m] = bonds[m] \ bonds'[m]
  OBVIOUS
<1>3. exDirty'[m] = (exDirty[m] \/ in[m] \cup out[m] # {})
  BY <1>1
<1> HIDE DEF in, out
<1> QED
  BY <1>1, <1>2, <1>3

\* A node whose bonds stay as they are notes nothing for the exclusions.
LEMMA SignalsNothing ==
  ASSUME Signals, NEW m \in Node, bonds'[m] = bonds[m]
  PROVE  exAdd'[m] = exAdd[m] /\ exRemove'[m] = exRemove[m] /\ (exDirty[m] => exDirty'[m]) /\ exList' = exList
<1>1. bonds'[m] \ bonds[m] = {} /\ bonds[m] \ bonds'[m] = {}
  OBVIOUS
<1>2. /\ exAdd'[m] = exAdd[m] \cup (bonds'[m] \ bonds[m])
      /\ exRemove'[m] = exRemove[m] \cup (bonds[m] \ bonds'[m])
      /\ exDirty[m] => exDirty'[m]
      /\ exList' = exList
  BY SignalsNote
<1> QED
  BY <1>1, <1>2

\* Signals about bonds keep the types of the exclusions.
LEMMA SignalsTypes == ASSUME TopoTypes, TopoTypes', ExTypes, Signals PROVE ExTypes'
<1>1. bonds \in [Node -> SUBSET Bondable] /\ bonds' \in [Node -> SUBSET Bondable]
  BY DEF TopoTypes
<1>2. /\ exAdd' = [n \in Node |-> exAdd[n] \cup (bonds'[n] \ bonds[n])]
      /\ exRemove' = [n \in Node |-> exRemove[n] \cup (bonds[n] \ bonds'[n])]
      /\ exList' = exList
  BY DEF Signals, Ex!Note, Ex!Node, Node
<1>3. \A n \in Node : /\ exAdd[n] \cup (bonds'[n] \ bonds[n]) \in SUBSET Bondable
                      /\ exRemove[n] \cup (bonds[n] \ bonds'[n]) \in SUBSET Bondable
  BY <1>1 DEF ExTypes
<1> QED
  BY <1>2, <1>3 DEF ExTypes

\* The books are right at the start.
LEMMA BooksStart == SysInit => BookInv
<1> SUFFICES ASSUME SysInit PROVE BookInv
  OBVIOUS
<1>1. /\ bonds = [n \in Node |-> {e \in InitBonds : Owner[e[1]] = n}] /\ graph = [n \in Node |-> {}]
      /\ newEdges = [n \in Node |-> {}] /\ toDelete = [n \in Node |-> {}]
      /\ toAdd = [n \in Node |-> InitBonds] /\ pc = [n \in Node |-> "init"]
      /\ exList = [n \in Node |-> InitBonds] /\ exAdd = [n \in Node |-> {}] /\ exRemove = [n \in Node |-> {}]
      /\ turn = "befIntP"
  BY DEF SysInit, Init, Ex!ExInit, Ex!Node, Node
<1>2. ExTypes
  BY <1>1, TopologyAssumption DEF ExTypes
<1>3. ASSUME NEW n \in Node PROVE BooksOf(n)
  <2>1. Expected(n) = InitBonds
    BY <1>1 DEF Expected, Final
  <2>2. exList[0] = InitBonds
    BY <1>1, ZeroNode
  <2> QED BY <1>1, <2>1, <2>2 DEF BooksOf
<1> QED
  BY <1>2, <1>3 DEF BookInv

\* An added bond is no edge and unknown to the exclusions, and is noted for both.
LEMMA AddBondBooks ==
  ASSUME OncePerWindow, TopoInv, TopoInv', BookInv, NEW n \in Node, NEW e \in Changeable,
         AddBond(n, e), ExSettled, Signals, turn' = turn
  PROVE  BookInv'
<1>1. TopoTypes /\ Working /\ TopoTypes' /\ BooksOf(n) /\ ExTypes
  BY DEF TopoInv, BookInv
<1>2. e \in Bondable /\ e = <<e[1], e[2]>> /\ <<e[2], e[1]>> \notin Bondable
  BY OneOrder, TopologyAssumption
<1>3. /\ pc[n] = "run" /\ Owner[e[1]] = n /\ e \notin bonds[n] /\ e \notin newEdges[n] /\ e \notin removedEdges[n]
      /\ bonds' = [bonds EXCEPT ![n] = @ \cup {e}] /\ removedEdges' = removedEdges
      /\ graph' = graph /\ toDelete' = toDelete /\ toAdd' = toAdd /\ pc' = pc
  BY DEF AddBond, OnTupleAdded, Settled
<1>4. toDelete[n] = {} /\ toAdd[n] = {} /\ Final(n) = graph[n]
  BY <1>1, <1>3 DEF Working, Final
<1>5. e \notin graph[n]
  BY <1>1, <1>2, <1>3, <1>4 DEF BooksOf, Expected
<1>6. newEdges' = [newEdges EXCEPT ![n] = @ \cup {e}]
  <2>1. ~Linked(graph[n], e[1], e[2])
    BY <1>1, <1>2, <1>5 DEF Linked, TopoTypes
  <2> QED BY <2>1 DEF AddBond, OnTupleAdded
<1>7. bonds'[n] = bonds[n] \cup {e} /\ newEdges'[n] = newEdges[n] \cup {e}
  BY <1>1, <1>3, <1>6 DEF TopoTypes
<1>8. e \notin exAdd[n] /\ e \notin exRemove[n]
  BY <1>2, <1>3, <1>7 DEF ExSettled
<1>9. /\ exAdd'[n] = exAdd[n] \cup {e} /\ exRemove'[n] = exRemove[n] /\ exDirty'[n] /\ exList' = exList
  <2>1. bonds'[n] \ bonds[n] = {e} /\ bonds[n] \ bonds'[n] = {}
    BY <1>3, <1>7
  <2> QED BY <2>1, SignalsNote
<1>10. Expected(n)' = Expected(n) \cup {e}
  BY <1>3, <1>4, <1>7 DEF Expected, Final
<1>11. BooksOf(n)'
  BY <1>1, <1>2, <1>3, <1>4, <1>7, <1>8, <1>9, <1>10 DEF BooksOf
<1>12. ASSUME NEW m \in Node, m # n PROVE BooksOf(m)'
  <2>1. bonds'[m] = bonds[m] /\ newEdges'[m] = newEdges[m]
    BY <1>1, <1>3, <1>6, <1>12 DEF TopoTypes
  <2>2. SameFor(m)
    BY <1>3, <1>9, <2>1, SignalsNothing DEF SameFor
  <2> QED BY <2>2, SameBooks DEF BookInv
<1>13. ExTypes'
  BY <1>1, SignalsTypes
<1> QED
  BY <1>11, <1>12, <1>13 DEF BookInv

\* A removed bond is an edge and excluded, and is noted for both.
LEMMA RemoveBondBooks ==
  ASSUME OncePerWindow, TopoInv, TopoInv', BookInv, NEW n \in Node, NEW e \in Changeable,
         RemoveBond(n, e), ExSettled, Signals, turn' = turn
  PROVE  BookInv'
<1>1. TopoTypes /\ Working /\ TopoTypes' /\ BooksOf(n) /\ ExTypes
  BY DEF TopoInv, BookInv
<1>2. e \in Bondable /\ e = <<e[1], e[2]>>
  BY OneOrder, TopologyAssumption
<1>3. /\ pc[n] = "run" /\ e \in bonds[n] /\ e \notin newEdges[n] /\ e \notin removedEdges[n]
      /\ bonds' = [bonds EXCEPT ![n] = @ \ {e}] /\ newEdges' = newEdges
      /\ graph' = graph /\ toDelete' = toDelete /\ toAdd' = toAdd /\ pc' = pc
  BY DEF RemoveBond, OnTupleRemoved, Settled
<1>4. toDelete[n] = {} /\ toAdd[n] = {} /\ Final(n) = graph[n] /\ Owner[e[1]] = n
  BY <1>1, <1>3 DEF Working, Final, BooksOf
<1>5. e \in graph[n]
  BY <1>1, <1>2, <1>3, <1>4 DEF BooksOf, Expected
<1>6. removedEdges' = [removedEdges EXCEPT ![n] = @ \cup {e}]
  <2>1. Linked(graph[n], e[1], e[2])
    BY <1>2, <1>5 DEF Linked
  <2> QED BY <2>1 DEF RemoveBond, OnTupleRemoved
<1>7. bonds'[n] = bonds[n] \ {e} /\ removedEdges'[n] = removedEdges[n] \cup {e}
  BY <1>1, <1>3, <1>6 DEF TopoTypes
<1>8. e \notin exAdd[n] /\ e \notin exRemove[n]
  BY <1>2, <1>3, <1>7 DEF ExSettled
<1>9. /\ exRemove'[n] = exRemove[n] \cup {e} /\ exAdd'[n] = exAdd[n] /\ exDirty'[n] /\ exList' = exList
  <2>1. bonds[n] \ bonds'[n] = {e} /\ bonds'[n] \ bonds[n] = {}
    BY <1>3, <1>7
  <2> QED BY <2>1, SignalsNote
<1>10. Expected(n)' = Expected(n) \ {e}
  BY <1>3, <1>4, <1>7 DEF Expected, Final
<1>11. BooksOf(n)'
  BY <1>1, <1>2, <1>3, <1>4, <1>7, <1>8, <1>9, <1>10 DEF BooksOf
<1>12. ASSUME NEW m \in Node, m # n PROVE BooksOf(m)'
  <2>1. bonds'[m] = bonds[m] /\ removedEdges'[m] = removedEdges[m]
    BY <1>1, <1>3, <1>6, <1>12 DEF TopoTypes
  <2>2. SameFor(m)
    BY <1>3, <1>9, <2>1, SignalsNothing DEF SameFor
  <2> QED BY <2>2, SameBooks DEF BookInv
<1>13. ExTypes'
  BY <1>1, SignalsTypes
<1> QED
  BY <1>11, <1>12, <1>13 DEF BookInv

\* deleteEdge() drops the bond where it is kept, and the exclusions hear of it.
LEMMA DeleteEdgeBooks ==
  ASSUME TopoInv, TopoInv', BookInv, NEW n \in Node, DeleteEdge(n), Signals, turn' = turn
  PROVE  BookInv' /\ \A m \in Node : Final(m)' = Final(m) /\ bonds'[m] \ toDelete'[m] = bonds[m] \ toDelete[m]
<1> DEFINE e == First(toDelete[n])
<1>1. TopoTypes /\ Working /\ TopoTypes' /\ Working' /\ BooksOf(n) /\ ExTypes
  BY DEF TopoInv, BookInv
<1>2. e \in toDelete[n] /\ e \in Bondable
  <2>1. toDelete[n] \in SUBSET Bondable /\ toDelete[n] # {}
    BY <1>1 DEF DeleteEdge, TopoTypes
  <2> QED BY <2>1, FirstIsOne
<1>3. /\ pc[n] = "apply" /\ bonds' = [bonds EXCEPT ![n] = IF Drops(n, e) THEN bonds[n] \ {e} ELSE bonds[n]]
      /\ graph' = [graph EXCEPT ![n] = graph[n] \ {e}] /\ toDelete' = [toDelete EXCEPT ![n] = toDelete[n] \ {e}]
      /\ toAdd' = toAdd /\ newEdges' = newEdges /\ removedEdges' = removedEdges
  BY DEF DeleteEdge, noted
<1>4. pc' = pc
  <2>1. pc' = pc \/ pc' = [pc EXCEPT ![n] = "failed"]
    BY DEF DeleteEdge
  <2>2. pc'[n] # "failed"
    BY <1>1 DEF Working
  <2> QED BY <1>1, <2>1, <2>2 DEF TopoTypes
<1> HIDE DEF e
<1>5. e \in bonds[n] => Drops(n, e) /\ Owner[e[1]] = n
  <2> SUFFICES ASSUME e \in bonds[n] PROVE Drops(n, e) /\ Owner[e[1]] = n
    OBVIOUS
  <2>1. Owner[e[1]] = n
    BY <1>1 DEF BooksOf
  <2>2. e[1] \in Id
    BY <1>2, EdgeFacts
  <2> QED BY <1>2, <2>1, <2>2, TopologyAssumption DEF Drops
<1>6. bonds'[n] = bonds[n] \ {e} /\ toDelete'[n] = toDelete[n] \ {e} /\ graph'[n] = graph[n] \ {e}
  <2>1. e \notin bonds[n] => bonds[n] \ {e} = bonds[n]
    OBVIOUS
  <2> QED BY <1>1, <1>3, <1>5, <2>1 DEF TopoTypes
<1>7. Final(n)' = Final(n) /\ Expected(n)' = Expected(n) /\ bonds'[n] \ toDelete'[n] = bonds[n] \ toDelete[n]
  <2>1. (bonds[n] \ {e}) \ (toDelete[n] \ {e}) = bonds[n] \ toDelete[n]
    BY <1>2
  <2>2. ((graph[n] \ {e}) \ (toDelete[n] \ {e})) \cup toAdd[n] = (graph[n] \ toDelete[n]) \cup toAdd[n]
    BY <1>2
  <2>3. Final(n)' = Final(n)
    BY <1>3, <1>6, <2>2 DEF Final
  <2> QED BY <1>3, <1>4, <1>6, <2>1, <2>3 DEF Expected
<1>8. /\ exAdd'[n] = exAdd[n] /\ exList' = exList
      /\ exRemove'[n] = IF e \in bonds[n] THEN exRemove[n] \cup {e} ELSE exRemove[n]
      /\ exDirty[n] => exDirty'[n]
      /\ e \in bonds[n] => exDirty'[n]
  <2>1. bonds'[n] \ bonds[n] = {} /\ bonds[n] \ bonds'[n] = IF e \in bonds[n] THEN {e} ELSE {}
    BY <1>6
  <2> QED BY <2>1, SignalsNote
<1>9. BooksOf(n)'
  <2>1. \A f \in bonds'[n] \cup newEdges'[n] \cup exAdd'[n] \cup exRemove'[n] : Owner[f[1]] = n
    BY <1>1, <1>3, <1>5, <1>6, <1>8 DEF BooksOf
  <2>2. ASSUME NEW f \in Bondable, Owner[f[1]] = n
        PROVE  /\ f \in bonds'[n] \ toDelete'[n] <=> f \in Expected(n)'
               /\ f \in exAdd'[n] => f \in bonds'[n] /\ f \notin toDelete'[n]
               /\ f \in exRemove'[n] => f \notin bonds'[n]
               /\ f \notin exAdd'[n] \cup exRemove'[n] => (f \in exList'[0] <=> f \in bonds'[n])
    <3>1. /\ f \in bonds[n] \ toDelete[n] <=> f \in Expected(n)
          /\ f \in exAdd[n] => f \in bonds[n] /\ f \notin toDelete[n]
          /\ f \in exRemove[n] => f \notin bonds[n]
          /\ f \notin exAdd[n] \cup exRemove[n] => (f \in exList[0] <=> f \in bonds[n])
      BY <1>1, <2>2 DEF BooksOf
    <3> QED BY <1>2, <1>6, <1>7, <1>8, <3>1
  <2>3. exAdd'[n] \cup exRemove'[n] # {} => exDirty'[n]
    BY <1>1, <1>8 DEF BooksOf
  <2>4. turn' # "aftIntV"
    BY <1>1, <1>3 DEF BooksOf
  <2> QED BY <2>1, <2>2, <2>3, <2>4 DEF BooksOf
<1>10. ASSUME NEW m \in Node, m # n
       PROVE  BooksOf(m)' /\ Final(m)' = Final(m) /\ bonds'[m] \ toDelete'[m] = bonds[m] \ toDelete[m]
  <2>1. bonds'[m] = bonds[m] /\ graph'[m] = graph[m] /\ toDelete'[m] = toDelete[m]
    BY <1>1, <1>3, <1>10 DEF TopoTypes
  <2>2. SameFor(m)
    BY <1>3, <1>4, <1>8, <2>1, SignalsNothing DEF SameFor
  <2> QED BY <1>3, <2>1, <2>2, SameBooks DEF BookInv, Final
<1>11. ExTypes'
  BY <1>1, SignalsTypes
<1> QED
  BY <1>7, <1>9, <1>10, <1>11 DEF BookInv

\* The rest of what a node applies leaves bonds and exclusions alone.
LEMMA ApplyBooks ==
  ASSUME TopoInv, TopoInv', BookInv, NEW n \in Node, NewEdge(n) \/ Initialized(n) \/ Finish(n), Signals, turn' = turn
  PROVE  BookInv' /\ bonds' = bonds /\ toDelete' = toDelete /\ \A m \in Node : Final(m)' = Final(m)
<1>1. TopoTypes /\ Working /\ TopoTypes' /\ BooksOf(n) /\ ExTypes
  BY DEF TopoInv, BookInv
<1>2. pc[n] # "run" /\ bonds' = bonds /\ toDelete' = toDelete
  BY DEF NewEdge, Initialized, Finish
<1>3. \A m \in Node : exAdd'[m] = exAdd[m] /\ exRemove'[m] = exRemove[m] /\ (exDirty[m] => exDirty'[m]) /\ exList' = exList
  BY <1>2, SignalsNothing
<1>4. ASSUME NEW m \in Node, m # n
      PROVE  /\ newEdges'[m] = newEdges[m] /\ removedEdges'[m] = removedEdges[m]
             /\ toAdd'[m] = toAdd[m] /\ graph'[m] = graph[m] /\ pc'[m] = pc[m]
  <2>1. CASE NewEdge(n)
    BY <1>1, <1>4, <2>1 DEF NewEdge, noted, TopoTypes
  <2>2. CASE Initialized(n)
    BY <1>1, <1>4, <2>2 DEF Initialized, TopoTypes
  <2>3. CASE Finish(n)
    BY <1>1, <1>4, <2>3 DEF Finish, TopoTypes
  <2> QED BY <2>1, <2>2, <2>3
<1>5. Final(n)' = Final(n) /\ Expected(n)' = Expected(n) /\ newEdges'[n] \subseteq newEdges[n]
  <2>1. CASE NewEdge(n)
    <3> DEFINE e == First(toAdd[n])
    <3>1. e \in toAdd[n] /\ toDelete[n] = {}
      <4>1. toAdd[n] \in SUBSET Bondable /\ toAdd[n] # {} /\ toDelete[n] = {}
        BY <1>1, <2>1 DEF NewEdge, TopoTypes
      <4> QED BY <4>1, FirstIsOne
    <3>2. /\ graph'[n] = graph[n] \cup {e} /\ toAdd'[n] = toAdd[n] \ {e}
          /\ newEdges' = newEdges /\ removedEdges' = removedEdges /\ pc' = pc
      BY <1>1, <2>1 DEF NewEdge, noted, TopoTypes
    <3> HIDE DEF e
    <3>3. Final(n)' = Final(n)
      BY <1>2, <3>1, <3>2 DEF Final
    <3> QED BY <1>2, <3>2, <3>3 DEF Expected
  <2>2. CASE Initialized(n)
    <3>1. newEdges[n] = {} /\ removedEdges[n] = {}
      BY <1>1, <2>2 DEF Initialized, Working
    <3>2. /\ pc'[n] = "run" /\ graph' = graph /\ toAdd' = toAdd
          /\ newEdges' = newEdges /\ removedEdges' = removedEdges
      BY <1>1, <2>2 DEF Initialized, TopoTypes
    <3>3. Final(n)' = Final(n)
      BY <1>2, <3>2 DEF Final
    <3> QED BY <1>2, <3>1, <3>2, <3>3 DEF Expected
  <2>3. CASE Finish(n)
    <3>1. pc'[n] = "run" /\ graph' = graph /\ toAdd' = toAdd /\ newEdges'[n] = {} /\ removedEdges'[n] = {}
      BY <1>1, <2>3 DEF Finish, TopoTypes
    <3>2. Final(n)' = Final(n)
      BY <1>2, <3>1 DEF Final
    <3> QED BY <1>2, <3>1, <3>2 DEF Expected
  <2> QED BY <2>1, <2>2, <2>3
<1>6. BooksOf(n)'
  BY <1>1, <1>2, <1>3, <1>5 DEF BooksOf
<1>7. ASSUME NEW m \in Node, m # n PROVE BooksOf(m)' /\ Final(m)' = Final(m)
  <2>1. SameFor(m)
    BY <1>2, <1>3, <1>4, <1>7 DEF SameFor
  <2> QED BY <1>2, <1>4, <1>7, <2>1, SameBooks DEF BookInv, Final
<1>8. ExTypes'
  BY <1>1, SignalsTypes
<1> QED
  BY <1>2, <1>5, <1>6, <1>7, <1>8 DEF BookInv

\* What an exchange gathers makes the graph that of the bonds which stay.
LEMMA GatherBooks ==
  ASSUME TopoInv, TopoInv', BookInv, Gather, turn = "aftIntV", turn' = "befIntP", UNCHANGED exVars
  PROVE  /\ BookInv' /\ bonds' = bonds
         /\ \A m, n \in Node : toDelete'[m] = toDelete'[n] /\ toDelete[m] = {} /\ toDelete'[m] \subseteq Final(n)
<1>1. TopoTypes /\ Working /\ Noticed /\ Working' /\ ExTypes /\ All("run")
  BY DEF TopoInv, BookInv, Gather
<1>2. \A m, n \in Node : graph[m] = graph[n] /\ toDelete[m] = {} /\ toAdd[m] = {} /\ pc[m] = "run"
  BY <1>1, AllAlike
<1> DEFINE added == UNION {newEdges[n] : n \in Node}
<1>3. /\ pc' = [n \in Node |-> "apply"] /\ toDelete' = [n \in Node |-> Removed(n)]
      /\ toAdd' = [n \in Node |-> added]
  <2>1. pc' # [n \in Node |-> "failed"]
    BY <1>1, ZeroNode DEF Working
  <2> QED BY <2>1 DEF Gather
<1>4. bonds' = bonds /\ graph' = graph /\ newEdges' = newEdges /\ exAdd' = exAdd /\ exRemove' = exRemove
      /\ exDirty' = exDirty /\ exList' = exList
  BY DEF Gather, noted, exVars
<1>5. \A n \in Node : Removed(n) \subseteq graph[n] /\ toDelete'[n] = Removed(n) /\ toAdd'[n] = added /\ pc'[n] = "apply"
  BY <1>1, <1>3, <1>4 DEF Working
<1>6. \A m, n \in Node : Removed(m) = Removed(n) /\ removedEdges[m] \subseteq Removed(n)
  BY DEF Removed
<1>7. ASSUME NEW n \in Node PROVE BooksOf(n)'
  <2>1. BooksOf(n)
    BY DEF BookInv
  <2>2. \A e \in newEdges[n] : e \notin Removed(n)
    BY <1>1, <1>2, <1>5 DEF Noticed
  <2>3. \A e \in added : Owner[e[1]] = n => e \in newEdges[n]
    BY DEF BookInv, BooksOf
  <2>4. newEdges[n] \subseteq added
    OBVIOUS
  <2>5. Expected(n) = (graph[n] \ removedEdges[n]) \cup newEdges[n]
    BY <1>2 DEF Expected, Final
  <2>6. Expected(n)' = (graph[n] \ Removed(n)) \cup added
    BY <1>4, <1>5 DEF Expected, Final
  <2>7. exAdd[n] \subseteq newEdges[n]
    BY <2>1 DEF BooksOf
  <2> HIDE DEF added
  <2>8. \A e \in bonds'[n] \cup newEdges'[n] \cup exAdd'[n] \cup exRemove'[n] : Owner[e[1]] = n
    BY <1>4, <2>1 DEF BooksOf
  <2>9. ASSUME NEW e \in Bondable, Owner[e[1]] = n
        PROVE  /\ e \in bonds'[n] \ toDelete'[n] <=> e \in Expected(n)'
               /\ e \in exAdd'[n] => e \in bonds'[n] /\ e \notin toDelete'[n]
               /\ e \in exRemove'[n] => e \notin bonds'[n]
               /\ e \notin exAdd'[n] \cup exRemove'[n] => (e \in exList'[0] <=> e \in bonds'[n])
    <3>1. /\ e \in bonds[n] <=> e \in Expected(n)
          /\ e \in exAdd[n] => e \in bonds[n]
          /\ e \in exRemove[n] => e \notin bonds[n]
          /\ e \notin exAdd[n] \cup exRemove[n] => (e \in exList[0] <=> e \in bonds[n])
      BY <1>2, <2>1, <2>9 DEF BooksOf
    <3>2. e \in bonds[n] \ Removed(n) <=> e \in (graph[n] \ Removed(n)) \cup added
      BY <1>6, <2>2, <2>3, <2>4, <2>5, <2>9, <3>1
    <3> QED BY <1>4, <1>5, <2>2, <2>6, <2>7, <3>1, <3>2
  <2>10. exAdd'[n] \cup exRemove'[n] # {} => exDirty'[n]
    BY <1>4, <2>1 DEF BooksOf
  <2> QED BY <2>8, <2>9, <2>10 DEF BooksOf
<1>8. ExTypes'
  BY <1>1, <1>4 DEF ExTypes
<1>9. \A m, n \in Node : toDelete'[m] = toDelete'[n] /\ toDelete'[m] \subseteq Final(n)
  BY <1>2, <1>5, <1>6 DEF Final
<1> QED
  BY <1>2, <1>4, <1>7, <1>8, <1>9 DEF BookInv

\* updateList() makes the exclusions those of the bonds: of all senders only
\* the owner of a bond names it.
LEMMA UpdatedIsBonds ==
  ASSUME BookInv
  PROVE  /\ Ex!Updated(exList[0]) \subseteq Bondable
         /\ \A e \in Bondable : e \in Ex!Updated(exList[0]) <=> e \in bonds[Owner[e[1]]]
<1> DEFINE touched == UNION {exAdd[n] \cup exRemove[n] : n \in Node}
           last(e) == CHOOSE n \in Node : /\ e \in exAdd[n] \cup exRemove[n]
                                          /\ \A m \in Node : m > n => e \notin exAdd[m] \cup exRemove[m]
<1>1. Ex!Updated(exList[0]) = (exList[0] \ touched) \cup {e \in touched : e \in exAdd[last(e)]}
  BY DEF Ex!Updated, Ex!Node, Node
<1>2. exList[0] \subseteq Bondable /\ touched \subseteq Bondable
  BY ZeroNode DEF BookInv, ExTypes
<1>3. ASSUME NEW e \in Bondable PROVE e \in Ex!Updated(exList[0]) <=> e \in bonds[Owner[e[1]]]
  <2> DEFINE n == Owner[e[1]]
  <2>1. n \in Node
    BY EdgeFacts
  <2>2. BooksOf(n)
    BY <2>1 DEF BookInv
  <2>3. \A m \in Node : e \in exAdd[m] \cup exRemove[m] => m = n
    BY DEF BookInv, BooksOf
  <2>4. e \in touched <=> e \in exAdd[n] \cup exRemove[n]
    BY <2>1, <2>3
  <2>5. e \in touched => last(e) = n
    <3> SUFFICES ASSUME e \in touched PROVE last(e) = n
      OBVIOUS
    <3>1. e \in exAdd[n] \cup exRemove[n] /\ \A m \in Node : m > n => e \notin exAdd[m] \cup exRemove[m]
      <4>1. \A m \in Node : m > n => m # n
        BY <2>1 DEF Node
      <4> QED BY <2>3, <2>4, <4>1
    <3>2. last(e) \in Node /\ e \in exAdd[last(e)] \cup exRemove[last(e)]
      <4> HIDE DEF n
      <4> QED BY <2>1, <3>1
    <3> QED BY <2>3, <3>2
  <2>6. /\ e \in exAdd[n] => e \in bonds[n]
        /\ e \in exRemove[n] => e \notin bonds[n]
        /\ e \notin exAdd[n] \cup exRemove[n] => (e \in exList[0] <=> e \in bonds[n])
    BY <2>2 DEF BooksOf
  <2> HIDE DEF touched, last, n
  <2>7. e \in bonds[n] <=> e \in (exList[0] \ touched) \cup {f \in touched : f \in exAdd[last(f)]}
    BY <2>4, <2>5, <2>6
  <2> QED BY <1>1, <2>7 DEF n
<1> HIDE DEF last, touched
<1> QED
  BY <1>1, <1>2, <1>3

\* befIntP brings the exclusions up to date.
LEMMA BefIntPBooks ==
  ASSUME TopoInv, BookInv, BefIntP
  PROVE  BookInv' /\ \A e \in Bondable : e \in exList'[0] <=> e \in bonds[Owner[e[1]]]
<1>1. TopoTypes /\ ExTypes /\ All("run") /\ turn = "befIntP" /\ turn' = "aftIntV" /\ 0 \in Node
  BY ZeroNode DEF TopoInv, BookInv, BefIntP
<1>2. \A n \in Node : toDelete[n] = {} /\ pc[n] = "run"
  BY <1>1, AllAlike
<1>3. /\ bonds' = bonds /\ graph' = graph /\ newEdges' = newEdges /\ removedEdges' = removedEdges
      /\ toDelete' = toDelete /\ toAdd' = toAdd /\ pc' = pc
  BY DEF BefIntP, topoVars, noted
<1>4. \A n \in Node : Expected(n)' = Expected(n)
  BY <1>3 DEF Expected, Final
<1>5. /\ ExTypes' /\ \A n \in Node : exAdd'[n] = {} /\ exRemove'[n] = {}
      /\ \A e \in Bondable : e \in exList'[0] <=> e \in bonds[Owner[e[1]]]
  <2>1. CASE \E n \in Node : exDirty[n]
    <3>1. /\ exList' = [n \in Node |-> Ex!Updated(exList[n])]
          /\ exAdd' = [n \in Node |-> {}] /\ exRemove' = [n \in Node |-> {}]
      BY <2>1 DEF BefIntP, Ex!UpdateList, Ex!Node, Node
    <3>2. exList'[0] = Ex!Updated(exList[0])
      BY <1>1, <3>1
    <3>3. \A n \in Node : Ex!Updated(exList[n]) \subseteq Bondable
      <4> TAKE n \in Node
      <4>1. \A E : E \subseteq Bondable => Ex!Updated(E) \subseteq Bondable
        BY <1>1 DEF Ex!Updated, Ex!Node, Node, ExTypes
      <4> QED BY <1>1, <4>1 DEF ExTypes
    <3>4. ExTypes'
      BY <3>1, <3>3 DEF ExTypes
    <3> QED BY <3>1, <3>2, <3>4, UpdatedIsBonds
  <2>2. CASE ~\E n \in Node : exDirty[n]
    <3>1. exList' = exList /\ exAdd' = exAdd /\ exRemove' = exRemove
      BY <2>2 DEF BefIntP, Ex!UpdateList, Ex!exVars, Ex!Node, Node
    <3>2. \A n \in Node : exAdd[n] = {} /\ exRemove[n] = {}
      BY <2>2 DEF BookInv, BooksOf
    <3>3. ASSUME NEW e \in Bondable PROVE e \in exList[0] <=> e \in bonds[Owner[e[1]]]
      <4>1. Owner[e[1]] \in Node
        BY EdgeFacts
      <4> QED BY <3>2, <4>1 DEF BookInv, BooksOf
    <3> QED BY <1>1, <3>1, <3>2, <3>3 DEF ExTypes
  <2> QED BY <2>1, <2>2
<1>6. ASSUME NEW n \in Node PROVE BooksOf(n)'
  <2>1. BooksOf(n)
    BY DEF BookInv
  <2> QED BY <1>1, <1>2, <1>3, <1>4, <1>5, <2>1 DEF BooksOf
<1> QED
  BY <1>5, <1>6 DEF BookInv

-----------------------------------------------------------------------------
(* The bonds, the graph and the exclusions of all nodes are one list, one  *)
(* graph and one list of exclusions.                                       *)

AllBonds == UNION {bonds[n] \ toDelete[n] : n \in Node}

\* A bond is among all bonds if its owner keeps it.
LEMMA KeptByOwner ==
  ASSUME TopoTypes, BookInv
  PROVE  /\ AllBonds \subseteq Bondable
         /\ \A e \in Bondable : e \in AllBonds <=> e \in bonds[Owner[e[1]]] \ toDelete[Owner[e[1]]]
<1>1. AllBonds \subseteq Bondable
  BY DEF AllBonds, TopoTypes
<1>2. ASSUME NEW e \in Bondable PROVE e \in AllBonds <=> e \in bonds[Owner[e[1]]] \ toDelete[Owner[e[1]]]
  <2>1. Owner[e[1]] \in Node
    BY EdgeFacts
  <2>2. \A n \in Node : e \in bonds[n] => Owner[e[1]] = n
    BY DEF BookInv, BooksOf
  <2> QED BY <2>1, <2>2 DEF AllBonds
<1> QED
  BY <1>1, <1>2

\* Steps that leave all three alone.
LEMMA Stutters ==
  ASSUME \A n \in Node : bonds'[n] \ toDelete'[n] = bonds[n] \ toDelete[n],
         Final(0)' = Final(0), exList' = exList
  PROVE  UNCHANGED Abstract!abstractVars
<1>1. AllBonds' = AllBonds
  BY DEF AllBonds
<1> QED
  BY <1>1 DEF Abstract!abstractVars, AllBonds

\* Scripts and reactions change one bond.
LEMMA ChangesOne ==
  ASSUME OncePerWindow, TopoInv, TopoInv', BookInv, AddOrRemove
  PROVE  BookInv' /\ Abstract!Change
<1>1. TopoTypes /\ TopoTypes' /\ Working /\ ChangeBond /\ ExSettled /\ Signals /\ turn' = turn /\ 0 \in Node
  BY ZeroNode DEF AddOrRemove, TopoInv
<1>2. exList' = exList
  BY <1>1, SignalsNote
<1>3. PICK n \in Node, e \in Changeable : AddBond(n, e) \/ RemoveBond(n, e)
  BY <1>1 DEF ChangeBond
<1>4. BookInv'
  BY <1>1, <1>3, AddBondBooks, RemoveBondBooks
<1>5. e \in Bondable /\ graph' = graph /\ toDelete' = toDelete /\ toAdd' = toAdd /\ pc[n] = "run"
  BY <1>3, TopologyAssumption DEF AddBond, RemoveBond
<1>6. toDelete[n] = {}
  BY <1>1, <1>5 DEF Working
<1>7. AllBonds' = AllBonds \cup {e} \/ AllBonds' = AllBonds \ {e}
  <2>1. CASE AddBond(n, e)
    <3>1. bonds'[n] = bonds[n] \cup {e} /\ \A m \in Node \ {n} : bonds'[m] = bonds[m]
      BY <1>1, <2>1 DEF AddBond, TopoTypes
    <3> QED BY <1>5, <1>6, <3>1 DEF AllBonds
  <2>2. CASE RemoveBond(n, e)
    <3>1. bonds'[n] = bonds[n] \ {e} /\ \A m \in Node \ {n} : bonds'[m] = bonds[m]
      BY <1>1, <2>2 DEF RemoveBond, TopoTypes
    <3>2. \A m \in Node \ {n} : e \notin bonds[m]
      BY <2>2 DEF RemoveBond, BookInv, BooksOf
    <3> QED BY <1>5, <1>6, <3>1, <3>2 DEF AllBonds
  <2> QED BY <1>3, <2>1, <2>2
<1>8. Final(0)' = Final(0)
  BY <1>5 DEF Final
<1> QED
  BY <1>2, <1>4, <1>5, <1>7, <1>8 DEF Abstract!Change, AllBonds

\* exchangeData() brings the graph up to date, and removes edges around roots.
LEMMA GatherExchanges ==
  ASSUME TopoInv, TopoInv', BookInv, Gather, turn = "aftIntV", turn' = "befIntP", UNCHANGED exVars
  PROVE  BookInv' /\ Abstract!Exchange
<1>1. TopoTypes /\ TopoTypes' /\ Working' /\ 0 \in Node /\ exList' = exList
  BY ZeroNode DEF TopoInv, exVars
<1>2. /\ BookInv' /\ bonds' = bonds
      /\ \A m, n \in Node : toDelete'[m] = toDelete'[n] /\ toDelete[m] = {} /\ toDelete'[m] \subseteq Final(n)
  BY GatherBooks
<1>3. AllBonds' = AllBonds \ toDelete'[0] /\ toDelete'[0] \in SUBSET Final(0)
  BY <1>1, <1>2 DEF AllBonds
<1>4. Final(0)' = AllBonds'
  <2>1. \A n \in Node : pc'[n] # "run"
    <3>1. \A n \in Node : pc'[n] = "apply" \/ pc'[n] = "failed"
      BY DEF Gather
    <3> QED BY <3>1
  <2>2. \A n \in Node : Expected(n)' = Final(n)'
    BY <2>1 DEF Expected
  <2>3. \A n \in Node : Final(n)' = Final(0)'
    BY <1>1 DEF TopoInv, GraphsAgree
  <2>4. AllBonds' \subseteq Bondable /\ Final(0)' \subseteq Bondable
    BY <1>1, <1>2 DEF AllBonds, Final, TopoTypes
  <2>5. ASSUME NEW e \in Bondable PROVE e \in AllBonds' <=> e \in Final(0)'
    <3> DEFINE n == Owner[e[1]]
    <3>1. n \in Node
      BY EdgeFacts
    <3>2. e \in bonds'[n] \ toDelete'[n] <=> e \in Final(n)'
      BY <1>2, <2>2, <3>1 DEF BookInv, BooksOf
    <3>3. \A m \in Node : e \in bonds'[m] => m = n
      BY <1>2 DEF BookInv, BooksOf
    <3>4. e \in AllBonds' <=> e \in bonds'[n] \ toDelete'[n]
      BY <3>1, <3>3 DEF AllBonds
    <3> QED BY <2>3, <3>1, <3>2, <3>4
  <2> QED BY <2>4, <2>5
<1> QED
  BY <1>1, <1>2, <1>3, <1>4 DEF Abstract!Exchange, AllBonds

\* befIntP makes the exclusions those of the bonds.
LEMMA UpdatesAll ==
  ASSUME TopoInv, BookInv, BefIntP
  PROVE  BookInv' /\ Abstract!Update
<1>1. TopoTypes /\ All("run") /\ bonds' = bonds /\ toDelete' = toDelete /\ toAdd' = toAdd /\ graph' = graph /\ 0 \in Node
  BY ZeroNode DEF TopoInv, BefIntP, topoVars
<1>2. BookInv' /\ \A e \in Bondable : e \in exList'[0] <=> e \in bonds[Owner[e[1]]]
  BY BefIntPBooks
<1>3. exList'[0] = AllBonds
  <2>1. exList'[0] \subseteq Bondable /\ AllBonds \subseteq Bondable
    BY <1>1, <1>2, KeptByOwner DEF BookInv, ExTypes
  <2>2. ASSUME NEW e \in Bondable PROVE e \in AllBonds <=> e \in bonds[Owner[e[1]]]
    <3>1. toDelete[Owner[e[1]]] = {}
      BY <1>1, AllAlike, EdgeFacts
    <3> QED BY <1>1, <3>1, KeptByOwner
  <2> QED BY <1>2, <2>1, <2>2
<1>4. AllBonds' = AllBonds /\ Final(0)' = Final(0)
  BY <1>1 DEF AllBonds, Final
<1> QED
  BY <1>2, <1>3, <1>4 DEF Abstract!Update, AllBonds

\* Every step of the system is one of the abstract graph or changes nothing of it.
LEMMA AbstractStep ==
  ASSUME OncePerWindow, TopoInv, TopoInv', BookInv, [SysNext]_vars
  PROVE  BookInv' /\ [Abstract!Next]_(Abstract!abstractVars)
<1>1. CASE AddOrRemove
  BY <1>1, ChangesOne DEF Abstract!Next
<1>2. CASE BefIntP
  BY <1>2, UpdatesAll DEF Abstract!Next
<1>3. CASE AftIntV /\ \E n \in Node : dirty[n]
  <2>1. Gather /\ turn = "aftIntV" /\ turn' = "befIntP" /\ UNCHANGED exVars
    BY <1>3 DEF AftIntV
  <2> QED BY <2>1, GatherExchanges DEF Abstract!Next
<1>4. CASE ApplyGathered
  <2>1. PICK n \in Node : DeleteEdge(n) \/ NewEdge(n) \/ Initialized(n) \/ Finish(n)
    BY <1>4 DEF ApplyGathered
  <2>2. Signals /\ turn' = turn /\ exList' = exList /\ 0 \in Node
    BY <1>4, SignalsNote, ZeroNode DEF ApplyGathered
  <2>3. BookInv' /\ \A m \in Node : Final(m)' = Final(m) /\ bonds'[m] \ toDelete'[m] = bonds[m] \ toDelete[m]
    BY <2>1, <2>2, DeleteEdgeBooks, ApplyBooks
  <2> QED BY <2>2, <2>3, Stutters
<1>5. ASSUME /\ bonds' = bonds /\ graph' = graph /\ newEdges' = newEdges /\ removedEdges' = removedEdges
             /\ toDelete' = toDelete /\ toAdd' = toAdd /\ pc' = pc /\ exVars' = exVars
             /\ turn' = turn \/ turn' = "befIntP"
      PROVE  BookInv' /\ [Abstract!Next]_(Abstract!abstractVars)
  <2>1. exAdd' = exAdd /\ exRemove' = exRemove /\ exList' = exList /\ exDirty' = exDirty
    BY <1>5 DEF exVars
  <2>2. \A n \in Node : Expected(n)' = Expected(n) /\ Final(n)' = Final(n)
    BY <1>5 DEF Expected, Final
  <2>3. BookInv'
    BY <1>5, <2>1, <2>2 DEF BookInv, BooksOf, ExTypes
  <2> QED BY <1>5, <2>1, <2>2, <2>3, Stutters, ZeroNode
<1>6. CASE RunPostProcess /\ UNCHANGED <<exVars, turn>>
  BY <1>5, <1>6 DEF RunPostProcess, PostProcess
<1>7. CASE AftIntV /\ ~\E n \in Node : dirty[n]
  BY <1>5, <1>7 DEF AftIntV, topoVars, noted
<1>8. CASE UNCHANGED vars
  BY <1>5, <1>8 DEF vars, topoVars, noted
<1> QED
  BY <1>1, <1>2, <1>3, <1>4, <1>6, <1>7, <1>8 DEF SysNext, Integrate

\* If no bond is changed twice between two exchanges, the copies of graph and
\* exclusions on all nodes, brought up to date edge by edge, are one graph and
\* one list of exclusions that follow one list of bonds.
THEOREM Refinement == ASSUME OncePerWindow PROVE SysSpec => RefinesBondGraph
<1>1. SysInit => Abstract!Init
  <2> SUFFICES ASSUME SysInit PROVE Abstract!Init
    OBVIOUS
  <2>1. /\ bonds = [n \in Node |-> {e \in InitBonds : Owner[e[1]] = n}] /\ graph = [n \in Node |-> {}]
        /\ toDelete = [n \in Node |-> {}] /\ toAdd = [n \in Node |-> InitBonds]
        /\ exList = [n \in Node |-> InitBonds]
    BY DEF SysInit, Init, Ex!ExInit, Ex!Node, Node
  <2>2. AllBonds = InitBonds
    <3>1. \A e \in InitBonds : Owner[e[1]] \in Node
      BY EdgeFacts, TopologyAssumption
    <3> QED BY <2>1, <3>1 DEF AllBonds
  <2>3. Final(0) = InitBonds /\ exList[0] = InitBonds
    BY <2>1, ZeroNode DEF Final
  <2> QED BY <2>2, <2>3 DEF Abstract!Init, AllBonds
<1>2. SysInit => BookInv
  BY BooksStart
<1>3. SysInv /\ SysInv' /\ BookInv /\ [SysNext]_vars => BookInv' /\ [Abstract!Next]_(Abstract!abstractVars)
  BY AbstractStep DEF SysInv
<1> QED
  BY <1>1, <1>2, <1>3, Invariant, PTL DEF SysSpec, RefinesBondGraph, Abstract!Spec

=============================================================================
