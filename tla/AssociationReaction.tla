------------------------ MODULE AssociationReaction -------------------------
(***************************************************************************)
(* The parallel reaction scheme A + B(0) -> A-B of                         *)
(* integrator/AssociationReaction.                                         *)
(*                                                                         *)
(* A node holds the real particles of its domain and ghost copies of those *)
(* around it; a particle may have several ghost copies on one node, and    *)
(* localParticles knows only one copy of an id.  The state of a particle   *)
(* is a property: ghost copies get it when ghosts are exchanged (a         *)
(* resort), not when their positions are updated.                          *)
(*                                                                         *)
(* Who is near whom is fixed for the few steps looked at here.  Choices    *)
(* that nodes make independently of each other are made in one joint step; *)
(* applying the reactions, where nodes wait for each other, is not.        *)
(***************************************************************************)
EXTENDS NodeGrid, FiniteSets

CONSTANTS A, B,            \* ids of the reactants of either type
          Owner,           \* the node a particle is real on
          Ghosts,          \* Ghosts[n][p]: number of ghost copies of p on n
          Pairs,           \* Verlet pairs in reach: node and copy numbers
          stateAMin, deltaA, deltaB,
          InitState,       \* state of every A at the start
          MaxSteps         \* bound on the number of reaction steps

Id == A \cup B

\* the fixed pair list files a bond under its smaller id
Pid1(x) == IF x[1] < x[2] THEN x[1] ELSE x[2]

\* copy 0 of a particle is the real one
Copies(n, p) == (IF Owner[p] = n THEN {0} ELSE {}) \cup 1 .. Ghosts[n][p]
Copy == UNION {{n} \X {p} \X Copies(n, p) : n \in Node, p \in Id}
Real(p) == <<Owner[p], p, 0>>

\* the copy localParticles points to: the real one, else the first ghost
Indexed(n, p) == IF Owner[p] = n THEN {Real(p)}
                 ELSE IF Ghosts[n][p] > 0 THEN {<<n, p, 1>>} ELSE {}

\* a node has ghosts from around it: the ghost exchange goes one step along
\* each coordinate in turn
Beside(n, c) == {n, NodeNeighbor(n, c, Left), NodeNeighbor(n, c, Right)}
Around(n) == {k \in Node : \E i \in Beside(n, 2) : \E j \in Beside(i, 1) : k \in Beside(j, 0)}

ASSUME LayoutAssumption ==
  /\ A \subseteq Nat /\ B \subseteq Nat /\ A \cap B = {}
  /\ Owner \in [Id -> Node]
  /\ \A n \in Node, p \in Id : /\ Ghosts[n][p] \in Nat
                               /\ Ghosts[n][p] > 0 => Owner[p] \in Around(n)
  /\ IsFiniteSet(Pairs)
  /\ \A x \in Pairs : /\ <<x.node, x.a, x.ka>> \in Copy /\ x.a \in A
                      /\ <<x.node, x.b, x.kb>> \in Copy /\ x.b \in B
                      \* partners are local on each other's node
                      /\ Indexed(Owner[x.a], x.b) # {} /\ Indexed(Owner[x.b], x.a) # {}

ASSUME ReactionAssumption ==
  /\ stateAMin \in Int /\ deltaA \in Int /\ deltaB \in Int /\ InitState \in Int
  /\ MaxSteps \in Nat

VARIABLES st,       \* state of every copy
          alist,    \* candidate pairs <<a, b>> a node knows
          blist,    \* agreed pairs a node still has to apply
          adding,   \* the pair a node is adding to the fixed pair list
          pc,       \* what a node does next
          bonds,    \* bonds in the fixed pair list
          born,     \* bonds of the current step
          steps

vars == <<st, alist, blist, adding, pc, bonds, born, steps>>

\* Lists, states and bonds keep their types in each phase of react().
TypeOK ==
  /\ st \in [Copy -> Int]
  /\ alist \in [Node -> SUBSET (A \X B)]
  /\ blist \in [Node -> SUBSET (A \X B)]
  /\ adding \in [Node -> SUBSET (A \X B)]
  /\ pc \in [Node -> {"collect", "uniqueA", "uniqueB", "apply", "add", "left"}]
  /\ bonds \subseteq A \X B /\ born \subseteq A \X B
  /\ steps \in 0 .. MaxSteps

Init ==
  /\ st = [x \in Copy |-> IF x[2] \in A THEN InitState ELSE 0]
  /\ alist = [n \in Node |-> {}]
  /\ blist = [n \in Node |-> {}]
  /\ adding = [n \in Node |-> {}]
  /\ pc = [n \in Node |-> "collect"]
  /\ bonds = {} /\ born = {}
  /\ steps = 0

All(where) == pc = [n \in Node |-> where]

-----------------------------------------------------------------------------
(* sendMultiMap: a two-way exchange along each coordinate in turn.         *)

Dirs(c) == CASE GridSize[c] = 1 -> {}
             [] GridSize[c] = 2 -> {Left}       \* avoids double communication
             [] OTHER -> {Left, Right}

\* variant: pairs travel in one direction only
GatherOneWay(mm, c) ==
  [n \in Node |-> IF GridSize[c] = 1 THEN mm[n] ELSE mm[n] \cup mm[NodeNeighbor(n, c, Right)]]

Gather(mm, c) ==
  [n \in Node |-> mm[n] \cup UNION {mm[NodeNeighbor(n, c, Opposite(d))] : d \in Dirs(c)}]

SendMultiMap(mm) == Gather(Gather(Gather(mm, 0), 1), 2)

-----------------------------------------------------------------------------
(* One reaction step.                                                      *)

\* the conditions of reactPair besides distance and rate
Eligible(x) == /\ st[<<x.node, x.a, x.ka>>] >= stateAMin
               /\ st[<<x.node, x.b, x.kb>>] = 0

\* reactPair over all Verlet lists, and the first exchange
Collect ==
  /\ All("collect") /\ steps < MaxSteps
  /\ \E hit \in SUBSET {x \in Pairs : Eligible(x)} :
       alist' = SendMultiMap([n \in Node |-> {<<x.a, x.b>> : x \in {y \in hit : y.node = n}}])
  /\ pc' = [n \in Node |-> "uniqueA"]
  /\ born' = {}
  /\ steps' = steps + 1
  /\ UNCHANGED <<st, blist, adding, bonds>>

\* variant: every candidate of an A is kept
UniqueAKeepsAll ==
  /\ All("uniqueA")
  /\ alist' = SendMultiMap([n \in Node |-> {x \in alist[n] : Owner[x[1]] = n}])
  /\ pc' = [n \in Node |-> "uniqueB"]
  /\ UNCHANGED <<st, blist, adding, bonds, born, steps>>

\* the owner of an A keeps one of its pairs, then the second exchange
UniqueA ==
  /\ All("uniqueA")
  /\ LET asked == {a \in A : \E b \in B : <<a, b>> \in alist[Owner[a]]}
     IN  \E f \in [asked -> B] :
           /\ \A a \in asked : <<a, f[a]>> \in alist[Owner[a]]
           /\ alist' = SendMultiMap([n \in Node |->
                         {<<a, f[a]>> : a \in {x \in asked : Owner[x] = n}}])
  /\ pc' = [n \in Node |-> "uniqueB"]
  /\ UNCHANGED <<st, blist, adding, bonds, born, steps>>

\* the owner of a B keeps one of its pairs, then the third exchange
UniqueB ==
  /\ All("uniqueB")
  /\ LET asked == {b \in B : \E a \in A : <<a, b>> \in alist[Owner[b]]}
     IN  \E f \in [asked -> A] :
           /\ \A b \in asked : <<f[b], b>> \in alist[Owner[b]]
           /\ blist' = SendMultiMap([n \in Node |->
                         {<<f[b], b>> : b \in {x \in asked : Owner[x] = n}}])
  /\ pc' = [n \in Node |-> "apply"]
  /\ UNCHANGED <<st, alist, adding, bonds, born, steps>>

\* variant: the state of B changes only where A is not known
ApplyEither(n, x) ==
  /\ pc[n] = "apply"
  /\ st' = [c \in Copy |-> IF c \in Indexed(n, x[1]) THEN st[c] + deltaA
                           ELSE IF Indexed(n, x[1]) = {} /\ c \in Indexed(n, x[2])
                           THEN st[c] + deltaB ELSE st[c]]
  /\ blist' = [blist EXCEPT ![n] = @ \ {x}]
  /\ adding' = [adding EXCEPT ![n] = {x}]
  /\ pc' = [pc EXCEPT ![n] = "add"]
  /\ UNCHANGED <<alist, bonds, born, steps>>

\* variant: only real particles change
ApplyReals(n, x) ==
  /\ pc[n] = "apply"
  /\ st' = [c \in Copy |-> IF c = Real(x[1]) /\ Owner[x[1]] = n THEN st[c] + deltaA
                           ELSE IF c = Real(x[2]) /\ Owner[x[2]] = n THEN st[c] + deltaB
                           ELSE st[c]]
  /\ blist' = [blist EXCEPT ![n] = @ \ {x}]
  /\ adding' = [adding EXCEPT ![n] = {x}]
  /\ pc' = [pc EXCEPT ![n] = "add"]
  /\ UNCHANGED <<alist, bonds, born, steps>>

\* applyAR takes the next pair: both states change in the copy the node
\* knows, then FixedPairList::add is called ...
Apply(n, x) ==
  /\ pc[n] = "apply"
  /\ st' = [c \in Copy |-> IF c \in Indexed(n, x[1]) THEN st[c] + deltaA
                           ELSE IF c \in Indexed(n, x[2]) THEN st[c] + deltaB
                           ELSE st[c]]
  /\ blist' = [blist EXCEPT ![n] = @ \ {x}]
  /\ adding' = [adding EXCEPT ![n] = {x}]
  /\ pc' = [pc EXCEPT ![n] = "add"]
  /\ UNCHANGED <<alist, bonds, born, steps>>

\* ... whose err.checkException() returns when all nodes have called it; the
\* node that has the particle with the smaller id files the bond
AddReturns ==
  /\ All("add")
  /\ LET new == UNION {{x \in adding[n] : Owner[Pid1(x)] = n} : n \in Node}
     IN  bonds' = bonds \cup new /\ born' = born \cup new
  /\ adding' = [n \in Node |-> {}]
  /\ pc' = [n \in Node |-> "apply"]
  /\ UNCHANGED <<st, alist, blist, steps>>

Leave(n) ==
  /\ pc[n] = "apply" /\ blist[n] = {}
  /\ pc' = [pc EXCEPT ![n] = "left"]
  /\ UNCHANGED <<st, alist, blist, adding, bonds, born, steps>>

\* exchangeGhosts copies the properties of the real particles
Refreshed == [c \in Copy |-> st[Real(c[2])]]

\* the next time step, which reduces the largest displacement over all nodes
\* and resorts when that exceeds half the skin
TimeStep ==
  /\ All("left")
  /\ st' = Refreshed \/ st' = st
  /\ pc' = [n \in Node |-> "collect"]
  /\ UNCHANGED <<alist, blist, adding, bonds, born, steps>>

Finished == All("collect") /\ steps = MaxSteps /\ UNCHANGED vars

Next ==
  \/ Collect \/ UniqueA \/ UniqueB \/ AddReturns \/ TimeStep \/ Finished
  \/ \E n \in Node : Leave(n) \/ \E x \in blist[n] : Apply(n, x)

Spec == Init /\ [][Next]_vars

-----------------------------------------------------------------------------
(* Properties.                                                             *)

\* "each particle enters only in one new bond per reaction step"
OneBondPerStep == \A x, y \in born : x # y => x[1] # y[1] /\ x[2] # y[2]

\* Only a B in state 0 reacts, and it leaves that state by the reaction.
ReactsFromZero == \A b \in B : st[Real(b)] \in {0, deltaB}

\* Between steps the state of a particle says how many bonds it has formed:
\* no change was lost or applied twice on the way between the nodes.
StateCountsBonds ==
  All("left") =>
    /\ \A a \in A : st[Real(a)] = InitState + deltaA * Cardinality({x \in bonds : x[1] = a})
    /\ \A b \in B : st[Real(b)] = deltaB * Cardinality({x \in bonds : x[2] = b})

\* A node waits in the collective part of add() only while no other node has
\* gone on to the next time step.
AddsAlign == \A m, n \in Node : ~(pc[m] = "add" /\ pc[n] = "left")
=============================================================================
