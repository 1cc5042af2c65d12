-------------------------- MODULE ChemicalReaction --------------------------
(***************************************************************************)
(* integrator/ChemicalReaction: bonds made and broken while the system     *)
(* runs.                                                                   *)
(*                                                                         *)
(* A reaction step looks for pairs in the Verlet lists, lets the owners of *)
(* both particles choose one partner each, has the first node settle what  *)
(* is left and tell everybody, and then every node applies the result to   *)
(* the copies it has.  Nodes wait for each other between these parts, and  *)
(* none reads what another writes: one action is one part on all nodes.    *)
(*                                                                         *)
(* The topology manager is seen through what BondGraph promises: searches  *)
(* see the bonds of the last exchange, the same on all nodes, and          *)
(* molecules are what these bonds connect.  Distances, rates and the       *)
(* random numbers are a choice of the pairs that react.                    *)
(***************************************************************************)
EXTENDS Integers, FiniteSets, SequencesExt

CONSTANTS N,              \* number of nodes
          Senders,        \* Senders[n]: direct neighbours in the order n unpacks them
          Id,             \* ids of the particles
          Owner,          \* the node a particle is real on
          Sees,           \* Sees[n]: ids node n has a real particle or a ghost of
          Res,            \* residue of a particle
          Type,           \* type of a particle
          InitBonds,      \* bonds that are there before
          InitState,      \* chemical state of a particle at the start
          Close,          \* Close[n]: pairs in the Verlet list of n
          Reactions,      \* reaction_list_: records of type Reaction
          MaxPerInterval, \* max_per_interval_
          Dissociations,  \* reverse_reaction_list_
          Breakable,      \* pairs the list of the reverse reactions may hold
          Reports         \* post-processes of reverse reactions return their particle

Node == 0 .. N - 1
Residue == {Res[p] : p \in Id}
Pairs == UNION {Close[n] : n \in Node}

\* types, bounds on the states and changes of the states, for two roles
Reaction == [type : Seq(Int), min : Seq(Int), max : Seq(Int), delta : Seq(Int),
             intraresidual : BOOLEAN, intramolecular : BOOLEAN]

ASSUME ChemicalAssumption ==
  /\ N \in Nat \ {0} /\ Id \subseteq Nat
  /\ Owner \in [Id -> Node] /\ Sees \in [Node -> SUBSET Id]
  /\ \A p \in Id : p \in Sees[Owner[p]]
  /\ \A n \in Node : Senders[n] \in Seq(Node \ {n})
  \* a Verlet list has pairs with a real particle of its node, each pair once
  /\ \A n \in Node : \A e \in Close[n] :
       /\ e \in Id \X Id /\ e[1] < e[2] /\ {e[1], e[2]} \subseteq Sees[n]
       /\ n \in {Owner[e[1]], Owner[e[2]]}
       /\ \A m \in Node \ {n} : e \notin Close[m]
       \* the ghost layer shows each of them to the owner of the other
       /\ {e[1], e[2]} \subseteq Sees[Owner[e[1]]] \cap Sees[Owner[e[2]]]
  /\ \A r \in DOMAIN Reactions : Reactions[r] \in Reaction
  /\ \A r \in DOMAIN Dissociations : Dissociations[r] \in Reaction
  /\ Breakable \subseteq Pairs
  /\ MaxPerInterval \in Nat /\ Reports \in BOOLEAN

VARIABLES state,      \* state[n][p]: chemical state of the copy of p on n
          bonds,      \* bonds in the lists of all nodes
          graph,      \* bonds the topology manager knows of
          list,       \* potential_pairs_ and later effective_pairs_ of a node
          modified,   \* modified_particles of a node
          pc,         \* what all nodes do next
          torn        \* history: a bond of a particle has broken in a step
                      \* that had agreed on a pair with this particle

vars == <<state, bonds, graph, list, modified, pc, torn>>

\* a pair, the reaction, and whether the first particle has the first role
Entry == [a : Id, b : Id, r : DOMAIN Reactions, order : {1, 2}]

-----------------------------------------------------------------------------
(* What the topology manager answers.                                      *)

Linked(p, q) == <<p, q>> \in graph \/ <<q, p>> \in graph

ResEdge(e) == {Res[e[1]], Res[e[2]]}
ResidueEdges(g) == {ResEdge(e) : e \in {f \in g : Res[f[1]] # Res[f[2]]}}

\* residues connected with r by the bonds g
Molecule(g, r) ==
  {s \in Residue : \A S \in SUBSET Residue :
     (r \in S /\ \A e \in ResidueEdges(g) : e \cap S # {} => e \subseteq S) => s \in S}

SameMolecule(p, q) == Res[q] \in Molecule(graph, Res[p])

-----------------------------------------------------------------------------
\* Lists, states and phases keep their types, and no state is negative, as
\* isValidState_T1() and isValidState_T2() assert.
TypeOK ==
  /\ state \in [Node -> [Id -> Nat]]
  /\ bonds \subseteq InitBonds \cup Pairs
  /\ graph \subseteq InitBonds \cup Pairs
  /\ \A n \in Node : list[n] \subseteq Entry
  /\ \A n \in Node : modified[n] \subseteq Sees[n]
  /\ pc \in {"react", "uniqueA", "uniqueB", "sort", "applyDR", "applyAR",
             "updateGhost", "exchange", "undefined"}
  /\ torn \in BOOLEAN

Init ==
  /\ state = [n \in Node |-> InitState]
  /\ bonds = InitBonds /\ graph = InitBonds
  /\ list = [n \in Node |-> {}]
  /\ modified = [n \in Node |-> {}]
  /\ pc = "react"
  /\ torn = FALSE

-----------------------------------------------------------------------------
(* Finding pairs.                                                          *)

\* type and state of the copy of p on n suit role i of reaction x
Fits(s, p, i, x) == Type[p] = x.type[i] /\ s[p] >= x.min[i] /\ s[p] < x.max[i]

\* the part of isValidState() about types and states: p and q in their roles
Roles(s, p, q, x) ==
  CASE Fits(s, p, 1, x) /\ Fits(s, q, 2, x) -> <<p, q>>
    [] Fits(s, q, 1, x) /\ Fits(s, p, 2, x) /\ ~(Fits(s, p, 1, x) /\ Fits(s, q, 2, x)) -> <<q, p>>
    [] OTHER -> <<>>

\* the part of isValidState() about the topology
Allowed(p, q, x) ==
  /\ Res[p] # Res[q]
  /\ x.intraresidual \/ {Res[p], Res[q]} \notin ResidueEdges(graph)
  /\ ~Linked(p, q)
  /\ x.intramolecular \/ ~SameMolecule(p, q)

\* pairs of the Verlet list of n that may react
Potential(n) ==
  {x \in Entry :
     LET roles == Roles(state[n], x.a, x.b, Reactions[x.r])
     IN  /\ <<x.a, x.b>> \in Close[n] /\ roles # <<>>
         /\ x.order = IF roles[1] = x.a THEN 1 ELSE 2
         /\ Allowed(x.a, x.b, Reactions[x.r])}

\* sendMultiMap(): a node adds the lists of its direct neighbours to its own
SendMultiMap(L) == [n \in Node |-> L[n] \cup UNION {L[m] : m \in Range(Senders[n])}]

\* React() up to the first exchange; rate and cutoff choose among the pairs
React ==
  /\ pc = "react"
  /\ \E S \in SUBSET UNION {Potential(n) : n \in Node} :
       list' = SendMultiMap([n \in Node |-> S \cap Potential(n)])
  /\ pc' = "uniqueA"
  /\ UNCHANGED <<state, bonds, graph, modified, torn>>

\* uniqueA(): the owner of the first particle keeps one pair for it
UniqueA ==
  LET pool == {x \in Entry : x \in list[Owner[x.a]]}
  IN  /\ pc = "uniqueA"
      /\ \E S \in SUBSET pool :
           /\ \A x \in pool : \E y \in S : y.a = x.a
           /\ \A x, y \in S : x.a = y.a => x = y
           /\ list' = SendMultiMap([n \in Node |-> {x \in S : Owner[x.a] = n}])
      /\ pc' = "uniqueB"
      /\ UNCHANGED <<state, bonds, graph, modified, torn>>

\* uniqueB(): the owner of the second particle keeps one pair for it
UniqueB ==
  LET pool == {x \in Entry : x \in list[Owner[x.b]]}
  IN  /\ pc = "uniqueB"
      /\ \E S \in SUBSET pool :
           /\ \A x \in pool : \E y \in S : y.b = x.b
           /\ \A x, y \in S : x.b = y.b => x = y
           /\ list' = SendMultiMap([n \in Node |-> {x \in S : Owner[x.b] = n}])
      /\ pc' = "sort"
      /\ UNCHANGED <<state, bonds, graph, modified, torn>>

-----------------------------------------------------------------------------
(* sortParticleReactionList().                                             *)

\* entries in the order of the multimap: a first particle has one at most
InOrder(S) == SetToSortSeq(S, LAMBDA x, y : x.a < y.a)

Ends(S) == {x.a : x \in S} \cup {x.b : x \in S}
ResEnds(S) == {Res[p] : p \in Ends(S)}

\* variant: residues may be used several times
UnusedParticles(S, x) == {x.a, x.b} \cap Ends(S) = {}

\* neither particle and neither residue is in use
Unused(S, x) == {x.a, x.b} \cap Ends(S) = {} /\ {Res[x.a], Res[x.b]} \cap ResEnds(S) = {}

\* variant: molecules that are about to become one are not looked at
SeparateNow(S, x) == Reactions[x.r].intramolecular \/ ~SameMolecule(x.a, x.b)

\* residues and molecules of the pairs taken so far, each pair by itself
Separate(S, x) ==
  LET joins(y, p, q) == \/ SameMolecule(p, y.a) /\ SameMolecule(q, y.b)
                        \/ SameMolecule(p, y.b) /\ SameMolecule(q, y.a)
  IN  \/ Reactions[x.r].intramolecular
      \/ ~SameMolecule(x.a, x.b) /\ \A y \in S : ~joins(y, x.a, x.b)

\* pairs a node proposes
Proposed(n) == FoldLeft(LAMBDA S, x : IF Unused(S, x) THEN S \cup {x} ELSE S, {}, InOrder(list[n]))

\* The first node takes the proposals of all nodes in their order, and no
\* more than MaxPerInterval; the result is broadcast.
SortParticleReactionList ==
  LET all == FlattenSeq([i \in 1 .. N |-> InOrder(Proposed(i - 1))])
      take(S, x) == IF Cardinality(S) < MaxPerInterval /\ Separate(S, x) /\ Unused(S, x)
                    THEN S \cup {x} ELSE S
  IN  /\ pc = "sort"
      /\ list' = [n \in Node |-> FoldLeft(take, {}, all)]
      /\ pc' = "applyDR"
      /\ UNCHANGED <<state, bonds, graph, modified, torn>>

-----------------------------------------------------------------------------
(* Applying the result.                                                    *)

\* applyDR() for a bond that breaks, on the node that keeps it: the state of
\* the copies of this node changes
Break(e, r) ==
  LET n == Owner[e[1]]
      x == Dissociations[r]
      roles == Roles(state[n], e[1], e[2], x)
  IN  /\ pc = "applyDR" /\ e \in bonds /\ roles # <<>>
      /\ bonds' = bonds \ {e}
      /\ state' = [state EXCEPT ![n][roles[1]] = @ + x.delta[1], ![n][roles[2]] = @ + x.delta[2]]
      /\ modified' = [modified EXCEPT ![n] = IF Reports THEN @ \cup {e[1], e[2]} ELSE @]
      /\ torn' = (torn \/ {e[1], e[2]} \cap Ends(list[n]) # {})
      /\ UNCHANGED <<graph, list, pc>>

\* DissociationReaction::isValidState() never returns its ret_val, so that any
\* answer is possible: a pair with roles may be left alone, and one without may
\* be taken for one that has them, which are then read uninitialized
BreakUndefined(e, r) ==
  /\ pc = "applyDR" /\ e \in bonds
  /\ Roles(state[Owner[e[1]]], e[1], e[2], Dissociations[r]) = <<>>
  /\ pc' = "undefined"
  /\ UNCHANGED <<state, bonds, graph, list, modified, torn>>

\* the rest of the bonds stay
DoneDR ==
  /\ pc = "applyDR"
  /\ pc' = "applyAR"
  /\ UNCHANGED <<state, bonds, graph, list, modified, torn>>

\* variant: states change where the bond is made
AcceptWhereMade(n, acc, x) ==
  IF {x.a, x.b} \subseteq Sees[n] /\ Owner[x.a] = n
  THEN [state    |-> [acc.state EXCEPT ![x.a] = @ + 1, ![x.b] = @ + 1],
        modified |-> acc.modified \cup {x.a, x.b},
        made     |-> acc.made \cup {<<x.a, x.b>>}]
  ELSE acc

\* variant: the second particle is not noted as modified
AcceptReportsFirst(n, acc, x) ==
  LET rx == Reactions[x.r]
      p == IF x.order = 1 THEN x.a ELSE x.b
      q == IF x.order = 1 THEN x.b ELSE x.a
  IN  IF {p, q} \subseteq Sees[n] /\ Fits(acc.state, p, 1, rx) /\ Fits(acc.state, q, 2, rx)
      THEN [state    |-> [acc.state EXCEPT ![p] = @ + rx.delta[1], ![q] = @ + rx.delta[2]],
            modified |-> acc.modified \cup {p},
            made     |-> IF Owner[x.a] = n THEN acc.made \cup {<<x.a, x.b>>} ELSE acc.made]
      ELSE acc

\* what node n makes of an entry: nothing unless it has both particles and
\* they still fit
Accept(n, acc, x) ==
  LET rx == Reactions[x.r]
      p == IF x.order = 1 THEN x.a ELSE x.b
      q == IF x.order = 1 THEN x.b ELSE x.a
  IN  IF {p, q} \subseteq Sees[n] /\ Fits(acc.state, p, 1, rx) /\ Fits(acc.state, q, 2, rx)
      THEN [state    |-> [acc.state EXCEPT ![p] = @ + rx.delta[1], ![q] = @ + rx.delta[2]],
            modified |-> acc.modified \cup {p, q},
            \* iadd() adds it where the first particle is real
            made     |-> IF Owner[x.a] = n THEN acc.made \cup {<<x.a, x.b>>} ELSE acc.made]
      ELSE acc

\* applyAR()
ApplyAR ==
  LET after(n) == FoldLeft(LAMBDA acc, x : Accept(n, acc, x),
                           [state |-> state[n], modified |-> modified[n], made |-> {}],
                           InOrder(list[n]))
  IN  /\ pc = "applyAR"
      /\ state' = [n \in Node |-> after(n).state]
      /\ modified' = [n \in Node |-> after(n).modified]
      /\ bonds' = bonds \cup UNION {after(n).made : n \in Node}
      /\ pc' = "updateGhost"
      /\ UNCHANGED <<graph, list, torn>>

\* updateGhost(): state of p on n after the messages of the neighbours, of
\* which the last one counts; real particles are not changed
Updated(n, p) ==
  FoldLeft(LAMBDA s, m : IF p \in modified[m] THEN state[m][p] ELSE s,
           state[n][p],
           IF p \in Sees[n] /\ Owner[p] # n THEN Senders[n] ELSE <<>>)

UpdateGhost ==
  /\ pc = "updateGhost"
  /\ state' = [n \in Node |-> [p \in Id |-> Updated(n, p)]]
  /\ modified' = [n \in Node |-> {}]
  /\ pc' = "exchange"
  /\ UNCHANGED <<bonds, graph, list, torn>>

\* TopologyManager::exchangeData() comes after the reactions
ExchangeData ==
  /\ pc = "exchange"
  /\ graph' = bonds
  /\ list' = [n \in Node |-> {}]
  /\ pc' = "react"
  /\ UNCHANGED <<state, bonds, modified, torn>>

\* decompose() sends particles with their states to all ghosts
Resort ==
  /\ pc = "react"
  /\ state' = [n \in Node |-> [p \in Id |-> IF p \in Sees[n] THEN state[Owner[p]][p] ELSE state[n][p]]]
  /\ UNCHANGED <<bonds, graph, list, modified, pc, torn>>

Dissociate == \E e \in Breakable, r \in DOMAIN Dissociations : Break(e, r)

Undefined ==
  \/ \E e \in Breakable, r \in DOMAIN Dissociations : BreakUndefined(e, r)
  \/ pc = "undefined" /\ UNCHANGED vars

Next ==
  \/ React \/ UniqueA \/ UniqueB \/ SortParticleReactionList \/ Dissociate \/ Undefined \/ DoneDR
  \/ ApplyAR \/ UpdateGhost \/ ExchangeData \/ Resort

Spec == Init /\ [][Next]_vars

-----------------------------------------------------------------------------
(* Properties.                                                             *)

\* The state of a real particle counts the bonds it has gained, as "A^a + B^b
\* -> A^{a+deltaA}-B^{b+deltaB}" says: whatever several nodes did with their
\* copies, both owners of a bond noticed.
BothEndsKnow ==
  pc = "react" => \A p \in Id :
    state[Owner[p]][p] = InitState[p] + Cardinality({e \in bonds \ InitBonds : p \in {e[1], e[2]}})

\* After updateGhost() "to update the ghost particles" the ghosts of a particle
\* have its state.
GhostsUpdated ==
  pc = "exchange" => \A n \in Node : \A p \in Sees[n] : state[n][p] = state[Owner[p]][p]

\* Through any number of steps that make and break bonds, with and without
\* decompose() between them, both owners of a bond count it, unless applyDR()
\* has broken a bond of a particle that was to react in the same step.
StateCountsBonds == torn \/ BothEndsKnow

\* And as long as that has not happened the ghosts of a particle have its
\* state when updateGhost() is done, whichever neighbour's message comes last.
CopiesAgree == torn \/ GhostsUpdated

\* A particle and a residue take part in one reaction of a step at most.
OneReactionPerResidue ==
  pc = "applyDR" => \A n \in Node : \A x, y \in list[n] :
    x = y \/ {Res[x.a], Res[x.b]} \cap {Res[y.a], Res[y.b]} = {}

\* Every pair of a step is accepted by all nodes that see both particles or
\* by none: otherwise one end of a bond would not know of it.  A bond broken
\* since the pair was agreed on may tear them apart.
AcceptedTogether ==
  ~torn /\ pc = "applyAR" => \A x \in list[0] : \A m, n \in {k \in Node : {x.a, x.b} \subseteq Sees[k]} :
    \A p \in {x.a, x.b} : \A i \in {1, 2} :
       Fits(state[m], p, i, Reactions[x.r]) <=> Fits(state[n], p, i, Reactions[x.r])

\* Without intramolecular reactions no ring of residues is closed, by two
\* reactions of one step together either.  MaxPerInterval is two: with three
\* reactions per step a ring through three molecules is possible.
NoRings ==
  Cardinality({Molecule(bonds, r) : r \in Residue})
    = Cardinality(Residue) - Cardinality({e \in bonds : Res[e[1]] # Res[e[2]]})

=============================================================================
