----------------------------- MODULE FixedLists -----------------------------
(***************************************************************************)
(* The lists of bonds, angles and dihedrals: FixedPairList,                *)
(* FixedTripleList and FixedQuadrupleList.                                 *)
(*                                                                         *)
(* A tuple of particle ids is kept by the node that owns its key particle  *)
(* (globalPairs, globalTriples, globalQuadruples), which computes its      *)
(* force from a list of pointers rebuilt whenever particles have moved     *)
(* between nodes or cells.  When the storage sends a particle to another   *)
(* node, the tuples with that key travel in the same buffer.  Errors are   *)
(* counted over all nodes (esutil::Error), so that all of them throw.      *)
(*                                                                         *)
(* Nodes form a periodic row.  Off tells by how many domains a particle is *)
(* off the node that has it; migration is that of DomainDecomposition.     *)
(***************************************************************************)
EXTENDS Integers, Sequences, FiniteSets, Bags

CONSTANTS N,           \* number of nodes
          Id,          \* ids of the particles
          Tuples,      \* tuples scripts add and remove
          Home,        \* node that has a particle at the start
          MaxHops,     \* how many domains a particle may be off
          MaxLost,     \* how many particles are in no ghost layer
          Updates      \* callers of remove() call updateParticlesStorage()

ASSUME TupleAssumption ==
  /\ N \in Nat \ {0, 1}
  /\ Id \subseteq Nat
  \* no bond of a particle with itself, and the ends of an angle differ
  /\ \A t \in Tuples : t \in Seq(Id) /\ Len(t) \in 2 .. 4 /\ t[1] # t[Len(t)]
  /\ Home \in [Id -> 0 .. N - 1]
  /\ MaxHops \in Nat /\ MaxLost \in Nat
  /\ Updates \in BOOLEAN

Node == 0 .. N - 1
LeftOf(n)  == (n - 1 + N) % N
RightOf(n) == (n + 1) % N

VARIABLES owner,      \* the node that has a particle, or -1 on its way
          off,
          global,     \* tuples a node keeps, by ids
          local,      \* tuples a node computes forces of, by pointers
          known,      \* ids a node has a real particle or a ghost of
          net,        \* particles and tuples between two nodes
          pc,         \* what a node does next
          tuples      \* history: tuples added and not removed

vars == <<owner, off, global, local, known, net, pc, tuples>>

-----------------------------------------------------------------------------
(* Tuples.                                                                 *)

\* the order in which a tuple is stored: pairs with the smaller id first
Stored(t) == IF Len(t) = 2 /\ t[1] > t[2] THEN <<t[2], t[1]>> ELSE t

\* the id a tuple is found by: the first of a pair, the second of the others
Key(t) == IF Len(t) = 2 THEN t[1] ELSE t[2]

Members(t) == {t[i] : i \in DOMAIN t}
Reversed(t) == [i \in DOMAIN t |-> t[Len(t) + 1 - i]]

\* variant: an angle is not recognised from the other end
ExistsForward(n, t) == t \in global[n]

\* the search of add() among the tuples of this node
Exists(n, t) == t \in global[n] \/ (Len(t) > 2 /\ Reversed(t) \in global[n])

Owned(n) == {p \in Id : owner[p] = n}

\* Owners, tuples and phases keep their types, and bonds are kept with the
\* smaller id first, by which add() and remove() look for them.
TypeOK ==
  /\ owner \in [Id -> Node \cup {-1}]
  /\ off \in [Id -> -MaxHops .. MaxHops]
  /\ \A n \in Node : \A t \in global[n] \cup BagToSet(local[n]) : Len(t) = 2 => t[1] < t[2]
  /\ known \in [Node -> SUBSET Id]
  /\ pc \in [Node -> {"idle", "send", "recv", "reduce", "rebuild", "check", "failed"}]
  /\ \A m \in net : m.dst \in Node

Init ==
  /\ owner = Home
  /\ off = [p \in Id |-> 0]
  /\ global = [n \in Node |-> {}]
  /\ local = [n \in Node |-> EmptyBag]
  /\ known = [n \in Node |-> Id]
  /\ net = {}
  /\ pc = [n \in Node |-> "idle"]
  /\ tuples = {}

All(where) == pc = [n \in Node |-> where]

-----------------------------------------------------------------------------
(* What scripts do; all nodes take part.                                   *)

\* add(): the owner of the key adds the tuple unless it has it already; if a
\* member is out of its sight everybody throws and nothing changes
Add(u) ==
  LET t == Stored(u)
      n == owner[Key(t)]
  IN  /\ All("idle")
      /\ Members(t) \subseteq known[n]
      /\ ~Exists(n, t)
      /\ global' = [global EXCEPT ![n] = @ \cup {t}]
      /\ local' = [local EXCEPT ![n] = @ (+) SetToBag({t})]
      /\ tuples' = tuples \cup {t}
      /\ UNCHANGED <<owner, off, known, net, pc>>

\* remove(), and updateParticlesStorage() if its caller thinks of it, as
\* TopologyManager does and a script does not
Remove(u) ==
  LET gone == {Stored(u)} \cup (IF Len(u) > 2 THEN {Reversed(u)} ELSE {})
  IN  /\ All("idle")
      /\ \E n \in Node : global[n] \cap gone # {}
      /\ global' = [n \in Node |-> global[n] \ gone]
      /\ local' = IF Updates THEN [n \in Node |-> SetToBag(global'[n])] ELSE local
      /\ tuples' = tuples \ gone
      /\ UNCHANGED <<owner, off, known, net, pc>>

\* integration moves a particle, and decompose() begins
Decompose(p, k) ==
  /\ All("idle")
  /\ off' = [off EXCEPT ![p] = k]
  /\ pc' = [n \in Node |-> "send"]
  /\ UNCHANGED <<owner, global, local, known, net, tuples>>

-----------------------------------------------------------------------------
(* Migration, one neighbour at a time.                                     *)

\* variant: the tuples of a particle stay behind
KeyedNone(n, ps) == {}

\* beforeSendParticles: the tuples whose key is among the particles to send
Keyed(n, ps) == {t \in global[n] : Key(t) \in ps}

\* sendParticles to the left and to the right neighbour
Send(n) ==
  LET L == {p \in Owned(n) : off[p] < 0}
      R == {p \in Owned(n) : off[p] > 0}
  IN  /\ pc[n] = "send"
      /\ net' = net \cup {[dst |-> LeftOf(n), dir |-> -1, ids |-> L, tuples |-> Keyed(n, L)],
                          [dst |-> RightOf(n), dir |-> 1, ids |-> R, tuples |-> Keyed(n, R)]}
      /\ owner' = [p \in Id |-> IF p \in L \cup R THEN -1 ELSE owner[p]]
      /\ global' = [global EXCEPT ![n] = @ \ Keyed(n, L \cup R)]
      /\ pc' = [pc EXCEPT ![n] = "recv"]
      /\ UNCHANGED <<off, local, known, tuples>>

\* variant: the tuples from one neighbour are dropped
ReceivedLeft(l, r) == l.tuples

\* afterRecvParticles: the tuples of both buffers
Received(l, r) == l.tuples \cup r.tuples

\* recvParticles from both neighbours
Recv(n) ==
  /\ pc[n] = "recv"
  /\ \E l, r \in net :
       /\ l.dst = n /\ l.dir = -1 /\ r.dst = n /\ r.dir = 1
       /\ owner' = [p \in Id |-> IF p \in l.ids \cup r.ids THEN n ELSE owner[p]]
       /\ off' = [p \in Id |-> IF p \in l.ids THEN off[p] + 1
                               ELSE IF p \in r.ids THEN off[p] - 1 ELSE off[p]]
       /\ global' = [global EXCEPT ![n] = @ \cup Received(l, r)]
       /\ net' = net \ {l, r}
  /\ pc' = [pc EXCEPT ![n] = "reduce"]
  /\ UNCHANGED <<local, known, tuples>>

\* the reduction: another round, or the ghosts of the particles that are not
\* far from everybody else's domain
AllReduce ==
  /\ All("reduce")
  /\ \/ /\ \E p \in Id : off[p] # 0
        /\ pc' = [n \in Node |-> "send"]
        /\ UNCHANGED known
     \/ /\ \A p \in Id : off[p] = 0
        /\ \E lost \in SUBSET Id :
             /\ Cardinality(lost) <= MaxLost
             /\ known' = [n \in Node |-> Owned(n) \cup
                            {p \in Id \ lost : owner[p] \in {LeftOf(n), RightOf(n)}}]
        /\ pc' = [n \in Node |-> "rebuild"]
  /\ UNCHANGED <<owner, off, global, local, net, tuples>>

\* variant: the old pointers are not cleared
RebuildAppends(n) ==
  /\ pc[n] = "rebuild"
  /\ local' = [local EXCEPT ![n] = @ (+) SetToBag(global[n])]
  /\ pc' = [pc EXCEPT ![n] = "check"]
  /\ UNCHANGED <<owner, off, global, known, net, tuples>>

\* onParticlesChanged(): the pointers of all tuples of the node
Rebuild(n) ==
  /\ pc[n] = "rebuild"
  /\ local' = [local EXCEPT ![n] = SetToBag(global[n])]
  /\ pc' = [pc EXCEPT ![n] = "check"]
  /\ UNCHANGED <<owner, off, global, known, net, tuples>>

\* what onParticlesChanged() counts as an error
Error(n) == \E t \in global[n] : owner[Key(t)] # n \/ ~(Members(t) \subseteq known[n])

\* Error::checkException: everybody throws if anybody met an error
CheckException ==
  /\ All("check")
  /\ pc' = [n \in Node |-> IF \E m \in Node : Error(m) THEN "failed" ELSE "idle"]
  /\ UNCHANGED <<owner, off, global, local, known, net, tuples>>

\* the script ends
Failed == (\E n \in Node : pc[n] = "failed") /\ UNCHANGED vars

Next ==
  \/ \E u \in Tuples : Add(u) \/ Remove(u)
  \/ \E p \in Id, k \in -MaxHops .. MaxHops : Decompose(p, k)
  \/ \E n \in Node : Send(n) \/ Recv(n) \/ Rebuild(n)
  \/ AllReduce \/ CheckException \/ Failed

Spec == Init /\ [][Next]_vars

-----------------------------------------------------------------------------
(* Properties.                                                             *)

\* Tuples travel with their key particle: a tuple is on the node that has the
\* key, or in the buffer the key is in.
TuplesFollowKey ==
  /\ \A n \in Node : \A t \in global[n] : owner[Key(t)] = n
  /\ \A m \in net : \A t \in m.tuples : Key(t) \in m.ids

\* However often particles change node, no tuple is lost: what was added is
\* kept by some node or on its way.
NothingLost ==
  tuples = (UNION {global[n] : n \in Node}) \cup (UNION {m.tuples : m \in net})

\* nodes whose pointer list has a tuple, and how often
Computed(t) == {n \in Node : BagIn(t, local[n])}

\* Whenever forces are computed, each tuple that was added, and no tuple that
\* was removed, is computed: by one node, once, and with all members in reach.
ForcesOnce ==
  All("idle") =>
    /\ UNION {BagToSet(local[n]) : n \in Node} = tuples
    /\ \A t \in tuples : \E n \in Node :
         /\ Computed(t) = {n}
         /\ local[n][t] = 1
         /\ Members(t) \subseteq known[n]

\* tuples in the buffers, and all tuples there are
InFlight == UNION {m.tuples : m \in net}
Everywhere == InFlight \cup UNION {global[n] : n \in Node}

\* No tuple is ever in two places, nodes or buffers, and no bond or angle is
\* there from both ends.  A dihedral may be: from the other end its key is
\* the other inner particle, and add() searches the node of the key only.
NotTwice ==
  /\ \A n, k \in Node : n # k => global[n] \cap global[k] = {}
  /\ \A n \in Node : global[n] \cap InFlight = {}
  /\ \A l, m \in net : l # m => l.tuples \cap m.tuples = {}
  /\ \A t \in Everywhere : Len(t) < 4 => Reversed(t) \notin Everywhere
=============================================================================
