-------------------------- MODULE FixedListsProofs --------------------------
(***************************************************************************)
(* Proofs about FixedLists, for every number of nodes, particles and       *)
(* tuples, however far particles move and however many are out of sight.   *)
(***************************************************************************)
EXTENDS FixedLists, TLAPS

-----------------------------------------------------------------------------
(* The inductive invariant.                                                *)

\* tuples as they are kept: pairs have the smaller id first
Kept == {t \in Seq(Id) : /\ Len(t) \in 2 .. 4 /\ t[1] # t[Len(t)]
                         /\ Len(t) = 2 => t[1] < t[2]}

Message == [dst : Node, dir : {-1, 1}, ids : SUBSET Id, tuples : SUBSET Kept]

\* the neighbour a buffer comes from
Sender(m) == IF m.dir = -1 THEN RightOf(m.dst) ELSE LeftOf(m.dst)

Types ==
  /\ owner \in [Id -> Node \cup {-1}]
  /\ off \in [Id -> -MaxHops .. MaxHops]
  /\ known \in [Node -> SUBSET Id]
  /\ pc \in [Node -> {"idle", "send", "recv", "reduce", "rebuild", "check", "failed"}]
  /\ global \in [Node -> SUBSET Kept]
  /\ DOMAIN local = Node /\ \A n \in Node : DOMAIN local[n] \subseteq Kept
  /\ tuples \subseteq Kept
  /\ net \subseteq Message

Migrating == {"send", "recv", "reduce"}

\* a collective call takes all nodes from one kind of work to the next
Together ==
  \E S \in {{"idle"}, Migrating, {"rebuild", "check"}, {"failed"}} :
    \A n \in Node : pc[n] \in S

\* no node is a round ahead of a neighbour: a buffer is taken in the round in
\* which it was sent, and no two of one round look alike to the receiver
Rounds ==
  /\ \A n \in Node : pc[n] = "reduce" => pc[LeftOf(n)] # "send" /\ pc[RightOf(n)] # "send"
  /\ \A m \in net : pc[m.dst] \in {"send", "recv"} /\ pc[Sender(m)] \in {"recv", "reduce"}
  /\ \A l, m \in net : l.dst = m.dst /\ l.dir = m.dir => l = m

\* a particle without an owner is in one buffer, which goes its way
Carried ==
  /\ \A p \in Id : owner[p] = -1 => \E m \in net : p \in m.ids
  /\ \A m \in net : \A p \in m.ids : owner[p] = -1 /\ off[p] * m.dir > 0
  /\ \A l, m \in net : \A p \in Id : p \in l.ids /\ p \in m.ids => l = m

\* no bond or angle is there from both ends
NoTwin == \A t \in tuples : Len(t) < 4 => Reversed(t) \notin tuples

\* the tuples of a node that is not moving particles are in its sight
InReach ==
  \A n \in Node : pc[n] = "idle" => \A t \in global[n] : Members(t) \subseteq known[n]

\* the pointers are those of the tuples, each once
Pointers ==
  Updates => \A n \in Node : pc[n] \in {"check", "idle"} => local[n] = SetToBag(global[n])

IInv ==
  /\ Types /\ Together /\ Rounds /\ Carried
  /\ TuplesFollowKey /\ NothingLost /\ NoTwin /\ InReach /\ Pointers

-----------------------------------------------------------------------------
(* The ring.                                                               *)

\* A remainder is found by subtracting the modulus once.
LEMMA ModOnce ==
  ASSUME NEW a \in Nat, NEW n \in Nat \ {0}, a < 2 * n
  PROVE  a % n = IF a < n THEN a ELSE a - n
<1> DEFINE q == a \div n
<1>1. q \in Int /\ a = n * q + (a % n) /\ a % n \in 0 .. n - 1
  OBVIOUS
<1>2. q >= 0
  BY <1>1
<1>3. q < 2
  <2> SUFFICES ASSUME q >= 2 PROVE FALSE
    BY <1>1
  <2>1. n * q >= n * 2
    BY <1>1
  <2> QED BY <1>1, <2>1
<1>4. CASE q = 0
  BY <1>1, <1>4
<1>5. CASE q = 1
  BY <1>1, <1>5
<1> QED
  BY <1>1, <1>2, <1>3, <1>4, <1>5

\* Neighbours on the ring are nodes, and the left neighbour of the right one
\* is the node itself.
LEMMA Ring ==
  ASSUME NEW n \in Node
  PROVE  /\ LeftOf(n) \in Node /\ RightOf(n) \in Node
         /\ LeftOf(RightOf(n)) = n /\ RightOf(LeftOf(n)) = n
<1>1. N \in Nat /\ N >= 2 /\ n \in Nat /\ n < N
  BY TupleAssumption DEF Node
<1>2. ASSUME NEW k \in Node
      PROVE  /\ LeftOf(k) = IF k = 0 THEN N - 1 ELSE k - 1
             /\ RightOf(k) = IF k = N - 1 THEN 0 ELSE k + 1
  <2>1. k \in Nat /\ k < N
    BY <1>1 DEF Node
  <2>2. (k - 1 + N) % N = IF k - 1 + N < N THEN k - 1 + N ELSE k - 1 + N - N
    <3> DEFINE a == k - 1 + N
    <3>1. a \in Nat /\ N \in Nat \ {0} /\ a < 2 * N
      BY <1>1, <2>1
    <3> HIDE DEF a
    <3>2. a % N = IF a < N THEN a ELSE a - N
      BY <3>1, ModOnce
    <3> QED BY <1>1, <2>1, <3>2 DEF a
  <2>3. (k + 1) % N = IF k + 1 < N THEN k + 1 ELSE k + 1 - N
    <3> DEFINE a == k + 1
    <3>1. a \in Nat /\ N \in Nat \ {0} /\ a < 2 * N
      BY <1>1, <2>1
    <3> HIDE DEF a
    <3>2. a % N = IF a < N THEN a ELSE a - N
      BY <3>1, ModOnce
    <3> QED BY <1>1, <2>1, <3>2 DEF a
  <2> QED BY <1>1, <2>1, <2>2, <2>3 DEF LeftOf, RightOf
<1>3. LeftOf(n) \in Node /\ RightOf(n) \in Node
  BY <1>1, <1>2 DEF Node
<1> QED
  BY <1>1, <1>2, <1>3

-----------------------------------------------------------------------------
(* Tuples.                                                                 *)

\* add() keeps tuples in the form remove() looks for, by a key that is one of
\* the members.
LEMMA StoredKept ==
  ASSUME NEW u \in Tuples
  PROVE  Stored(u) \in Kept
<1>1. u \in Seq(Id) /\ Len(u) \in 2 .. 4 /\ u[1] # u[Len(u)] /\ Id \subseteq Nat
  BY TupleAssumption
<1>2. u[1] \in Id /\ u[2] \in Id
  BY <1>1
<1>3. CASE Len(u) = 2 /\ u[1] > u[2]
  BY <1>1, <1>2, <1>3 DEF Stored, Kept
<1>4. CASE ~(Len(u) = 2 /\ u[1] > u[2])
  BY <1>1, <1>2, <1>4 DEF Stored, Kept
<1> QED
  BY <1>3, <1>4

\* The particle a tuple is filed under is one of its own.
LEMMA KeyIsId ==
  ASSUME NEW t \in Kept
  PROVE  Key(t) \in Id
  BY DEF Key, Kept

\* An angle and its reverse have the same key; a bond is stored in one order
\* only; and no bond or angle is its own reverse.
LEMMA ReverseFacts ==
  ASSUME NEW t \in Kept
  PROVE  /\ Len(t) = 3 => Key(Reversed(t)) = Key(t) /\ Len(Reversed(t)) = 3
         /\ Len(t) = 2 => Reversed(t) \notin Kept
         /\ Reversed(t) # t
         /\ Reversed(t) \in Seq(Id) /\ Len(Reversed(t)) = Len(t)
         /\ Reversed(Reversed(t)) = t
<1> DEFINE r == Reversed(t)
<1>1. t \in Seq(Id) /\ Len(t) \in 2 .. 4 /\ t[1] # t[Len(t)] /\ DOMAIN t = 1 .. Len(t)
      /\ Id \subseteq Nat
  BY TupleAssumption DEF Kept
<1>2. r = [i \in 1 .. Len(t) |-> t[Len(t) + 1 - i]]
  BY <1>1 DEF Reversed
<1>3. \A i \in 1 .. Len(t) : Len(t) + 1 - i \in 1 .. Len(t) /\ r[i] \in Id
  BY <1>1, <1>2
<1>4. r \in Seq(Id) /\ Len(r) = Len(t)
  BY <1>1, <1>2, <1>3
<1>5. r[1] = t[Len(t)] /\ r[Len(t)] = t[1]
  BY <1>1, <1>2
<1>6. r # t
  BY <1>1, <1>5
<1>7. Len(t) = 3 => Key(r) = Key(t)
  BY <1>1, <1>2, <1>4 DEF Key
<1>8. Len(t) = 2 => r \notin Kept
  <2> SUFFICES ASSUME Len(t) = 2, r \in Kept PROVE FALSE
    OBVIOUS
  <2>1. t[1] < t[2] /\ r[1] < r[2]
    BY <1>4 DEF Kept
  <2>2. t[1] \in Id /\ t[2] \in Id
    BY <1>1
  <2>3. t[1] \in Nat /\ t[2] \in Nat
    BY <1>1, <2>2
  <2> QED BY <1>5, <2>1, <2>3
<1>9. Reversed(r) = t
  <2>1. Reversed(r) = [i \in 1 .. Len(t) |-> r[Len(t) + 1 - i]]
    BY <1>1, <1>4 DEF Reversed
  <2>2. \A i \in 1 .. Len(t) : r[Len(t) + 1 - i] = t[i]
    BY <1>1, <1>2, <1>3
  <2> QED BY <1>1, <2>1, <2>2
<1> QED
  BY <1>4, <1>6, <1>7, <1>8, <1>9

-----------------------------------------------------------------------------
(* Steps.                                                                  *)

\* When no node moves particles, nothing is on its way.
LEMMA Settled ==
  ASSUME IInv, \A n \in Node : pc[n] \notin {"send", "recv"}
  PROVE  net = {} /\ \A p \in Id : owner[p] \in Node
<1>1. \A m \in net : m.dst \in Node
  BY DEF IInv, Types, Message
<1>2. net = {}
  BY <1>1 DEF IInv, Rounds
<1> QED
  BY <1>2 DEF IInv, Types, Carried

\* All nodes at the same place.
LEMMA AllAt ==
  ASSUME NEW w, All(w), NEW n \in Node
  PROVE  pc[n] = w
  BY DEF All

\* Empty lists satisfy the invariant.
LEMMA InitIInv == Init => IInv
<1> SUFFICES ASSUME Init PROVE IInv
  OBVIOUS
<1>1. N \in Nat /\ N >= 2 /\ MaxHops \in Nat /\ Home \in [Id -> Node]
  BY TupleAssumption DEF Node
<1>2. Types
  <2>1. owner \in [Id -> Node \cup {-1}] /\ off \in [Id -> -MaxHops .. MaxHops]
    BY <1>1 DEF Init
  <2>2. DOMAIN local = Node /\ \A n \in Node : DOMAIN local[n] \subseteq Kept
    BY DEF Init, EmptyBag, SetToBag
  <2> QED BY <2>1, <2>2 DEF Init, Types
<1>3. Together
  BY DEF Init, Together
<1>4. Rounds
  BY Ring DEF Init, Rounds
<1>5. Carried
  <2>1. \A p \in Id : owner[p] # -1
    BY <1>1 DEF Init, Node
  <2> QED BY <2>1 DEF Init, Carried
<1>6. TuplesFollowKey /\ NothingLost /\ NoTwin
  BY DEF Init, TuplesFollowKey, NothingLost, NoTwin
<1>7. InReach /\ Pointers
  BY DEF Init, InReach, Pointers, EmptyBag
<1> QED
  BY <1>2, <1>3, <1>4, <1>5, <1>6, <1>7 DEF IInv

\* add(): the tuple goes to the owner of its key, which would have found it
\* had it been there from either end.
LEMMA AddStep ==
  ASSUME IInv, NEW u \in Tuples, Add(u)
  PROVE  IInv'
<1> DEFINE t == Stored(u)
           n == owner[Key(t)]
<1>1. t \in Kept /\ Key(t) \in Id
  BY StoredKept, KeyIsId
<1>2. All("idle") /\ \A k \in Node : pc[k] = "idle"
  BY AllAt DEF Add
<1>3. net = {} /\ n \in Node
  BY <1>1, <1>2, Settled
<1> HIDE DEF t
<1>4. /\ Members(t) \subseteq known[n]
      /\ ~Exists(n, t)
      /\ global' = [global EXCEPT ![n] = @ \cup {t}]
      /\ local' = [local EXCEPT ![n] = @ (+) SetToBag({t})]
      /\ tuples' = tuples \cup {t}
      /\ owner' = owner /\ off' = off /\ known' = known /\ net' = net /\ pc' = pc
  BY DEF Add, t
<1>5. global \in [Node -> SUBSET Kept] /\ DOMAIN local = Node
  BY DEF IInv, Types
<1>6. /\ global'[n] = global[n] \cup {t}
      /\ local'[n] = local[n] (+) SetToBag({t})
      /\ \A k \in Node \ {n} : global'[k] = global[k] /\ local'[k] = local[k]
  BY <1>3, <1>4, <1>5
<1>7. DOMAIN local'[n] = DOMAIN local[n] \cup {t}
  BY <1>6 DEF SetToBag, (+)
<1>8. Types'
  <2>1. global' \in [Node -> SUBSET Kept]
    BY <1>1, <1>3, <1>4, <1>5
  <2>2. DOMAIN local' = Node /\ \A k \in Node : DOMAIN local'[k] \subseteq Kept
    BY <1>1, <1>4, <1>5, <1>6, <1>7 DEF IInv, Types
  <2>3. tuples' \subseteq Kept
    BY <1>1, <1>4 DEF IInv, Types
  <2> QED BY <1>4, <2>1, <2>2, <2>3 DEF IInv, Types
<1>9. Together' /\ Rounds' /\ Carried'
  BY <1>4 DEF IInv, Together, Rounds, Carried, Sender
<1>10. TuplesFollowKey'
  BY <1>3, <1>4, <1>6 DEF IInv, TuplesFollowKey
<1>11. NothingLost'
  <2>1. tuples = UNION {global[k] : k \in Node}
    BY <1>3 DEF IInv, NothingLost
  <2>2. UNION {global'[k] : k \in Node} = (UNION {global[k] : k \in Node}) \cup {t}
    BY <1>3, <1>6
  <2> QED BY <1>3, <1>4, <2>1, <2>2 DEF NothingLost
<1>12. NoTwin'
  <2>1. ASSUME NEW s \in tuples, Len(s) < 4, s \in Kept
        PROVE  Reversed(s) # t /\ Reversed(t) # s
    <3>1. PICK k \in Node : s \in global[k]
      BY <1>3 DEF IInv, NothingLost
    <3>2. owner[Key(s)] = k
      BY <3>1 DEF IInv, TuplesFollowKey
    <3>3. SUFFICES ASSUME Reversed(t) = s PROVE FALSE
      BY <2>1, <1>1, ReverseFacts
    <3>4. Len(t) = Len(s) /\ Len(t) \in 2 .. 4
      BY <1>1, <3>3, ReverseFacts DEF Kept
    <3>5. CASE Len(t) = 2
      BY <1>1, <2>1, <3>3, <3>5, ReverseFacts
    <3>6. CASE Len(t) = 3
      BY <1>1, <1>4, <3>1, <3>2, <3>3, <3>6, ReverseFacts DEF Exists
    <3> QED BY <2>1, <3>4, <3>5, <3>6
  <2>2. Reversed(t) # t
    BY <1>1, ReverseFacts
  <2>3. tuples \subseteq Kept
    BY DEF IInv, Types
  <2>4. ASSUME NEW s \in tuples', Len(s) < 4 PROVE Reversed(s) \notin tuples'
    <3>1. CASE s = t
      <4> SUFFICES ASSUME Reversed(t) \in tuples PROVE FALSE
        BY <1>4, <2>2, <3>1
      <4>1. Len(Reversed(t)) < 4
        BY <1>1, <2>4, <3>1, ReverseFacts
      <4> QED BY <2>1, <2>3, <4>1
    <3>2. CASE s \in tuples
      BY <1>4, <2>1, <2>3, <2>4, <3>2 DEF IInv, NoTwin
    <3> QED BY <1>4, <3>1, <3>2
  <2> QED BY <2>4 DEF NoTwin
<1>13. InReach'
  BY <1>3, <1>4, <1>6 DEF IInv, InReach
<1>14. Pointers'
  <2> SUFFICES ASSUME Updates PROVE local'[n] = SetToBag(global'[n])
    BY <1>2, <1>4, <1>6 DEF IInv, Pointers
  <2>1. local[n] = SetToBag(global[n]) /\ t \notin global[n]
    BY <1>2, <1>3, <1>4 DEF IInv, Pointers, Exists
  <2>2. SetToBag(global[n]) (+) SetToBag({t}) = SetToBag(global[n] \cup {t})
    BY <2>1 DEF SetToBag, (+)
  <2> QED BY <1>6, <2>1, <2>2
<1> QED
  BY <1>8, <1>9, <1>10, <1>11, <1>12, <1>13, <1>14 DEF IInv

\* remove() takes the same tuples from the nodes and from the history.
LEMMA RemoveStep ==
  ASSUME IInv, NEW u \in Tuples, Remove(u)
  PROVE  IInv'
<1> DEFINE gone == {Stored(u)} \cup (IF Len(u) > 2 THEN {Reversed(u)} ELSE {})
<1>1. All("idle") /\ \A k \in Node : pc[k] = "idle"
  BY AllAt DEF Remove
<1>2. net = {}
  BY <1>1, Settled
<1>3. /\ global' = [k \in Node |-> global[k] \ gone]
      /\ local' = IF Updates THEN [k \in Node |-> SetToBag(global'[k])] ELSE local
      /\ tuples' = tuples \ gone
      /\ owner' = owner /\ off' = off /\ known' = known /\ net' = net /\ pc' = pc
  BY DEF Remove
<1> HIDE DEF gone
<1>4. global \in [Node -> SUBSET Kept] /\ global' \in [Node -> SUBSET Kept]
  BY <1>3 DEF IInv, Types
<1>5. Types'
  <2>1. CASE Updates
    <3>1. DOMAIN local' = Node /\ \A k \in Node : DOMAIN local'[k] = global'[k]
      BY <1>3, <2>1 DEF SetToBag
    <3> QED BY <1>3, <1>4, <3>1 DEF IInv, Types
  <2>2. CASE ~Updates
    BY <1>3, <1>4, <2>2 DEF IInv, Types
  <2> QED BY <2>1, <2>2
<1>6. Together' /\ Rounds' /\ Carried'
  BY <1>3 DEF IInv, Together, Rounds, Carried, Sender
<1>7. TuplesFollowKey' /\ NoTwin' /\ InReach'
  BY <1>2, <1>3 DEF IInv, TuplesFollowKey, NoTwin, InReach
<1>8. NothingLost'
  <2>1. UNION {global'[k] : k \in Node} = (UNION {global[k] : k \in Node}) \ gone
    BY <1>3
  <2> QED BY <1>2, <1>3, <2>1 DEF IInv, NothingLost
<1>9. Pointers'
  BY <1>3 DEF Pointers
<1> QED
  BY <1>5, <1>6, <1>7, <1>8, <1>9 DEF IInv

\* decompose() begins with nothing on its way.
LEMMA DecomposeStep ==
  ASSUME IInv, NEW p \in Id, NEW k \in -MaxHops .. MaxHops, Decompose(p, k)
  PROVE  IInv'
<1>1. All("idle") /\ \A n \in Node : pc[n] = "idle"
  BY AllAt DEF Decompose
<1>2. net = {} /\ \A q \in Id : owner[q] \in Node
  BY <1>1, Settled
<1>3. /\ off' = [off EXCEPT ![p] = k]
      /\ \A n \in Node : pc'[n] = "send"
      /\ pc' = [n \in Node |-> "send"]
      /\ owner' = owner /\ global' = global /\ local' = local /\ known' = known
      /\ net' = {} /\ tuples' = tuples
  BY <1>2 DEF Decompose
<1>4. Types'
  BY <1>3 DEF IInv, Types
<1>5. Together' /\ Rounds'
  BY <1>3 DEF Together, Rounds, Migrating
<1>6. Carried'
  BY <1>2, <1>3 DEF IInv, Carried
<1>7. TuplesFollowKey' /\ NothingLost' /\ NoTwin'
  BY <1>2, <1>3 DEF IInv, TuplesFollowKey, NothingLost, NoTwin
<1>8. InReach' /\ Pointers'
  BY <1>3 DEF InReach, Pointers
<1> QED
  BY <1>4, <1>5, <1>6, <1>7, <1>8 DEF IInv

\* A node that takes part in a migration finds all nodes in it.
LEMMA AllMigrate ==
  ASSUME IInv, NEW n \in Node, pc[n] \in Migrating
  PROVE  \A k \in Node : pc[k] \in Migrating
  BY DEF IInv, Together, Migrating

\* sendParticles: what leaves a node leaves it with its tuples, in a buffer
\* the receiver has not seen the like of in this round.
LEMMA SendStep ==
  ASSUME IInv, NEW n \in Node, Send(n)
  PROVE  IInv'
<1> DEFINE L == {p \in Owned(n) : off[p] < 0}
           R == {p \in Owned(n) : off[p] > 0}
           a == [dst |-> LeftOf(n), dir |-> -1, ids |-> L, tuples |-> Keyed(n, L)]
           b == [dst |-> RightOf(n), dir |-> 1, ids |-> R, tuples |-> Keyed(n, R)]
<1>1. /\ pc[n] = "send"
      /\ net' = net \cup {a, b}
      /\ owner' = [p \in Id |-> IF p \in L \cup R THEN -1 ELSE owner[p]]
      /\ global' = [global EXCEPT ![n] = @ \ Keyed(n, L \cup R)]
      /\ pc' = [pc EXCEPT ![n] = "recv"]
      /\ off' = off /\ local' = local /\ known' = known /\ tuples' = tuples
  BY DEF Send
<1>2. \A k \in Node : pc[k] \in Migrating
  BY <1>1, AllMigrate DEF Migrating
<1>3. /\ L = {p \in Id : owner[p] = n /\ off[p] < 0}
      /\ R = {p \in Id : owner[p] = n /\ off[p] > 0}
  BY DEF Owned
<1>4. /\ a.dst = LeftOf(n) /\ a.dir = -1 /\ a.ids = L /\ a.tuples = Keyed(n, L)
      /\ b.dst = RightOf(n) /\ b.dir = 1 /\ b.ids = R /\ b.tuples = Keyed(n, R)
  OBVIOUS
<1>5. /\ LeftOf(n) \in Node /\ RightOf(n) \in Node
      /\ Sender(a) = n /\ Sender(b) = n
  BY Ring DEF Sender
<1>6. /\ global \in [Node -> SUBSET Kept] /\ pc \in [Node -> Migrating]
      /\ Keyed(n, L) \subseteq Kept /\ Keyed(n, R) \subseteq Kept
  BY <1>2 DEF IInv, Types, Keyed
<1>7. a \in Message /\ b \in Message
  BY <1>3, <1>5, <1>6 DEF Message
<1>8. \A m \in net : m \in Message /\ m.dst \in Node /\ m.dir \in {-1, 1} /\ Sender(m) \in Node
  BY Ring DEF IInv, Types, Message, Sender
<1> HIDE DEF L, R, a, b
<1>9. pc'[n] = "recv" /\ \A k \in Node \ {n} : pc'[k] = pc[k]
  BY <1>1, <1>6
<1>10. global'[n] = global[n] \ Keyed(n, L \cup R) /\ \A k \in Node \ {n} : global'[k] = global[k]
  BY <1>1, <1>6
<1>11. Types'
  <2>1. owner' \in [Id -> Node \cup {-1}]
    BY <1>1 DEF IInv, Types
  <2>2. pc' \in [Node -> {"idle", "send", "recv", "reduce", "rebuild", "check", "failed"}]
    BY <1>1 DEF IInv, Types
  <2>3. global' \in [Node -> SUBSET Kept]
    BY <1>1, <1>6
  <2> QED BY <1>1, <1>7, <2>1, <2>2, <2>3 DEF IInv, Types
<1>12. Together'
  BY <1>2, <1>9 DEF Together, Migrating
<1>13. Rounds'
  <2>1. ASSUME NEW k \in Node, pc'[k] = "reduce"
        PROVE  pc'[LeftOf(k)] # "send" /\ pc'[RightOf(k)] # "send"
    BY <1>9, <2>1, Ring DEF IInv, Rounds
  <2>2. pc[LeftOf(n)] # "reduce" /\ pc[RightOf(n)] # "reduce"
    BY <1>1, <1>5, Ring DEF IInv, Rounds
  <2>3. ASSUME NEW m \in net'
        PROVE  pc'[m.dst] \in {"send", "recv"} /\ pc'[Sender(m)] \in {"recv", "reduce"}
    <3>1. CASE m \in net
      BY <1>1, <1>8, <1>9, <3>1 DEF IInv, Rounds
    <3>2. CASE m = a \/ m = b
      BY <1>2, <1>4, <1>5, <1>9, <2>2, <3>2 DEF Migrating
    <3> QED BY <1>1, <3>1, <3>2
  <2>4. ASSUME NEW m \in net
        PROVE  ~(m.dst = a.dst /\ m.dir = a.dir) /\ ~(m.dst = b.dst /\ m.dir = b.dir)
    <3>1. Sender(m) # n
      BY <1>1 DEF IInv, Rounds
    <3> QED BY <1>4, <3>1, Ring DEF Sender
  <2>5. ASSUME NEW l \in net', NEW m \in net', l.dst = m.dst, l.dir = m.dir
        PROVE  l = m
    <3>1. CASE l \in net /\ m \in net
      BY <2>5, <3>1 DEF IInv, Rounds
    <3> QED BY <1>1, <1>4, <2>4, <2>5, <3>1
  <2>6. \A m : Sender(m)' = Sender(m)
    BY DEF Sender, LeftOf, RightOf
  <2> QED BY <2>1, <2>3, <2>5, <2>6 DEF Rounds
<1>14. Carried'
  <2>1. \A p \in L \cup R : p \in Id /\ owner[p] = n /\ n # -1
    BY <1>3, TupleAssumption DEF Node
  <2>2. ASSUME NEW p \in Id, owner'[p] = -1
        PROVE  \E m \in net' : p \in m.ids
    <3>1. CASE p \in L \cup R
      BY <1>1, <1>4, <3>1
    <3>2. CASE p \notin L \cup R
      BY <1>1, <2>2, <3>2 DEF IInv, Carried
    <3> QED BY <3>1, <3>2
  <2>3. ASSUME NEW m \in net', NEW p \in m.ids
        PROVE  owner'[p] = -1 /\ off'[p] * m.dir > 0
    <3>1. CASE m \in net
      <4>1. p \in Id
        BY <1>8, <3>1 DEF Message
      <4> QED BY <1>1, <3>1, <4>1 DEF IInv, Carried
    <3>2. CASE m = a \/ m = b
      <4>1. p \in Id /\ off[p] \in Int
        BY <1>3, <1>4, <3>2, TupleAssumption DEF IInv, Types
      <4>2. off[p] * m.dir > 0
        BY <1>3, <1>4, <3>2, <4>1
      <4> QED BY <1>1, <1>4, <3>2, <4>1, <4>2
    <3> QED BY <1>1, <3>1, <3>2
  <2>4. ASSUME NEW l \in net', NEW m \in net', NEW p \in Id, p \in l.ids, p \in m.ids
        PROVE  l = m
    <3>1. CASE l \in net /\ m \in net
      BY <2>4, <3>1 DEF IInv, Carried
    <3>2. \A k \in net : p \in k.ids => p \notin L \cup R
      BY <2>1 DEF IInv, Carried
    <3>3. ~(p \in L /\ p \in R)
      BY <1>3, TupleAssumption DEF IInv, Types
    <3> QED BY <1>1, <1>4, <2>4, <3>1, <3>2, <3>3
  <2> QED BY <2>2, <2>3, <2>4 DEF Carried
<1>15. TuplesFollowKey'
  <2>1. ASSUME NEW k \in Node, NEW t \in global'[k] PROVE owner'[Key(t)] = k
    <3>1. t \in global[k] /\ Key(t) \in Id
      BY <1>6, <1>10, KeyIsId
    <3>2. Key(t) \notin L \cup R
      BY <1>3, <1>10, <2>1, <3>1 DEF Keyed, IInv, TuplesFollowKey
    <3> QED BY <1>1, <3>1, <3>2 DEF IInv, TuplesFollowKey
  <2>2. ASSUME NEW m \in net', NEW t \in m.tuples PROVE Key(t) \in m.ids
    BY <1>1, <1>4 DEF Keyed, IInv, TuplesFollowKey
  <2> QED BY <2>1, <2>2 DEF TuplesFollowKey, Key
<1>16. NothingLost'
  <2>1. Keyed(n, L \cup R) = Keyed(n, L) \cup Keyed(n, R) /\ Keyed(n, L \cup R) \subseteq global[n]
    BY DEF Keyed
  <2>2. UNION {m.tuples : m \in net'} = (UNION {m.tuples : m \in net}) \cup Keyed(n, L \cup R)
    BY <1>1, <1>4, <2>1
  <2>3. (UNION {global'[k] : k \in Node}) \cup Keyed(n, L \cup R) = UNION {global[k] : k \in Node}
    BY <1>10, <2>1
  <2> QED BY <1>1, <2>2, <2>3 DEF IInv, NothingLost
<1>17. NoTwin' /\ InReach' /\ Pointers'
  BY <1>1, <1>2, <1>9 DEF IInv, NoTwin, InReach, Pointers, Migrating
<1> QED
  BY <1>11, <1>12, <1>13, <1>14, <1>15, <1>16, <1>17 DEF IInv

\* recvParticles: a node takes all that is on its way to it, and the tuples
\* are again where their keys are.
LEMMA RecvStep ==
  ASSUME IInv, NEW n \in Node, Recv(n)
  PROVE  IInv'
<1>1. PICK l \in net, r \in net :
        /\ l.dst = n /\ l.dir = -1 /\ r.dst = n /\ r.dir = 1
        /\ owner' = [p \in Id |-> IF p \in l.ids \cup r.ids THEN n ELSE owner[p]]
        /\ off' = [p \in Id |-> IF p \in l.ids THEN off[p] + 1
                               ELSE IF p \in r.ids THEN off[p] - 1 ELSE off[p]]
        /\ global' = [global EXCEPT ![n] = @ \cup Received(l, r)]
        /\ net' = net \ {l, r}
  BY DEF Recv
<1>2. /\ pc[n] = "recv" /\ pc' = [pc EXCEPT ![n] = "reduce"]
      /\ local' = local /\ known' = known /\ tuples' = tuples
  BY DEF Recv
<1>3. \A k \in Node : pc[k] \in Migrating
  BY <1>2, AllMigrate DEF Migrating
<1>4. /\ global \in [Node -> SUBSET Kept] /\ pc \in [Node -> Migrating]
      /\ owner \in [Id -> Node \cup {-1}] /\ off \in [Id -> -MaxHops .. MaxHops]
      /\ MaxHops \in Nat /\ -1 \notin Node
  BY <1>3, TupleAssumption DEF IInv, Types, Node
<1>5. \A m \in net : /\ m \in Message /\ m.dst \in Node /\ m.dir \in {-1, 1}
                     /\ m.ids \subseteq Id /\ m.tuples \subseteq Kept /\ Sender(m) \in Node
  BY Ring DEF IInv, Types, Message, Sender
<1>6. pc'[n] = "reduce" /\ \A k \in Node \ {n} : pc'[k] = pc[k]
  BY <1>2, <1>4
<1>7. /\ global'[n] = global[n] \cup l.tuples \cup r.tuples
      /\ \A k \in Node \ {n} : global'[k] = global[k]
  BY <1>1, <1>4 DEF Received
<1>8. \A m \in net' : m \in net /\ m # l /\ m # r /\ m.dst # n
  BY <1>1, <1>5 DEF IInv, Rounds
<1>9. \A m \in net : \A p \in m.ids : owner[p] = -1
  BY DEF IInv, Carried
<1>10. Types'
  <2>1. owner' \in [Id -> Node \cup {-1}]
    BY <1>1, <1>4
  <2>2. ASSUME NEW p \in Id PROVE off'[p] \in -MaxHops .. MaxHops
    <3>1. off[p] \in -MaxHops .. MaxHops /\ off[p] \in Int
      BY <1>4
    <3>2. p \in l.ids => off[p] < 0
      BY <1>1, <3>1 DEF IInv, Carried
    <3>3. p \in r.ids => off[p] > 0
      BY <1>1, <3>1 DEF IInv, Carried
    <3> QED BY <1>1, <1>4, <3>1, <3>2, <3>3
  <2>3. off' \in [Id -> -MaxHops .. MaxHops]
    BY <1>1, <2>2
  <2>4. global' \in [Node -> SUBSET Kept]
    BY <1>1, <1>4, <1>5 DEF Received
  <2>5. pc' \in [Node -> {"idle", "send", "recv", "reduce", "rebuild", "check", "failed"}]
    BY <1>2 DEF IInv, Types
  <2> QED BY <1>1, <1>2, <2>1, <2>3, <2>4, <2>5 DEF IInv, Types
<1>11. Together'
  BY <1>3, <1>6 DEF Together, Migrating
<1>12. Rounds'
  <2>1. pc[LeftOf(n)] # "send" /\ pc[RightOf(n)] # "send"
    <3>1. Sender(l) = RightOf(n) /\ Sender(r) = LeftOf(n)
      BY <1>1 DEF Sender
    <3> QED BY <3>1 DEF IInv, Rounds
  <2>2. ASSUME NEW k \in Node, pc'[k] = "reduce"
        PROVE  pc'[LeftOf(k)] # "send" /\ pc'[RightOf(k)] # "send"
    BY <1>6, <2>1, <2>2, Ring DEF IInv, Rounds
  <2>3. ASSUME NEW m \in net'
        PROVE  pc'[m.dst] \in {"send", "recv"} /\ pc'[Sender(m)] \in {"recv", "reduce"}
    BY <1>5, <1>6, <1>8 DEF IInv, Rounds
  <2>4. \A k, m \in net' : k.dst = m.dst /\ k.dir = m.dir => k = m
    BY <1>8 DEF IInv, Rounds
  <2>5. \A m : Sender(m)' = Sender(m)
    BY DEF Sender, LeftOf, RightOf
  <2> QED BY <2>2, <2>3, <2>4, <2>5 DEF Rounds
<1>13. Carried'
  <2>1. ASSUME NEW p \in Id, owner'[p] = -1
        PROVE  \E m \in net' : p \in m.ids
    <3>1. p \notin l.ids /\ p \notin r.ids /\ owner[p] = -1
      BY <1>1, <1>4, <2>1
    <3> QED BY <1>1, <3>1 DEF IInv, Carried
  <2>2. ASSUME NEW m \in net', NEW p \in m.ids
        PROVE  owner'[p] = -1 /\ off'[p] * m.dir > 0
    <3>1. p \in Id /\ p \notin l.ids /\ p \notin r.ids
      BY <1>5, <1>8 DEF IInv, Carried
    <3> QED BY <1>1, <1>8, <3>1 DEF IInv, Carried
  <2>3. \A k, m \in net' : \A p \in Id : p \in k.ids /\ p \in m.ids => k = m
    BY <1>8 DEF IInv, Carried
  <2> QED BY <2>1, <2>2, <2>3 DEF Carried
<1>14. TuplesFollowKey'
  <2>1. ASSUME NEW k \in Node, NEW t \in global'[k] PROVE owner'[Key(t)] = k
    <3>1. t \in Kept /\ Key(t) \in Id
      BY <1>4, <1>5, <1>7, KeyIsId
    <3>2. CASE t \in global[k]
      <4>1. owner[Key(t)] = k /\ k # -1
        BY <1>4, <3>2 DEF IInv, TuplesFollowKey
      <4> QED BY <1>1, <1>9, <3>1, <4>1
    <3>3. CASE k = n /\ t \in l.tuples \cup r.tuples
      BY <1>1, <3>1, <3>3 DEF IInv, TuplesFollowKey
    <3> QED BY <1>7, <3>2, <3>3
  <2>2. \A m \in net' : \A t \in m.tuples : Key(t) \in m.ids
    BY <1>8 DEF IInv, TuplesFollowKey
  <2> QED BY <2>1, <2>2 DEF TuplesFollowKey, Key
<1>15. NothingLost'
  <2>1. UNION {m.tuples : m \in net}
          = (UNION {m.tuples : m \in net'}) \cup (l.tuples \cup r.tuples)
    BY <1>1
  <2>2. UNION {global'[k] : k \in Node}
          = (UNION {global[k] : k \in Node}) \cup (l.tuples \cup r.tuples)
    BY <1>7
  <2> QED BY <1>2, <2>1, <2>2 DEF IInv, NothingLost
<1>16. NoTwin' /\ InReach' /\ Pointers'
  BY <1>2, <1>3, <1>6 DEF IInv, NoTwin, InReach, Pointers, Migrating
<1> QED
  BY <1>10, <1>11, <1>12, <1>13, <1>14, <1>15, <1>16 DEF IInv

\* The reduction, the rebuilding of the pointers and the counting of errors
\* find nothing on its way.
LEMMA AllReduceStep ==
  ASSUME IInv, AllReduce
  PROVE  IInv'
<1>1. \A n \in Node : pc[n] = "reduce"
  BY AllAt DEF AllReduce
<1>2. net = {}
  BY <1>1, Settled
<1>3. /\ owner' = owner /\ off' = off /\ global' = global /\ local' = local
      /\ net' = {} /\ tuples' = tuples /\ known' \in [Node -> SUBSET Id]
      /\ \E w \in {"send", "rebuild"} : pc' = [n \in Node |-> w]
  BY <1>2 DEF AllReduce, IInv, Types, Owned
<1>4. PICK w \in {"send", "rebuild"} : pc' = [n \in Node |-> w]
  BY <1>3
<1>5. \A n \in Node : pc'[n] = w
  BY <1>4
<1>6. Types'
  BY <1>3, <1>4 DEF IInv, Types
<1>7. Together' /\ Rounds'
  BY <1>3, <1>5 DEF Together, Rounds, Migrating
<1>8. Carried' /\ TuplesFollowKey' /\ NothingLost' /\ NoTwin'
  BY <1>2, <1>3 DEF IInv, Carried, TuplesFollowKey, NothingLost, NoTwin
<1>9. InReach' /\ Pointers'
  BY <1>5 DEF InReach, Pointers
<1> QED
  BY <1>6, <1>7, <1>8, <1>9 DEF IInv

\* onParticlesChanged replaces the pointers by those of the tuples that are
\* filed on the node.
LEMMA RebuildStep ==
  ASSUME IInv, NEW n \in Node, Rebuild(n)
  PROVE  IInv'
<1>1. \A k \in Node : pc[k] \in {"rebuild", "check"}
  BY DEF Rebuild, IInv, Together, Migrating
<1>2. net = {}
  BY <1>1, Settled
<1>3. /\ local' = [local EXCEPT ![n] = SetToBag(global[n])]
      /\ pc' = [pc EXCEPT ![n] = "check"]
      /\ owner' = owner /\ off' = off /\ global' = global /\ known' = known
      /\ net' = {} /\ tuples' = tuples
  BY <1>2 DEF Rebuild
<1>4. /\ local'[n] = SetToBag(global[n]) /\ DOMAIN local' = Node
      /\ pc'[n] = "check"
      /\ \A k \in Node \ {n} : local'[k] = local[k] /\ pc'[k] = pc[k]
  BY <1>3 DEF IInv, Types
<1>5. Types'
  <2>1. DOMAIN local'[n] \subseteq Kept
    BY <1>4 DEF SetToBag, IInv, Types
  <2> QED BY <1>3, <1>4, <2>1 DEF IInv, Types
<1>6. Together'
  BY <1>1, <1>4 DEF Together
<1>7. Rounds'
  BY <1>1, <1>3, <1>4 DEF Rounds
<1>8. Carried' /\ TuplesFollowKey' /\ NothingLost' /\ NoTwin'
  BY <1>2, <1>3 DEF IInv, Carried, TuplesFollowKey, NothingLost, NoTwin
<1>9. InReach' /\ Pointers'
  BY <1>1, <1>3, <1>4 DEF IInv, InReach, Pointers
<1> QED
  BY <1>5, <1>6, <1>7, <1>8, <1>9 DEF IInv

\* checkException only lets all nodes go on, or all of them throw.
LEMMA CheckExceptionStep ==
  ASSUME IInv, CheckException
  PROVE  IInv'
<1>1. \A n \in Node : pc[n] = "check"
  BY AllAt DEF CheckException
<1>2. net = {}
  BY <1>1, Settled
<1>3. /\ pc' = [n \in Node |-> IF \E m \in Node : Error(m) THEN "failed" ELSE "idle"]
      /\ owner' = owner /\ off' = off /\ global' = global /\ local' = local
      /\ known' = known /\ net' = {} /\ tuples' = tuples
  BY <1>2 DEF CheckException
<1>4. \A n \in Node : pc'[n] = IF \E m \in Node : Error(m) THEN "failed" ELSE "idle"
  BY <1>3
<1>5. Types'
  BY <1>3 DEF IInv, Types
<1>6. Together' /\ Rounds'
  BY <1>3, <1>4 DEF Together, Rounds
<1>7. Carried' /\ TuplesFollowKey' /\ NothingLost' /\ NoTwin'
  BY <1>2, <1>3 DEF IInv, Carried, TuplesFollowKey, NothingLost, NoTwin
<1>8. InReach'
  BY <1>3, <1>4 DEF InReach, Error
<1>9. Pointers'
  BY <1>1, <1>3 DEF IInv, Pointers
<1> QED
  BY <1>5, <1>6, <1>7, <1>8, <1>9 DEF IInv

\* Every step of the storage and of the lists keeps the invariant.
LEMMA StepIInv == IInv /\ [Next]_vars => IInv'
<1> SUFFICES ASSUME IInv, [Next]_vars PROVE IInv'
  OBVIOUS
<1>1. CASE UNCHANGED vars
  BY <1>1 DEF vars, IInv, Types, Together, Rounds, Sender, LeftOf, RightOf, Carried,
              TuplesFollowKey, NothingLost, NoTwin, InReach, Pointers
<1>2. CASE Next
  BY <1>1, <1>2, AddStep, RemoveStep, DecomposeStep, SendStep, RecvStep, AllReduceStep,
     RebuildStep, CheckExceptionStep DEF Next, Failed
<1> QED
  BY <1>1, <1>2

\* The invariant: in every state the lists, the buffers and the pointers of
\* all nodes fit together.
THEOREM Invariant == Spec => []IInv
  BY InitIInv, StepIInv, PTL DEF Spec

-----------------------------------------------------------------------------
(* What follows.                                                           *)

\* The variables of the three lists have their types, and every node keeps
\* and computes bonds with the smaller id first, as add() stores them.
THEOREM Typing == Spec => []TypeOK
<1>1. IInv => TypeOK
  <2> SUFFICES ASSUME IInv PROVE TypeOK
    OBVIOUS
  <2>1. \A n \in Node : global[n] \cup BagToSet(local[n]) \subseteq Kept
    BY DEF IInv, Types, BagToSet
  <2>2. \A t \in Kept : Len(t) = 2 => t[1] < t[2]
    BY DEF Kept
  <2>3. \A m \in net : m.dst \in Node
    BY DEF IInv, Types, Message
  <2> QED BY <2>1, <2>2, <2>3 DEF TypeOK, IInv, Types
<1> QED
  BY <1>1, Invariant, PTL

\* beforeSendParticles and afterRecvParticles: a tuple is where its key
\* particle is, on a node or in a buffer, for every number of nodes and
\* however many domains particles cross at once.
THEOREM FollowKey == Spec => []TuplesFollowKey
<1>1. IInv => TuplesFollowKey
  BY DEF IInv
<1> QED
  BY <1>1, Invariant, PTL

\* No sequence of add, remove and migrations loses a tuple.
THEOREM NoneLost == Spec => []NothingLost
<1>1. IInv => NothingLost
  BY DEF IInv
<1> QED
  BY <1>1, Invariant, PTL

\* add() looks only at its own node, and still no tuple is ever in two
\* places and no bond or angle there from both ends: a tuple is where its key
\* is, the reverse of an angle has the same key, and bonds are stored in one
\* order.  (The reverse of a dihedral has another key, and may be kept.)
THEOREM NeverTwice == Spec => []NotTwice
<1>1. IInv => NotTwice
  <2> SUFFICES ASSUME IInv PROVE NotTwice
    OBVIOUS
  <2>1. \A n \in Node : \A t \in global[n] : owner[Key(t)] = n
    BY DEF IInv, TuplesFollowKey
  <2>2. \A m \in net : \A t \in m.tuples : Key(t) \in m.ids /\ owner[Key(t)] = -1
    BY DEF IInv, TuplesFollowKey, Carried
  <2>3. \A n, k \in Node : n # k => global[n] \cap global[k] = {}
    BY <2>1
  <2>4. \A n \in Node : global[n] \cap InFlight = {}
    <3>1. \A n \in Node : n # -1
      BY TupleAssumption DEF Node
    <3> QED BY <2>1, <2>2, <3>1 DEF InFlight
  <2>5. ASSUME NEW l \in net, NEW m \in net, l # m PROVE l.tuples \cap m.tuples = {}
    <3>1. \A p \in Id : ~(p \in l.ids /\ p \in m.ids)
      BY <2>5 DEF IInv, Carried
    <3>2. l.ids \subseteq Id
      BY DEF IInv, Types, Message
    <3> QED BY <2>2, <3>1, <3>2
  <2>6. Everywhere = tuples
    BY DEF IInv, NothingLost, Everywhere, InFlight
  <2>7. \A t \in Everywhere : Len(t) < 4 => Reversed(t) \notin Everywhere
    BY <2>6 DEF IInv, NoTwin
  <2> QED BY <2>3, <2>4, <2>5, <2>7 DEF NotTwice
<1> QED
  BY <1>1, Invariant, PTL

\* If every remove() is followed by updateParticlesStorage(), then whenever
\* forces are computed each tuple is computed by one node, once, with all its
\* members in reach.
THEOREM ComputedOnce ==
  ASSUME Updates
  PROVE  Spec => []ForcesOnce
<1>1. IInv => ForcesOnce
  <2> SUFFICES ASSUME IInv, All("idle")
               PROVE  /\ UNION {BagToSet(local[n]) : n \in Node} = tuples
                      /\ \A t \in tuples : \E n \in Node :
                           /\ Computed(t) = {n}
                           /\ local[n][t] = 1
                           /\ Members(t) \subseteq known[n]
    BY DEF ForcesOnce
  <2>1. \A n \in Node : pc[n] = "idle"
    BY AllAt
  <2>2. net = {}
    BY <2>1, Settled
  <2>3. \A n \in Node : local[n] = SetToBag(global[n])
    BY <2>1 DEF IInv, Pointers
  <2>4. \A n \in Node : BagToSet(local[n]) = global[n] /\ \A t \in global[n] : local[n][t] = 1
    BY <2>3 DEF SetToBag, BagToSet
  <2>5. tuples = UNION {global[n] : n \in Node}
    BY <2>2 DEF IInv, NothingLost
  <2>6. UNION {BagToSet(local[n]) : n \in Node} = tuples
    BY <2>4, <2>5
  <2>7. ASSUME NEW t \in tuples
        PROVE  \E n \in Node : /\ Computed(t) = {n} /\ local[n][t] = 1
                               /\ Members(t) \subseteq known[n]
    <3>1. PICK n \in Node : t \in global[n]
      BY <2>5
    <3>2. \A k \in Node : t \in global[k] => k = n
      BY <3>1 DEF IInv, TuplesFollowKey
    <3>3. Computed(t) = {n}
      BY <2>4, <3>1, <3>2 DEF Computed, BagIn
    <3>4. Members(t) \subseteq known[n]
      BY <2>1, <3>1 DEF IInv, InReach
    <3> QED BY <2>4, <3>1, <3>3, <3>4
  <2> QED BY <2>6, <2>7
<1> QED
  BY <1>1, Invariant, PTL

=============================================================================
