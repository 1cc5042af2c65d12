----------------------- MODULE NeighborExchangeProofs -----------------------
(***************************************************************************)
(* Proofs about NeighborExchange, for every grid of nodes and every        *)
(* sequence of exchanges and reductions.                                   *)
(***************************************************************************)
EXTENDS NeighborExchange, WellFoundedInduction, TLAPS

\* n has handed its message of phase k to MPI
Sent(n, k) ==
  \/ ph[n] > k
  \/ ph[n] = k /\ half[n] = 1 /\ SendFirst(n, k)
  \/ ph[n] = k /\ posted[n]

\* n has taken the message of phase k
Received(n, k) ==
  \/ ph[n] > k
  \/ ph[n] = k /\ half[n] = 1 /\ ~SendFirst(n, k)

\* a flag is only set where the program sets it
Control ==
  \A n \in Node : /\ posted[n] => AtSend(n)
                  /\ half[n] = 1 => InXchg(n)

\* the network holds exactly what was sent and not received
NetExact ==
  \A m \in Message : m \in net <=> /\ IsXchg(m.ph)
                                   /\ m.dst = Receiver(m.src, m.ph)
                                   /\ Sent(m.src, m.ph)
                                   /\ ~Received(m.dst, m.ph)

\* nobody is past a reduction another node has not reached
Barrier ==
  \A n, o \in Node, k \in 1 .. Last : (~IsXchg(k) /\ ph[n] > k) => ph[o] >= k

\* nothing is received before it is sent
Causal ==
  \A n \in Node, k \in 1 .. Last :
    (IsXchg(k) /\ Received(Receiver(n, k), k)) => Sent(n, k)

IInv == TypeOK /\ Control /\ NetExact /\ Barrier /\ Causal

-----------------------------------------------------------------------------
(* The node grid.                                                          *)

\* calcNodeNeighbors names nodes of the grid.
LEMMA NeighborInGrid ==
  ASSUME NEW n \in Node, NEW c \in Coord, NEW d \in {Left, Right}
  PROVE  NodeNeighbor(n, c, d) \in Node
<1>1. GridSize[c] \in Nat \ {0} /\ GridSize[c] <= MaxExtent /\ MaxExtent \in Nat
  BY GridAssumption DEF Coord, MaxExtent
<1>2. n[c] \in 0 .. MaxExtent /\ n[c] < GridSize[c] /\ n \in [Coord -> 0 .. MaxExtent]
  BY DEF Node
<1>3. NodeNeighbor(n, c, d)[c] \in 0 .. MaxExtent /\ NodeNeighbor(n, c, d)[c] < GridSize[c]
  BY <1>1, <1>2 DEF NodeNeighbor, Left, Right
<1> QED
  BY <1>2, <1>3 DEF Node, NodeNeighbor

\* My left neighbour's right neighbour is me, and conversely.
LEMMA NeighborInverse ==
  ASSUME NEW n \in Node, NEW c \in Coord, NEW d \in {Left, Right}
  PROVE  NodeNeighbor(NodeNeighbor(n, c, d), c, Opposite(d)) = n
<1>1. GridSize[c] \in Nat \ {0} BY GridAssumption
<1>2. n[c] \in Nat /\ n[c] < GridSize[c] /\ n \in [Coord -> 0 .. MaxExtent]
  BY GridAssumption DEF Node, MaxExtent, Coord
<1> DEFINE w == NodeNeighbor(n, c, d)
<1>3. w \in [Coord -> 0 .. MaxExtent] BY NeighborInGrid DEF Node
<1>4. NodeNeighbor(w, c, Opposite(d))[c] = n[c]
  BY <1>1, <1>2, <1>3 DEF NodeNeighbor, Left, Right, Opposite
<1>5. \A e \in Coord \ {c} : NodeNeighbor(w, c, Opposite(d))[e] = n[e]
  BY <1>2, <1>3 DEF NodeNeighbor
<1>6. NodeNeighbor(w, c, Opposite(d)) \in [Coord -> 0 .. MaxExtent]
  BY <1>3, NeighborInGrid DEF Node, Opposite, Left, Right
<1> QED
  BY <1>2, <1>4, <1>5, <1>6

\* Both neighbours of a node that receives first send first.
LEMMA OddBetweenEven ==
  ASSUME NEW n \in Node, NEW c \in Coord, NEW d \in {Left, Right},
         GridSize[c] > 1, n[c] % 2 # 0
  PROVE  NodeNeighbor(n, c, d)[c] % 2 = 0
<1>1. GridSize[c] \in Nat \ {0} BY GridAssumption
<1>2. n[c] \in Nat /\ n[c] < GridSize[c] /\ n \in [Coord -> 0 .. MaxExtent]
  BY GridAssumption DEF Node, MaxExtent, Coord
<1>3. NodeNeighbor(n, c, d)[c] \in {n[c] - 1, n[c] + 1, 0}
  BY <1>1, <1>2 DEF NodeNeighbor, Left, Right
<1> QED
  BY <1>2, <1>3

\* No three nodes in a row send first: at most the wrap of an odd ring joins
\* two of them.
LEMMA NoThreeEven ==
  ASSUME NEW n \in Node, NEW c \in Coord, NEW d \in {Left, Right},
         GridSize[c] > 1, n[c] % 2 = 0, NodeNeighbor(n, c, d)[c] % 2 = 0
  PROVE  NodeNeighbor(NodeNeighbor(n, c, d), c, d)[c] % 2 # 0
<1> DEFINE w == NodeNeighbor(n, c, d)
<1>1. GridSize[c] \in Nat \ {0} BY GridAssumption
<1>2. n[c] \in Nat /\ n[c] < GridSize[c] /\ n \in [Coord -> 0 .. MaxExtent]
  BY GridAssumption DEF Node, MaxExtent, Coord
<1>3. w \in [Coord -> 0 .. MaxExtent] BY NeighborInGrid DEF Node
<1>4. CASE d = Left
  <2>1. n[c] = 0
    BY <1>1, <1>2, <1>4 DEF NodeNeighbor, Left, Right
  <2>2. w[c] = GridSize[c] - 1
    BY <1>1, <1>2, <1>4, <2>1 DEF NodeNeighbor, Left, Right
  <2>3. NodeNeighbor(w, c, d)[c] = GridSize[c] - 2
    BY <1>1, <1>3, <1>4, <2>2 DEF NodeNeighbor, Left, Right
  <2> QED BY <1>1, <2>2, <2>3
<1>5. CASE d = Right
  <2>1. n[c] = GridSize[c] - 1
    BY <1>1, <1>2, <1>5 DEF NodeNeighbor, Left, Right
  <2>2. w[c] = 0
    BY <1>1, <1>2, <1>5, <2>1 DEF NodeNeighbor, Left, Right
  <2>3. NodeNeighbor(w, c, d)[c] = 1
    BY <1>1, <1>3, <1>5, <2>2 DEF NodeNeighbor, Left, Right
  <2> QED BY <2>3
<1> QED BY <1>4, <1>5

\* Who sends to whom in a phase.
LEMMA PhaseFacts ==
  ASSUME NEW n \in Node, NEW k \in 1 .. Last
  PROVE  /\ Last \in Nat
         /\ Phases[k].coord \in Coord
         /\ Phases[k].dir \in {Left, Right}
         /\ IsXchg(k) => GridSize[Phases[k].coord] > 1
         /\ Receiver(n, k) \in Node
         /\ Sender(n, k) \in Node
         /\ Sender(Receiver(n, k), k) = n
         /\ Receiver(Sender(n, k), k) = n
<1>1. Last \in Nat /\ k \in DOMAIN Phases /\ Phases[k] \in PhaseType
  BY PhasesAssumption DEF Last
<1>2. Phases[k].coord \in Coord /\ Phases[k].dir \in {Left, Right}
  BY <1>1 DEF PhaseType
<1>3. Opposite(Phases[k].dir) \in {Left, Right} /\ Opposite(Opposite(Phases[k].dir)) = Phases[k].dir
  BY <1>2 DEF Opposite, Left, Right
<1>4. Receiver(n, k) \in Node /\ Sender(n, k) \in Node
  BY <1>2, <1>3, NeighborInGrid DEF Receiver, Sender
<1>5. Sender(Receiver(n, k), k) = n
  BY <1>2, NeighborInverse DEF Receiver, Sender
<1>6. Receiver(Sender(n, k), k) = n
  BY <1>2, <1>3, NeighborInverse DEF Receiver, Sender
<1>7. IsXchg(k) => GridSize[Phases[k].coord] > 1
  BY <1>1, PhasesAssumption DEF IsXchg
<1> QED BY <1>1, <1>2, <1>4, <1>5, <1>6, <1>7

-----------------------------------------------------------------------------
(* Matching of receives.                                                   *)

\* If the sender has sent what a receive waits for, it can be delivered.
LEMMA SentIsDeliverable ==
  ASSUME IInv, NEW n \in Node, AtRecv(n), Sent(Sender(n, ph[n]), ph[n])
  PROVE  Deliverable(n) # {}
<1> DEFINE k == ph[n]
           s == Sender(n, k)
           o == [src |-> s, dst |-> n, ph |-> k]
<1>1. k \in 1 .. Last /\ IsXchg(k) /\ half[n] \in {0, 1}
  BY DEF IInv, TypeOK, AtRecv, InXchg
<1>2. s \in Node /\ Receiver(s, k) = n
  BY <1>1, PhaseFacts
<1>3. ~Received(n, k)
  BY <1>1 DEF Received, AtRecv
<1>4. o \in Message
  BY <1>1, <1>2 DEF Message
<1>5. o \in net
  BY <1>1, <1>2, <1>3, <1>4 DEF IInv, NetExact
<1>6. o \in Pending(n)
  BY <1>5 DEF Pending
<1>7. \A m \in Pending(n) : o.ph <= m.ph
  <2> SUFFICES ASSUME NEW m \in Pending(n) PROVE o.ph <= m.ph OBVIOUS
  <2>1. m \in net /\ m.dst = n BY DEF Pending
  <2>2. m \in Message BY <2>1 DEF IInv, TypeOK
  <2>3. ~Received(n, m.ph) BY <2>1, <2>2 DEF IInv, NetExact
  <2>4. m.ph \in 1 .. Last BY <2>2 DEF Message
  <2> QED BY <1>1, <2>3, <2>4 DEF Received
<1> QED BY <1>6, <1>7 DEF Deliverable

\* A node receives the message of the phase it is in.
LEMMA RecvMatches ==
  ASSUME IInv, NEW n \in Node, AtRecv(n), NEW m \in Deliverable(n)
  PROVE  m = [src |-> Sender(n, ph[n]), dst |-> n, ph |-> ph[n]]
<1> DEFINE k == ph[n]
           s == Sender(n, k)
           o == [src |-> s, dst |-> n, ph |-> k]
<1>1. k \in 1 .. Last /\ IsXchg(k) /\ half[n] \in {0, 1}
  BY DEF IInv, TypeOK, AtRecv, InXchg
<1>2. s \in Node /\ Receiver(s, k) = n
  BY <1>1, PhaseFacts
<1>3. m \in net /\ m.dst = n /\ m.src = s
  BY DEF Deliverable, Pending
<1>4. m \in Message
  BY <1>3 DEF IInv, TypeOK
<1>5. ~Received(n, m.ph) /\ Sent(s, m.ph) /\ m.ph \in 1 .. Last
  BY <1>3, <1>4 DEF IInv, NetExact, Message
<1>6. m.ph >= k
  BY <1>1, <1>5 DEF Received
<1>7. ph[s] >= m.ph
  BY <1>2, <1>5 DEF Sent, IInv, TypeOK
<1>8. m.ph = k
  <2> SUFFICES ASSUME m.ph > k PROVE FALSE BY <1>1, <1>5, <1>6
  <2>1. Sent(s, k)
    BY <1>1, <1>2, <1>5, <1>7 DEF Sent, IInv, TypeOK
  <2>2. ~Received(n, k)
    BY <1>1 DEF Received, AtRecv
  <2>3. o \in Message BY <1>1, <1>2 DEF Message
  <2>4. o \in net
    BY <1>1, <1>2, <2>1, <2>2, <2>3 DEF IInv, NetExact
  <2>5. o \in Pending(n) BY <2>4 DEF Pending
  <2>6. m.ph <= o.ph BY <2>5 DEF Deliverable
  <2> QED BY <1>1, <1>5, <2>6
<1> QED BY <1>3, <1>4, <1>8 DEF Message

-----------------------------------------------------------------------------
(* Invariance.                                                             *)

\* Before the first exchange nothing is under way.
LEMMA InitIInv == Init => IInv
<1> SUFFICES ASSUME Init PROVE IInv OBVIOUS
<1>0. Last \in Nat BY PhasesAssumption DEF Last
<1>1. TypeOK BY <1>0 DEF Init, TypeOK
<1>2. Control BY DEF Init, Control
<1>3. NetExact
  <2> SUFFICES ASSUME NEW m \in Message PROVE ~Sent(m.src, m.ph)
    BY DEF Init, NetExact
  <2>1. m.src \in Node /\ m.ph \in 1 .. Last BY DEF Message
  <2> QED BY <1>0, <2>1 DEF Init, Sent
<1>4. Barrier BY <1>0 DEF Init, Barrier
<1>5. Causal
  BY <1>0, PhaseFacts DEF Init, Causal, Received
<1> QED BY <1>1, <1>2, <1>3, <1>4, <1>5 DEF IInv

\* A send that is posted puts one message on the network.
LEMMA PostIInv ==
  ASSUME IInv, NEW n \in Node, Post(n)
  PROVE  IInv'
<1> DEFINE k == ph[n]
<1>0. Last \in Nat BY PhasesAssumption DEF Last
<1>1. TypeOK BY DEF IInv
<1>2. k \in 1 .. Last /\ IsXchg(k) /\ half[n] \in {0, 1}
  BY <1>0, <1>1 DEF TypeOK, Post, AtSend, InXchg
<1>3. /\ ph' = ph /\ half' = half
      /\ \A o \in Node : posted'[o] = IF o = n THEN TRUE ELSE posted[o]
  BY <1>1 DEF Post, TypeOK
<1>4. MyMessage(n) \in Message
  BY <1>2, PhaseFacts DEF MyMessage, Message
<1>5. TypeOK'
  BY <1>1, <1>4 DEF TypeOK, Post
<1>6. Control'
  BY <1>3 DEF IInv, Control, Post, AtSend, InXchg
<1>7. Barrier'
  BY <1>3 DEF IInv, Barrier
<1>8. \A o \in Node, j \in 1 .. Last : Received(o, j)' = Received(o, j)
  BY <1>3 DEF Received
<1>9. \A o \in Node, j \in 1 .. Last : Sent(o, j)' <=> (Sent(o, j) \/ (o = n /\ j = k))
  BY <1>3 DEF Sent
<1>10. NetExact'
  <2> SUFFICES ASSUME NEW m \in Message
               PROVE  m \in net' <=> /\ IsXchg(m.ph)
                                      /\ m.dst = Receiver(m.src, m.ph)
                                      /\ Sent(m.src, m.ph)'
                                      /\ ~Received(m.dst, m.ph)'
    BY DEF NetExact
  <2>1. m.src \in Node /\ m.dst \in Node /\ m.ph \in 1 .. Last
    BY DEF Message
  <2>2. m \in net' <=> (m \in net \/ m = MyMessage(n))
    BY DEF Post
  <2>3. ~Sent(n, k)
    BY <1>2 DEF Sent, Post, AtSend
  <2>4. ~Received(Receiver(n, k), k)
    BY <1>2, <2>3 DEF IInv, Causal
  <2>5. MyMessage(n) = [src |-> n, dst |-> Receiver(n, k), ph |-> k]
    BY DEF MyMessage
  <2>6. CASE m = MyMessage(n)
    BY <1>2, <1>8, <1>9, <2>1, <2>2, <2>4, <2>5, <2>6
  <2>7. CASE m # MyMessage(n)
    <3>1. ~(m.src = n /\ m.ph = k /\ m.dst = Receiver(m.src, m.ph))
      BY <2>5, <2>7 DEF Message
    <3> QED BY <1>8, <1>9, <2>1, <2>2, <2>7, <3>1 DEF IInv, NetExact
  <2> QED BY <2>6, <2>7
<1>11. Causal'
  BY <1>8, <1>9, PhaseFacts DEF IInv, Causal
<1> QED BY <1>5, <1>6, <1>7, <1>10, <1>11 DEF IInv

\* A step that moves no message and changes neither what was sent nor what
\* was received in any exchange keeps the network exact.
LEMMA NetFrame ==
  ASSUME IInv, net' = net,
         \A o \in Node, j \in 1 .. Last :
            IsXchg(j) => (Sent(o, j)' <=> Sent(o, j)) /\ (Received(o, j)' <=> Received(o, j))
  PROVE  NetExact' /\ Causal'
<1>1. NetExact'
  <2> SUFFICES ASSUME NEW m \in Message
               PROVE  m \in net' <=> /\ IsXchg(m.ph)
                                      /\ m.dst = Receiver(m.src, m.ph)
                                      /\ Sent(m.src, m.ph)'
                                      /\ ~Received(m.dst, m.ph)'
    BY DEF NetExact
  <2>1. m.src \in Node /\ m.dst \in Node /\ m.ph \in 1 .. Last
    BY DEF Message
  <2> QED BY <2>1 DEF IInv, NetExact
<1>2. Causal'
  BY PhaseFacts DEF IInv, Causal
<1> QED BY <1>1, <1>2

\* A send that returns leaves the network as it is.
LEMMA SendReturnsIInv ==
  ASSUME IInv, NEW n \in Node, AtSend(n), posted[n], SendReturns(n)
  PROVE  IInv'
<1> DEFINE k == ph[n]
<1>0. Last \in Nat BY PhasesAssumption DEF Last
<1>1. TypeOK BY DEF IInv
<1>2. k \in 1 .. Last /\ IsXchg(k) /\ half[n] \in {0, 1}
  BY <1>0, <1>1 DEF TypeOK, AtSend, InXchg
<1>3. /\ \A o \in Node : ph'[o] = IF o = n /\ half[n] = 1 THEN k + 1 ELSE ph[o]
      /\ \A o \in Node : half'[o] = IF o = n THEN 1 - half[n] ELSE half[o]
      /\ ~posted'[n]
      /\ \A o \in Node \ {n} : posted'[o] <=> posted[o]
      /\ net' = net
  BY <1>1 DEF SendReturns, Return, TypeOK
<1>4. TypeOK'
  BY <1>0, <1>1, <1>2 DEF TypeOK, SendReturns, Return
<1>5. Control'
  <2> SUFFICES ASSUME NEW o \in Node
               PROVE  (posted'[o] => AtSend(o)') /\ (half'[o] = 1 => InXchg(o)')
    BY DEF Control
  <2>1. CASE o = n
    BY <1>2, <1>3, <2>1 DEF InXchg
  <2>2. CASE o # n
    BY <1>3, <2>2 DEF IInv, Control, AtSend, InXchg
  <2> QED BY <2>1, <2>2
<1>6. Barrier'
  BY <1>0, <1>1, <1>2, <1>3 DEF IInv, Barrier, TypeOK
<1>7. ASSUME NEW o \in Node, NEW j \in 1 .. Last, IsXchg(j)
      PROVE  (Sent(o, j)' <=> Sent(o, j)) /\ (Received(o, j)' <=> Received(o, j))
  <2>1. CASE o # n
    BY <1>3, <2>1 DEF Sent, Received
  <2>2. CASE o = n /\ half[n] = 0
    <3>1. SendFirst(n, k) /\ ph'[n] = k /\ half'[n] = 1 /\ ~posted'[n]
      BY <1>2, <1>3, <2>2 DEF AtSend
    <3> QED BY <1>2, <2>2, <3>1 DEF Sent, Received
  <2>3. CASE o = n /\ half[n] = 1
    <3>1. ~SendFirst(n, k) /\ ph'[n] = k + 1 /\ half'[n] = 0 /\ ~posted'[n]
      BY <1>2, <1>3, <2>3 DEF AtSend
    <3> QED BY <1>2, <2>3, <3>1 DEF Sent, Received
  <2> QED BY <1>2, <2>1, <2>2, <2>3
<1>8. NetExact' /\ Causal'
  BY <1>3, <1>7, NetFrame
<1> QED BY <1>4, <1>5, <1>6, <1>8 DEF IInv

\* A reduction returns when all nodes have reached it.
LEMMA AllReduceIInv ==
  ASSUME IInv, NEW n \in Node, AllReduce(n)
  PROVE  IInv'
<1> DEFINE k == ph[n]
<1>0. Last \in Nat BY PhasesAssumption DEF Last
<1>1. TypeOK BY DEF IInv
<1>2. k \in 1 .. Last /\ ~IsXchg(k) /\ half[n] = 0 /\ ~posted[n]
  BY <1>0, <1>1 DEF TypeOK, AllReduce, AtReduce, IInv, Control, AtSend, InXchg
<1>3. /\ \A o \in Node : ph'[o] = IF o = n THEN k + 1 ELSE ph[o]
      /\ half' = half /\ posted' = posted /\ net' = net
  BY <1>1 DEF AllReduce, TypeOK
<1>4. TypeOK'
  BY <1>0, <1>1, <1>2 DEF TypeOK, AllReduce
<1>5. Control'
  BY <1>2, <1>3 DEF IInv, Control, AtSend, InXchg
<1>6. Barrier'
  <2> SUFFICES ASSUME NEW a \in Node, NEW o \in Node, NEW j \in 1 .. Last,
                      ~IsXchg(j), ph'[a] > j
               PROVE  ph'[o] >= j
    BY DEF Barrier
  <2>1. ph'[o] >= ph[o] /\ ph[o] \in 1 .. Last + 1 /\ ph'[o] \in Nat
    BY <1>0, <1>1, <1>2, <1>3 DEF TypeOK
  <2>2. CASE ph[a] > j
    <3>1. ph[o] >= j BY <2>2 DEF IInv, Barrier
    <3> QED BY <2>1, <3>1, <1>0
  <2>3. CASE ~(ph[a] > j)
    <3>1. a = n /\ j = k BY <1>0, <1>1, <1>2, <1>3, <2>3 DEF TypeOK
    <3> QED BY <2>1, <3>1, <1>2 DEF AllReduce
  <2> QED BY <2>2, <2>3
<1>7. ASSUME NEW o \in Node, NEW j \in 1 .. Last, IsXchg(j)
      PROVE  (Sent(o, j)' <=> Sent(o, j)) /\ (Received(o, j)' <=> Received(o, j))
  <2>1. CASE o # n
    BY <1>3, <2>1 DEF Sent, Received
  <2>2. CASE o = n
    BY <1>0, <1>2, <1>3, <1>7, <2>2 DEF Sent, Received
  <2> QED BY <2>1, <2>2
<1>8. NetExact' /\ Causal'
  BY <1>3, <1>7, NetFrame
<1> QED BY <1>4, <1>5, <1>6, <1>8 DEF IInv

\* A receive takes one message off the network.
LEMMA RecvIInv ==
  ASSUME IInv, NEW n \in Node, Recv(n)
  PROVE  IInv'
<1> DEFINE k == ph[n]
           s == Sender(n, k)
           msg == [src |-> s, dst |-> n, ph |-> k]
<1>0. Last \in Nat BY PhasesAssumption DEF Last
<1>1. TypeOK BY DEF IInv
<1>2. k \in 1 .. Last /\ IsXchg(k) /\ half[n] \in {0, 1} /\ AtRecv(n)
  BY <1>0, <1>1 DEF TypeOK, Recv, AtRecv, InXchg
<1>3. /\ \A o \in Node : ph'[o] = IF o = n /\ half[n] = 1 THEN k + 1 ELSE ph[o]
      /\ \A o \in Node : half'[o] = IF o = n THEN 1 - half[n] ELSE half[o]
      /\ posted' = posted
  BY <1>1 DEF Recv, Return, TypeOK
<1>4. net' = net \ {msg} /\ msg \in net
  <2>1. PICK m \in Deliverable(n) : net' = net \ {m} BY DEF Recv
  <2>2. m = msg BY <1>2, RecvMatches
  <2>3. m \in net BY DEF Deliverable, Pending
  <2> QED BY <2>1, <2>2, <2>3
<1>5. s \in Node /\ Receiver(s, k) = n
  BY <1>2, PhaseFacts
<1>6. ~posted[n]
  BY <1>2 DEF IInv, Control, AtSend, AtRecv
<1>7. TypeOK'
  BY <1>0, <1>1, <1>2, <1>4 DEF TypeOK, Recv, Return
<1>8. Control'
  BY <1>2, <1>3, <1>6 DEF IInv, Control, AtSend, InXchg
<1>9. Barrier'
  BY <1>0, <1>1, <1>2, <1>3 DEF IInv, Barrier, TypeOK
<1>10. ASSUME NEW o \in Node, NEW j \in 1 .. Last
       PROVE  /\ Sent(o, j)' <=> Sent(o, j)
              /\ Received(o, j)' <=> (Received(o, j) \/ (o = n /\ j = k))
  <2>1. CASE o # n
    BY <1>3, <2>1 DEF Sent, Received
  <2>2. CASE o = n
    BY <1>0, <1>2, <1>3, <1>6, <2>2 DEF Sent, Received, AtRecv
  <2> QED BY <2>1, <2>2
<1>11. Causal'
  <2> SUFFICES ASSUME NEW o \in Node, NEW j \in 1 .. Last, IsXchg(j),
                      Received(Receiver(o, j), j)'
               PROVE  Sent(o, j)'
    BY DEF Causal
  <2>1. Receiver(o, j) \in Node /\ Sender(Receiver(o, j), j) = o
    BY PhaseFacts
  <2>2. CASE Received(Receiver(o, j), j)
    BY <1>10, <2>2 DEF IInv, Causal
  <2>3. CASE ~Received(Receiver(o, j), j)
    <3>1. Receiver(o, j) = n /\ j = k BY <1>10, <2>1, <2>3
    <3>2. o = s BY <2>1, <3>1
    <3>3. msg \in Message BY <1>4, <1>1 DEF TypeOK
    <3>4. Sent(s, k) BY <1>4, <3>3 DEF IInv, NetExact
    <3> QED BY <1>10, <3>1, <3>2, <3>4
  <2> QED BY <2>2, <2>3
<1>12. NetExact'
  <2> SUFFICES ASSUME NEW m \in Message
               PROVE  m \in net' <=> /\ IsXchg(m.ph)
                                      /\ m.dst = Receiver(m.src, m.ph)
                                      /\ Sent(m.src, m.ph)'
                                      /\ ~Received(m.dst, m.ph)'
    BY DEF NetExact
  <2>1. m.src \in Node /\ m.dst \in Node /\ m.ph \in 1 .. Last
    BY DEF Message
  <2>2. CASE m = msg
    BY <1>2, <1>4, <1>5, <1>10, <2>1, <2>2
  <2>3. CASE m # msg
    <3>1. ~(m.dst = n /\ m.ph = k /\ m.dst = Receiver(m.src, m.ph))
      <4>1. SUFFICES ASSUME m.dst = n, m.ph = k, n = Receiver(m.src, k)
                     PROVE  FALSE
        OBVIOUS
      <4>2. m.src = s BY <1>2, <2>1, <4>1, PhaseFacts
      <4> QED BY <2>3, <4>1, <4>2 DEF Message
    <3>2. m \in net' <=> m \in net BY <1>4, <2>3
    <3> QED BY <1>10, <2>1, <3>1, <3>2 DEF IInv, NetExact
  <2> QED BY <2>2, <2>3
<1> QED BY <1>7, <1>8, <1>9, <1>11, <1>12 DEF IInv

\* The inductive invariant holds in every reachable state.
THEOREM Invariance == Spec => []IInv
<1>1. IInv /\ [Next]_vars => IInv'
  <2> SUFFICES ASSUME IInv, [Next]_vars PROVE IInv' OBVIOUS
  <2>1. CASE UNCHANGED vars
    BY <2>1 DEF vars, IInv, TypeOK, Control, NetExact, Barrier, Causal,
                AtSend, InXchg, Sent, Received
  <2>2. ASSUME NEW n \in Node, Post(n) PROVE IInv' BY <2>2, PostIInv
  <2>3. ASSUME NEW n \in Node, CompleteSend(n) PROVE IInv'
    BY <2>3, SendReturnsIInv DEF CompleteSend
  <2>4. ASSUME NEW n \in Node, EagerReturn(n) PROVE IInv'
    BY <2>4, SendReturnsIInv DEF EagerReturn
  <2>5. ASSUME NEW n \in Node, Recv(n) PROVE IInv' BY <2>5, RecvIInv
  <2>6. ASSUME NEW n \in Node, AllReduce(n) PROVE IInv' BY <2>6, AllReduceIInv
  <2> QED BY <2>1, <2>2, <2>3, <2>4, <2>5, <2>6 DEF Next, Progress
<1> QED BY <1>1, InitIInv, PTL DEF Spec

-----------------------------------------------------------------------------
(* The safety properties.                                                  *)

\* Every program counter and message stays in range: no node runs past the
\* end of its schedule and no message leaves the grid.
THEOREM Typing == Spec => []TypeOK
<1>1. IInv => TypeOK BY DEF IInv
<1> QED BY <1>1, Invariance, PTL

\* Receives of doGhostCommunication and recvParticles take the message of
\* their own exchange, on every grid and for every schedule.
THEOREM Matching == Spec => []Matched
<1>1. IInv => Matched
  BY RecvMatches DEF Matched
<1> QED BY <1>1, Invariance, PTL

\* No particle buffer is under way once a task has left the all_reduce.
THEOREM Quietness == Spec => []QuietAfterReduce
<1>1. IInv => QuietAfterReduce
  <2> SUFFICES ASSUME IInv, NEW n \in Node, NEW k \in 1 .. Last,
                      ~IsXchg(k), ph[n] > k, NEW m \in net
               PROVE  m.ph > k
    BY DEF QuietAfterReduce
  <2>1. m \in Message BY DEF IInv, TypeOK
  <2>2. m.dst \in Node /\ m.ph \in 1 .. Last BY <2>1 DEF Message
  <2>3. IsXchg(m.ph) /\ ~Received(m.dst, m.ph) BY <2>1 DEF IInv, NetExact
  <2>4. ph[m.dst] >= k /\ ph[m.dst] \in 1 .. Last + 1
    BY <2>2 DEF IInv, Barrier, TypeOK
  <2>5. ~(ph[m.dst] > m.ph) BY <2>3 DEF Received
  <2>6. m.ph # k BY <2>3
  <2>7. Last \in Nat BY PhasesAssumption DEF Last
  <2> QED BY <2>2, <2>4, <2>5, <2>6, <2>7
<1> QED BY <1>1, Invariance, PTL

\* Some node is in the earliest phase.
LEMMA EarliestPhase ==
  ASSUME TypeOK, Node # {}
  PROVE  \E n \in Node : \A o \in Node : ph[o] >= ph[n]
<1> DEFINE S == {ph[n] : n \in Node}
<1>0. Last \in Nat BY PhasesAssumption DEF Last
<1>1. S \in SUBSET Nat /\ S # {} BY <1>0 DEF TypeOK
<1> DEFINE R == {ss \in Nat \X Nat : ss[1] < ss[2]}
<1>2. IsWellFoundedOn(R, Nat) BY NatLessThanWellFounded DEF OpToRel
<1> HIDE DEF S, R
<1>3. PICK x \in S : \A y \in S : ~(<<y, x>> \in R)
  BY <1>1, <1>2, WFMin
<1>4. ASSUME NEW y \in S PROVE y >= x
  <2>1. x \in Nat /\ y \in Nat BY <1>1
  <2>2. y < x => <<y, x>> \in R BY <2>1 DEF R
  <2> QED BY <1>3, <2>1, <2>2
<1> QED BY <1>4 DEF S

\* A node of the earliest phase whose message was sent can take it.
LEMMA SenderFirstUnblocks ==
  ASSUME IInv, NEW k \in 1 .. Last, IsXchg(k), \A o \in Node : ph[o] >= k,
         NEW n \in Node, ph[n] = k, AtRecv(n)
  PROVE  \E o \in Node : CanProgress(o)
<1> DEFINE s == Sender(n, k)
           t == Sender(s, k)
<1>0. TypeOK /\ Last \in Nat BY PhasesAssumption DEF IInv, Last
<1>1. s \in Node /\ t \in Node BY PhaseFacts
<1>2. CASE Sent(s, k)
  BY <1>2, SentIsDeliverable DEF CanProgress
<1>3. CASE ~Sent(s, k)
  <2>1. ph[s] = k /\ ~posted[s] /\ ~(half[s] = 1 /\ SendFirst(s, k))
    BY <1>0, <1>1, <1>3 DEF Sent, TypeOK
  <2>2. CASE AtSend(s)
    BY <1>1, <2>1, <2>2 DEF CanProgress
  <2>3. CASE ~AtSend(s)
    <3>1. AtRecv(s) /\ ~SendFirst(s, k)
      BY <1>0, <1>1, <2>1, <2>3 DEF AtSend, AtRecv, InXchg, TypeOK
    <3>2. CASE Sent(t, k)
      BY <1>1, <2>1, <3>1, <3>2, SentIsDeliverable DEF CanProgress
    <3>3. CASE ~Sent(t, k)
      <4>1. ph[t] = k /\ ~posted[t] /\ ~(half[t] = 1 /\ SendFirst(t, k))
        BY <1>0, <1>1, <3>3 DEF Sent, TypeOK
      <4>2. SendFirst(t, k)
        <5>1. Phases[k].coord \in Coord /\ GridSize[Phases[k].coord] > 1
              /\ Opposite(Phases[k].dir) \in {Left, Right}
          BY <1>1, PhaseFacts DEF Opposite, Left, Right
        <5> QED BY <1>1, <3>1, <5>1, OddBetweenEven DEF SendFirst, Sender
      <4>3. AtSend(t)
        BY <1>0, <1>1, <4>1, <4>2 DEF AtSend, InXchg, TypeOK
      <4> QED BY <1>1, <4>1, <4>3 DEF CanProgress
    <3> QED BY <3>2, <3>3
  <2> QED BY <2>2, <2>3
<1> QED BY <1>2, <1>3

\* A send that waits for its receiver: either the receiver can go on, or it
\* is itself a node that sends first and has not received yet.
LEMMA BlockedSend ==
  ASSUME IInv, NEW k \in 1 .. Last, IsXchg(k), \A o \in Node : ph[o] >= k,
         NEW n \in Node, ph[n] = k, AtSend(n)
  PROVE  \/ \E o \in Node : CanProgress(o)
         \/ /\ ph[Receiver(n, k)] = k
            /\ AtSend(Receiver(n, k))
            /\ SendFirst(Receiver(n, k), k)
<1> DEFINE r == Receiver(n, k)
<1>0. TypeOK /\ Last \in Nat BY PhasesAssumption DEF IInv, Last
<1>1. r \in Node BY PhaseFacts
<1>2. CASE ~posted[n] \/ MyMessage(n) \notin net
  BY <1>2 DEF CanProgress
<1>3. CASE posted[n] /\ MyMessage(n) \in net
  <2>1. ~Received(r, k)
    <3>1. MyMessage(n) \in Message /\ MyMessage(n).dst = r /\ MyMessage(n).ph = k
      BY <1>1 DEF MyMessage, Message
    <3> QED BY <1>3, <3>1 DEF IInv, NetExact
  <2>2. ph[r] = k /\ ~(half[r] = 1 /\ ~SendFirst(r, k))
    BY <1>0, <1>1, <2>1 DEF Received, TypeOK
  <2>3. CASE AtRecv(r)
    BY <1>1, <2>2, <2>3, SenderFirstUnblocks
  <2>4. CASE ~AtRecv(r)
    BY <1>0, <1>1, <2>2, <2>4 DEF AtSend, AtRecv, InXchg, TypeOK
  <2> QED BY <2>3, <2>4
<1> QED BY <1>2, <1>3

\* The odd-even rule is deadlock free for every grid (odd rings included),
\* every schedule of exchanges and reductions, and without any buffering in
\* MPI.
THEOREM DeadlockFreedom == Spec => []NoDeadlock
<1>1. IInv => NoDeadlock
  <2> SUFFICES ASSUME IInv, NEW u \in Node, ~Done(u)
               PROVE  \E o \in Node : CanProgress(o)
    BY DEF NoDeadlock
  <2>0. TypeOK /\ Last \in Nat BY PhasesAssumption DEF IInv, Last
  <2>1. PICK n \in Node : \A o \in Node : ph[o] >= ph[n]
    BY <2>0, EarliestPhase
  <2> DEFINE k == ph[n]
  <2>2. k \in 1 .. Last
    BY <2>0, <2>1 DEF Done, TypeOK
  <2>3. CASE ~IsXchg(k)
    BY <2>1, <2>2, <2>3 DEF CanProgress, AtReduce
  <2>4. CASE IsXchg(k) /\ AtRecv(n)
    BY <2>1, <2>2, <2>4, SenderFirstUnblocks
  <2>5. CASE IsXchg(k) /\ AtSend(n)
    <3> DEFINE r == Receiver(n, k)
               r2 == Receiver(r, k)
               r3 == Receiver(r2, k)
    <3>1. r \in Node /\ r2 \in Node /\ r3 \in Node BY <2>2, PhaseFacts
    <3> SUFFICES ASSUME ~\E o \in Node : CanProgress(o) PROVE FALSE OBVIOUS
    <3>2. ph[r] = k /\ AtSend(r) /\ SendFirst(r, k)
      BY <2>1, <2>2, <2>5, BlockedSend
    <3>3. ph[r2] = k /\ AtSend(r2) /\ SendFirst(r2, k)
      BY <2>1, <2>2, <2>5, <3>1, <3>2, BlockedSend
    <3>4. SendFirst(r3, k)
      BY <2>1, <2>2, <2>5, <3>1, <3>3, BlockedSend
    <3>5. Phases[k].coord \in Coord /\ GridSize[Phases[k].coord] > 1
          /\ Phases[k].dir \in {Left, Right}
      BY <2>2, <2>5, PhaseFacts
    <3> QED
      BY <3>1, <3>2, <3>3, <3>4, <3>5, NoThreeEven DEF SendFirst, Receiver
  <2>6. AtRecv(n) \/ AtSend(n) \/ ~IsXchg(k)
    BY <2>0, <2>2 DEF AtRecv, AtSend, InXchg, TypeOK
  <2> QED BY <2>3, <2>4, <2>5, <2>6
<1> QED BY <1>1, Invariance, PTL
=============================================================================
