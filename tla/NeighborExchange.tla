-------------------------- MODULE NeighborExchange --------------------------
(***************************************************************************)
(* The blocking neighbour communication of the domain decomposition.       *)
(*                                                                         *)
(* Every MPI task owns one brick of the periodic box.  Migrating real      *)
(* particles, filling the ghost frame, updating it and collecting ghost    *)
(* forces are all built from one pattern: for a coordinate and a           *)
(* direction, send to the neighbour in that direction and receive from the *)
(* opposite one.  Nodes at an even position send first, the others receive *)
(* first (the "odd-even rule").  Collective reductions separate rounds.    *)
(*                                                                         *)
(* A program is a sequence Phases of such exchanges and reductions; the    *)
(* schedules of the code are the operators at the end of the first part.   *)
(* MPI is external: a send may return once it is buffered (EagerReturn) or *)
(* only once its message was taken (CompleteSend); messages between two    *)
(* nodes with one tag do not overtake each other.                          *)
(***************************************************************************)
EXTENDS NodeGrid, Sequences

CONSTANT Phases       \* the exchanges and reductions every node performs

PhaseType == [kind : {"xchg", "reduce"}, coord : Coord, dir : {Left, Right},
              tag : {"STORAGE_COMM_TAG", "DD_COMM_TAG"}]

ASSUME PhasesAssumption ==
  /\ Phases \in Seq(PhaseType)
  /\ \A k \in DOMAIN Phases :
       Phases[k].kind = "xchg" => GridSize[Phases[k].coord] > 1

-----------------------------------------------------------------------------
(* The exchange of a phase.                                                *)

Last == Len(Phases)
IsXchg(k) == Phases[k].kind = "xchg"
Receiver(n, k) == NodeNeighbor(n, Phases[k].coord, Phases[k].dir)
Sender(n, k)   == NodeNeighbor(n, Phases[k].coord, Opposite(Phases[k].dir))

\* variant: without the odd-even rule, every node sends first
SendFirstAlways(n, k) == TRUE

\* the odd-even rule
SendFirst(n, k) == n[Phases[k].coord] % 2 = 0

-----------------------------------------------------------------------------
(* Schedules of the code, for the coordinates that have several nodes.     *)

Xchg(c, d, t) == [kind |-> "xchg", coord |-> c, dir |-> d, tag |-> t]
Reduce == [kind |-> "reduce", coord |-> 0, dir |-> Left, tag |-> "DD_COMM_TAG"]
Communicates(ph) == GridSize[ph.coord] > 1
OnGrid(s) == SelectSeq(s, Communicates)

\* one round of decomposeRealParticles
MigrationRound ==
  LET Pair(c) == <<Xchg(c, Left, "STORAGE_COMM_TAG"), Xchg(c, Right, "STORAGE_COMM_TAG")>>
  IN  OnGrid(Pair(0) \o Pair(1) \o Pair(2)) \o <<Reduce>>

\* doGhostCommunication(TRUE, TRUE): sizes, then data, for each direction
ExchangeGhosts ==
  LET Two(c, d) == <<Xchg(c, d, "DD_COMM_TAG"), Xchg(c, d, "DD_COMM_TAG")>>
      Pair(c)   == Two(c, Left) \o Two(c, Right)
  IN  OnGrid(Pair(0) \o Pair(1) \o Pair(2))

\* doGhostCommunication(FALSE, TRUE)
UpdateGhosts ==
  LET Pair(c) == <<Xchg(c, Left, "DD_COMM_TAG"), Xchg(c, Right, "DD_COMM_TAG")>>
  IN  OnGrid(Pair(0) \o Pair(1) \o Pair(2))

\* doGhostCommunication(FALSE, FALSE): coordinates inverted, and for each
\* direction the data flows against it
CollectGhostForces ==
  LET Pair(c) == <<Xchg(c, Right, "DD_COMM_TAG"), Xchg(c, Left, "DD_COMM_TAG")>>
  IN  OnGrid(Pair(2) \o Pair(1) \o Pair(0))

-----------------------------------------------------------------------------
VARIABLES ph,       \* phase a node is in; Last + 1 when its program is over
          half,     \* 0 before, 1 after the first call of an exchange
          posted,   \* the send of the current phase was handed to MPI
          net       \* messages not yet taken by their receiver

vars == <<ph, half, posted, net>>

Message == [src : Node, dst : Node, ph : 1 .. Last]

\* Programs, counters and messages keep their types: a node never runs past
\* the last exchange of its program.
TypeOK ==
  /\ ph \in [Node -> 1 .. Last + 1]
  /\ half \in [Node -> {0, 1}]
  /\ posted \in [Node -> BOOLEAN]
  /\ net \in SUBSET Message

Init ==
  /\ ph = [n \in Node |-> 1]
  /\ half = [n \in Node |-> 0]
  /\ posted = [n \in Node |-> FALSE]
  /\ net = {}

InXchg(n) == ph[n] <= Last /\ IsXchg(ph[n])
AtSend(n) == InXchg(n) /\ (SendFirst(n, ph[n]) <=> half[n] = 0)
AtRecv(n) == InXchg(n) /\ (SendFirst(n, ph[n]) <=> half[n] = 1)
AtReduce(n) == ph[n] <= Last /\ ~IsXchg(ph[n])

MyMessage(n) == [src |-> n, dst |-> Receiver(n, ph[n]), ph |-> ph[n]]

\* what a receive of n may match: right source and tag, not overtaking
Pending(n) == {m \in net : /\ m.src = Sender(n, ph[n])
                           /\ m.dst = n
                           /\ Phases[m.ph].tag = Phases[ph[n]].tag}
Deliverable(n) == {m \in Pending(n) : \A o \in Pending(n) : m.ph <= o.ph}

\* variant: the flag is not reset for the next exchange
ReturnNoReset(n) ==
  /\ ph'   = [ph EXCEPT ![n] = IF half[n] = 1 THEN ph[n] + 1 ELSE ph[n]]
  /\ half' = [half EXCEPT ![n] = half[n] + 1]

\* the call n is in returns
Return(n) ==
  /\ ph'   = [ph EXCEPT ![n] = IF half[n] = 1 THEN ph[n] + 1 ELSE ph[n]]
  /\ half' = [half EXCEPT ![n] = 1 - half[n]]

Post(n) ==
  /\ AtSend(n) /\ ~posted[n]
  /\ net' = net \cup {MyMessage(n)}
  /\ posted' = [posted EXCEPT ![n] = TRUE]
  /\ UNCHANGED <<ph, half>>

SendReturns(n) ==
  /\ posted' = [posted EXCEPT ![n] = FALSE]
  /\ Return(n)
  /\ UNCHANGED net

EagerReturn(n)  == AtSend(n) /\ posted[n] /\ MyMessage(n) \in net /\ SendReturns(n)
CompleteSend(n) == AtSend(n) /\ posted[n] /\ MyMessage(n) \notin net /\ SendReturns(n)

\* variant: the message is probed for its size and never taken
RecvProbeOnly(n) ==
  /\ AtRecv(n)
  /\ Deliverable(n) # {}
  /\ Return(n)
  /\ UNCHANGED <<posted, net>>

Recv(n) ==
  /\ AtRecv(n)
  /\ \E m \in Deliverable(n) : net' = net \ {m}
  /\ Return(n)
  /\ UNCHANGED posted

\* variant: a node trusts its own flag instead of reducing it
AllReduceLocal(n) ==
  /\ AtReduce(n)
  /\ ph' = [ph EXCEPT ![n] = ph[n] + 1]
  /\ UNCHANGED <<half, posted, net>>

\* all_reduce returns once every node has called it
AllReduce(n) ==
  /\ AtReduce(n)
  /\ \A o \in Node : ph[o] >= ph[n]
  /\ ph' = [ph EXCEPT ![n] = ph[n] + 1]
  /\ UNCHANGED <<half, posted, net>>

\* steps that do not depend on MPI having buffer space
Progress(n) == Post(n) \/ CompleteSend(n) \/ Recv(n) \/ AllReduce(n)

Next == \E n \in Node : Progress(n) \/ EagerReturn(n)

Spec == Init /\ [][Next]_vars

\* a task that is not blocked goes on; MPI need not buffer anything
FairSpec == Spec /\ \A n \in Node : WF_vars(Progress(n))

-----------------------------------------------------------------------------
(* Properties.                                                             *)

Done(n) == ph[n] = Last + 1

\* A receive never takes a message of another exchange: with two nodes along
\* a coordinate both neighbours are the same task, and sizes, ghost data and
\* particles of different rounds share source, destination and tag.
Matched == \A n \in Node : AtRecv(n) => \A m \in Deliverable(n) : m.ph = ph[n]

CanProgress(n) ==
  \/ AtSend(n) /\ ~posted[n]
  \/ AtSend(n) /\ posted[n] /\ MyMessage(n) \notin net
  \/ AtRecv(n) /\ Deliverable(n) # {}
  \/ AtReduce(n) /\ \A o \in Node : ph[o] >= ph[n]

\* The odd-even rule keeps the tasks from waiting on each other in a circle,
\* even if MPI buffers no send and the ring has an odd number of nodes.
NoDeadlock == (\A n \in Node : Done(n)) \/ (\E n \in Node : CanProgress(n))

\* When a task leaves the all_reduce that ends a round of
\* decomposeRealParticles no particle buffer of that round is on its way.
QuietAfterReduce ==
  \A n \in Node, k \in 1 .. Last :
    (~IsXchg(k) /\ ph[n] > k) => \A m \in net : m.ph > k

\* Every task gets through its whole communication schedule.
Termination == <>(\A n \in Node : Done(n))
=============================================================================
