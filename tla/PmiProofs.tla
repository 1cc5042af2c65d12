------------------------------ MODULE PmiProofs ------------------------------
(***************************************************************************)
(* Proofs about Pmi, for every number of workers, groups and objects and   *)
(* for scripts of any length.                                              *)
(***************************************************************************)
EXTENDS Pmi, WellFoundedInduction, TLAPS

-----------------------------------------------------------------------------
(* The inductive invariant.                                                *)

Message == [cmd : Command, nr : Nat \ {0}]

\* messages to w in communicator c
At(w, c) == Range(chan[w][c])

Types ==
  /\ ctl \in {"script", "reset", "send", "gather", "stopped"}
  /\ cur \in Command /\ active \in Comm
  /\ live \subseteq Oid /\ deleted \subseteq Oid /\ live \cap deleted = {}
  /\ home \in [Oid -> SUBSET Worker]
  /\ sent \in Nat
  /\ chan \in [Worker -> [Comm -> Seq(Message)]]
  /\ listens \in [Worker -> Comm] /\ \A w \in Worker : w \in listens[w]
  /\ cache \in [Worker -> SUBSET Oid]
  /\ values \in [Worker -> Seq(1 .. sent)]
  /\ loop \in [Worker -> {"in", "left", "error"}]

\* messages are numbered in the order in which they were sent, in all
\* communicators together
Numbered ==
  \A w \in Worker, c \in Comm :
    /\ \A m \in At(w, c) : m.nr <= sent
    /\ \A i, j \in DOMAIN chan[w][c] : i < j => chan[w][c][i].nr < chan[w][c][j].nr
    /\ \A d \in Comm : \A m \in At(w, c), k \in At(w, d) : m.nr = k.nr => c = d /\ m = k

\* the command that was started can still be carried out
Started ==
  /\ ctl = "script" => cur = Nop
  /\ ctl = "gather" => cur.kind = "invoke"
  /\ ctl \in {"reset", "send"} =>
       /\ cur.kind # "delete" /\ cur.uses \subseteq Usable
       /\ cur.kind = "create" => \E o \in Oid \ (live \cup deleted) : cur.oids = {o}
       /\ cur.kind = "activate" => active = Worker

\* the communicator w has to wait in when it has taken all messages
Place(w) == IF w \in active THEN active ELSE Worker

\* the communicator w waits in after a command it got in c
Follows(w, c, cmd) ==
  CASE cmd.kind = "activate" /\ w \in cmd.comm -> cmd.comm
    [] cmd.kind = "deactivate" -> Worker
    [] OTHER -> c

\* each message is in the communicator the one before it leads to
Chain(w) ==
  /\ Pending(w) = {} => listens[w] = Place(w)
  /\ \A c \in Comm : \A m \in At(w, c) :
       /\ (\A k \in Pending(w) : m.nr <= k.nr) => c = listens[w]
       /\ (\A k \in Pending(w) : k.nr <= m.nr) => Follows(w, c, m.cmd) = Place(w)
       /\ \A d \in Comm : \A k \in At(w, d) :
            m.nr < k.nr /\ (\A j \in Pending(w) : ~(m.nr < j.nr /\ j.nr < k.nr))
              => d = Follows(w, c, m.cmd)

Chained == \A w \in Worker : loop[w] # "error" => Chain(w)

\* values and the commands that ask for them are those of the last command
Answers ==
  \A w \in Worker :
    /\ \A m \in Pending(w) : m.cmd.kind = "invoke" =>
         ctl = "gather" /\ w \in active /\ m.nr = sent
    /\ values[w] # <<>> =>
         /\ ctl = "gather" /\ w \in active /\ values[w] = <<sent>>
         /\ \A m \in Pending(w) : m.cmd.kind # "invoke"

\* messages before the n-th that create or delete o
Changes(w, n, o) ==
  {m \in Pending(w) : m.cmd.kind \in {"create", "delete"} /\ o \in m.cmd.oids /\ m.nr < n}

\* whether w will have o when it has taken the messages before the n-th
Has(w, n, o) ==
  IF Changes(w, n, o) = {} THEN o \in cache[w]
  ELSE \E m \in Changes(w, n, o) : m.cmd.kind = "create" /\ \A k \in Changes(w, n, o) : k.nr <= m.nr

\* a worker will have an object when a command uses it, and will not when a
\* command creates it
Fits ==
  \A w \in Worker : \A m \in Pending(w) :
    /\ \A o \in m.cmd.uses : Has(w, m.nr, o)
    /\ m.cmd.kind = "create" => \A o \in m.cmd.oids : ~Has(w, m.nr, o)

\* in the end the workers have the objects of the script
Caches ==
  \A w \in Worker, o \in Oid :
    Has(w, sent + 1, o) <=>
      o \in live \cup (IF ctl = "reset" THEN {} ELSE deleted) /\ w \in home[o]

\* ids that were noted reach all workers
DeletedReachAll ==
  deleted # {} => active = Worker /\ (ctl = "send" => cur.kind # "activate")

IInv ==
  /\ Types /\ Numbered /\ Started /\ Chained /\ Answers
  /\ Careful => NoInternalError /\ Fits /\ Caches /\ DeletedReachAll

-----------------------------------------------------------------------------
(* Queues.                                                                 *)

\* A message at the end of a queue is one more message in it.
LEMMA RangeAppend ==
  ASSUME NEW S, NEW s \in Seq(S), NEW e
  PROVE  Range(Append(s, e)) = Range(s) \cup {e}
<1> DEFINE a == Append(s, e)
<1>1. DOMAIN s = 1 .. Len(s) /\ Len(s) \in Nat
  OBVIOUS
<1>2. DOMAIN a = 1 .. Len(s) + 1
  BY <1>1
<1>3. a[Len(s) + 1] = e /\ \A i \in 1 .. Len(s) : a[i] = s[i]
  BY <1>1
<1> HIDE DEF a
<1>4. ASSUME NEW m \in Range(a) PROVE m \in Range(s) \cup {e}
  <2>1. PICK i \in 1 .. Len(s) + 1 : m = a[i]
    BY <1>2 DEF Range
  <2>2. i \in 1 .. Len(s) \/ i = Len(s) + 1
    BY <1>1, <2>1
  <2> QED BY <1>1, <1>3, <2>1, <2>2 DEF Range
<1>5. ASSUME NEW m \in Range(s) \cup {e} PROVE m \in Range(a)
  <2>1. CASE m = e
    <3>1. Len(s) + 1 \in 1 .. Len(s) + 1
      BY <1>1
    <3> QED BY <1>2, <1>3, <2>1, <3>1 DEF Range
  <2>2. CASE m \in Range(s)
    <3>1. PICK i \in 1 .. Len(s) : m = s[i]
      BY <1>1, <2>2 DEF Range
    <3>2. i \in 1 .. Len(s) + 1
      BY <1>1, <3>1
    <3> QED BY <1>2, <1>3, <3>1, <3>2 DEF Range
  <2> QED BY <2>1, <2>2
<1> QED
  BY <1>4, <1>5 DEF a

\* A queue is its first message and the others.
LEMMA RangeTail ==
  ASSUME NEW S, NEW s \in Seq(S), s # <<>>
  PROVE  /\ Range(s) = Range(Tail(s)) \cup {Head(s)} /\ Tail(s) \in Seq(S)
         /\ \A m \in Range(Tail(s)) : \E i \in DOMAIN s : i > 1 /\ m = s[i]
         /\ Head(s) = s[1] /\ 1 \in DOMAIN s
<1> DEFINE t == Tail(s)
<1>1. DOMAIN s = 1 .. Len(s) /\ Len(s) \in Nat /\ Len(s) > 0 /\ Head(s) = s[1]
  OBVIOUS
<1>2. t \in Seq(S) /\ DOMAIN t = 1 .. Len(s) - 1 /\ \A i \in 1 .. Len(s) - 1 : t[i] = s[i + 1]
  BY <1>1
<1> HIDE DEF t
<1>3. ASSUME NEW m \in Range(t) PROVE \E i \in DOMAIN s : i > 1 /\ m = s[i]
  <2>1. PICK i \in 1 .. Len(s) - 1 : m = t[i]
    BY <1>2 DEF Range
  <2>2. i + 1 \in DOMAIN s /\ i + 1 > 1 /\ m = s[i + 1]
    BY <1>1, <1>2, <2>1
  <2> QED BY <2>2
<1>4. ASSUME NEW m \in Range(s) PROVE m \in Range(t) \cup {Head(s)}
  <2>1. PICK i \in 1 .. Len(s) : m = s[i]
    BY <1>1 DEF Range
  <2>2. CASE i = 1
    BY <1>1, <2>1, <2>2
  <2>3. CASE i # 1
    <3>1. i - 1 \in 1 .. Len(s) - 1 /\ (i - 1) + 1 = i
      BY <1>1, <2>1, <2>3
    <3>2. m = t[i - 1]
      BY <1>2, <2>1, <3>1
    <3> QED BY <1>2, <3>1, <3>2 DEF Range
  <2> QED BY <2>2, <2>3
<1>5. 1 \in DOMAIN s /\ Head(s) \in Range(s)
  BY <1>1 DEF Range
<1>6. Range(t) \subseteq Range(s)
  BY <1>3 DEF Range
<1> QED
  BY <1>1, <1>2, <1>3, <1>4, <1>5, <1>6 DEF t

\* Among numbers there is a least one.
LEMMA LeastNumber ==
  ASSUME NEW T, T \subseteq Nat, T # {}
  PROVE  \E x \in T : \A y \in T : x <= y
<1>1. PICK x \in T : \A y \in T : ~(<<y, x>> \in OpToRel(<, Nat))
  BY WFMin, NatLessThanWellFounded
<1>2. \A y \in T : ~(y < x)
  BY <1>1 DEF OpToRel
<1> QED
  BY <1>2

\* What a worker has not heard yet are messages in one of its queues.
LEMMA PendingIs ==
  ASSUME Types, NEW w \in Worker
  PROVE  /\ \A c \in Comm : At(w, c) \subseteq Pending(w)
         /\ \A m \in Pending(w) : m \in Message /\ m.nr \in Nat /\ m.cmd \in Command
                                   /\ \E c \in Comm : m \in At(w, c)
<1>1. Pending(w) = UNION {At(w, c) : c \in Comm}
  BY DEF Pending, At
<1>2. \A c \in Comm : At(w, c) \subseteq Message
  BY DEF At, Range, Types
<1>3. \A m \in Message : m.nr \in Nat /\ m.cmd \in Command
  BY DEF Message
<1> QED
  BY <1>1, <1>2, <1>3

\* The message a worker takes next is the oldest on its way to it.
LEMMA Oldest ==
  ASSUME IInv, NEW w \in Worker, loop[w] # "error", Pending(w) # {}
  PROVE  /\ chan[w][listens[w]] # <<>>
         /\ \A m \in Pending(w) : Head(chan[w][listens[w]]).nr <= m.nr
<1>1. Types
  BY DEF IInv
<1> DEFINE T == {m.nr : m \in Pending(w)}
<1>2. T \subseteq Nat /\ T # {}
  BY <1>1, PendingIs
<1>3. PICK x \in T : \A y \in T : x <= y
  BY <1>2, LeastNumber
<1>4. PICK m \in Pending(w) : m.nr = x
  OBVIOUS
<1>5. \A k \in Pending(w) : m.nr <= k.nr
  BY <1>3, <1>4
<1>6. PICK c \in Comm : m \in At(w, c)
  BY <1>1, PendingIs
<1>7. c = listens[w]
  BY <1>5, <1>6 DEF IInv, Chained, Chain
<1> DEFINE q == chan[w][c]
<1>8. q \in Seq(Message) /\ q # <<>>
  BY <1>1, <1>6 DEF Types, At, Range
<1>9. Head(q).nr \in Nat
  <2> HIDE DEF q
  <2>1. Head(q) \in Message
    BY <1>8
  <2> QED BY <2>1 DEF Message
<1>10. Head(q).nr <= m.nr
  <2>1. PICK i \in DOMAIN q : m = q[i]
    BY <1>6 DEF At, Range
  <2>2. Head(q) = q[1] /\ 1 \in DOMAIN q /\ DOMAIN q = 1 .. Len(q)
    BY <1>8, RangeTail
  <2>3. m.nr \in Nat
    BY <1>1, PendingIs
  <2>4. CASE i = 1
    BY <2>1, <2>2, <2>3, <2>4
  <2>5. CASE i # 1
    <3>1. 1 < i
      BY <1>8, <2>1, <2>2, <2>5
    <3>2. q[1].nr < q[i].nr
      BY <2>1, <2>2, <3>1 DEF IInv, Numbered
    <3> QED BY <1>9, <2>1, <2>2, <2>3, <3>2
  <2> QED BY <2>4, <2>5
<1>11. \A k \in Pending(w) : Head(q).nr <= k.nr
  BY <1>1, <1>5, <1>9, <1>10, PendingIs
<1> QED
  BY <1>7, <1>8, <1>11

-----------------------------------------------------------------------------
(* A broadcast.                                                            *)

\* _MPIBroadcast(): each worker of the active communicator has one more
\* message there, with a number no other has.
LEMMA Sent ==
  ASSUME IInv, NEW cmd \in Command, Broadcast(cmd),
         NEW e, e = [cmd |-> cmd, nr |-> sent + 1]
  PROVE  /\ chan' \in [Worker -> [Comm -> Seq(Message)]]
         /\ e \in Message /\ e.cmd = cmd /\ e.nr = sent + 1
         /\ \A w \in Worker, c \in Comm :
              At(w, c)' = IF w \in active /\ c = active THEN At(w, c) \cup {e} ELSE At(w, c)
         /\ \A w \in Worker :
              Pending(w)' = IF w \in active THEN Pending(w) \cup {e} ELSE Pending(w)
         /\ \A w \in Worker : \A m \in Pending(w) : m.nr <= sent /\ m.nr < e.nr /\ m # e
         /\ Numbered'
<1>1. /\ Types /\ sent \in Nat /\ active \in Comm
      /\ chan \in [Worker -> [Comm -> Seq(Message)]]
  BY DEF IInv, Types
<1>2. e \in Message /\ e.cmd = cmd /\ e.nr = sent + 1
  BY <1>1 DEF Message
<1>3. /\ chan' = [w \in Worker |-> IF w \in active
                                  THEN [chan[w] EXCEPT ![active] = Append(@, e)] ELSE chan[w]]
      /\ sent' = sent + 1
  BY DEF Broadcast
<1>4. \A w \in Worker, c \in Comm :
        chan'[w][c] = IF w \in active /\ c = active THEN Append(chan[w][c], e) ELSE chan[w][c]
  BY <1>1, <1>3
<1>5. ASSUME NEW w \in Worker PROVE chan'[w] \in [Comm -> Seq(Message)]
  <2>1. chan[w] \in [Comm -> Seq(Message)] /\ Append(chan[w][active], e) \in Seq(Message)
    BY <1>1, <1>2
  <2>2. chan'[w] = IF w \in active THEN [chan[w] EXCEPT ![active] = Append(chan[w][active], e)]
                                  ELSE chan[w]
    BY <1>1, <1>3
  <2> QED BY <2>1, <2>2
<1>6. chan' \in [Worker -> [Comm -> Seq(Message)]]
  BY <1>3, <1>5
<1>7. ASSUME NEW w \in Worker, NEW c \in Comm
      PROVE  At(w, c)' = IF w \in active /\ c = active THEN At(w, c) \cup {e} ELSE At(w, c)
  <2>1. chan[w][c] \in Seq(Message)
    BY <1>1
  <2>2. Range(Append(chan[w][c], e)) = Range(chan[w][c]) \cup {e}
    BY <2>1, RangeAppend
  <2> QED BY <1>4, <2>2 DEF At
<1>8. ASSUME NEW w \in Worker
      PROVE  Pending(w)' = IF w \in active THEN Pending(w) \cup {e} ELSE Pending(w)
  <2>1. /\ Pending(w) = UNION {At(w, c) : c \in Comm}
        /\ Pending(w)' = UNION {At(w, c)' : c \in Comm}
    BY DEF Pending, At, Comm
  <2>2. CASE w \in active
    <3>1. \A c \in Comm : At(w, c)' = IF c = active THEN At(w, c) \cup {e} ELSE At(w, c)
      BY <1>7, <2>2
    <3>2. \E c \in Comm : e \in At(w, c)'
      BY <1>1, <3>1
    <3>3. \A c \in Comm : At(w, c) \subseteq At(w, c)' /\ At(w, c)' \subseteq At(w, c) \cup {e}
      BY <3>1
    <3> QED BY <1>1, <2>1, <2>2, <3>2, <3>3
  <2>3. CASE w \notin active
    <3>1. \A c \in Comm : At(w, c)' = At(w, c)
      BY <1>7, <2>3
    <3> QED BY <2>1, <2>3, <3>1
  <2> QED BY <2>2, <2>3
<1>9. ASSUME NEW w \in Worker, NEW m \in Pending(w)
      PROVE  m.nr \in Nat /\ m.nr <= sent /\ m.nr < e.nr /\ m # e
  <2>1. m.nr \in Nat /\ \E c \in Comm : m \in At(w, c)
    BY <1>1, PendingIs
  <2>2. m.nr <= sent
    BY <2>1 DEF IInv, Numbered
  <2> QED BY <1>1, <1>2, <2>1, <2>2
<1>10. Numbered'
  <2> SUFFICES ASSUME NEW w \in Worker, NEW c \in Comm
               PROVE  /\ \A m \in At(w, c)' : m.nr <= sent'
                      /\ \A i, j \in DOMAIN chan'[w][c] :
                           i < j => chan'[w][c][i].nr < chan'[w][c][j].nr
                      /\ \A d \in Comm : \A m \in At(w, c)', k \in At(w, d)' :
                           m.nr = k.nr => c = d /\ m = k
    BY DEF Numbered, Comm
  <2>1. \A m \in At(w, c)' : m \in At(w, c) \/ (m = e /\ c = active /\ w \in active)
    BY <1>7
  <2>2. \A m \in At(w, c)' : m.nr <= sent'
    BY <1>1, <1>2, <1>3, <1>9, <2>1, PendingIs
  <2>3. ASSUME NEW i \in DOMAIN chan'[w][c], NEW j \in DOMAIN chan'[w][c], i < j
        PROVE  chan'[w][c][i].nr < chan'[w][c][j].nr
    <3>1. CASE ~(w \in active /\ c = active)
      BY <1>4, <2>3, <3>1 DEF IInv, Numbered
    <3>2. CASE w \in active /\ c = active
      <4> DEFINE q == chan[w][c]
      <4>1. q \in Seq(Message) /\ chan'[w][c] = Append(q, e)
        BY <1>1, <1>4, <3>2
      <4> HIDE DEF q
      <4>2. /\ DOMAIN q = 1 .. Len(q) /\ Len(q) \in Nat /\ DOMAIN Append(q, e) = 1 .. Len(q) + 1
            /\ Append(q, e)[Len(q) + 1] = e /\ \A l \in 1 .. Len(q) : Append(q, e)[l] = q[l]
        BY <4>1
      <4>3. i \in 1 .. Len(q) /\ (j \in 1 .. Len(q) \/ j = Len(q) + 1)
        BY <2>3, <4>1, <4>2
      <4>4. CASE j \in 1 .. Len(q)
        BY <2>3, <4>1, <4>2, <4>3, <4>4 DEF IInv, Numbered, q
      <4>5. CASE j = Len(q) + 1
        <5>1. q[i] \in At(w, c)
          BY <4>2, <4>3 DEF At, Range, q
        <5> QED BY <1>1, <1>9, <4>1, <4>2, <4>3, <4>5, <5>1, PendingIs
      <4> QED BY <4>3, <4>4, <4>5
    <3> QED BY <3>1, <3>2
  <2>4. ASSUME NEW d \in Comm, NEW m \in At(w, c)', NEW k \in At(w, d)', m.nr = k.nr
        PROVE  c = d /\ m = k
    <3>1. k \in At(w, d) \/ (k = e /\ d = active /\ w \in active)
      BY <1>7
    <3>2. CASE m \in At(w, c) /\ k \in At(w, d)
      BY <2>4, <3>2 DEF IInv, Numbered
    <3>3. CASE m \in At(w, c) /\ k = e
      <4>1. m \in Pending(w)
        BY <1>1, <3>3, PendingIs
      <4> QED BY <1>1, <1>2, <1>9, <2>4, <3>3, <4>1
    <3>4. CASE m = e /\ k \in At(w, d)
      <4>1. k \in Pending(w)
        BY <1>1, <3>4, PendingIs
      <4> QED BY <1>1, <1>2, <1>9, <2>4, <3>4, <4>1
    <3> QED BY <2>1, <3>1, <3>2, <3>3, <3>4
  <2> QED BY <2>2, <2>3, <2>4
<1> QED
  BY <1>2, <1>6, <1>7, <1>8, <1>9, <1>10

\* The new message is in the communicator the messages before it lead to.
LEMMA ChainSent ==
  ASSUME IInv, NEW cmd \in Command, Broadcast(cmd), loop' = loop, listens' = listens,
         \A w \in Worker : IF w \in active THEN Follows(w, active, cmd) = Place(w)'
                                             ELSE Place(w)' = Place(w)
  PROVE  Chained'
<1> DEFINE e == [cmd |-> cmd, nr |-> sent + 1]
<1>0. e = [cmd |-> cmd, nr |-> sent + 1] /\ e.nr \in Nat
  BY DEF IInv, Types
<1> HIDE DEF e
<1>1. /\ e.cmd = cmd
      /\ \A w \in Worker, c \in Comm :
           At(w, c)' = IF w \in active /\ c = active THEN At(w, c) \cup {e} ELSE At(w, c)
      /\ \A w \in Worker :
           Pending(w)' = IF w \in active THEN Pending(w) \cup {e} ELSE Pending(w)
      /\ \A w \in Worker : \A m \in Pending(w) : m.nr <= sent /\ m.nr < e.nr /\ m # e
  BY <1>0, Sent
<1>2. Types /\ active \in Comm
  BY DEF IInv, Types
<1>3. ASSUME NEW w \in Worker, loop'[w] # "error" PROVE Chain(w)'
  <2>1. Chain(w)
    BY <1>3 DEF IInv, Chained
  <2>2. \A m \in Pending(w) : m.nr \in Nat
    BY <1>2, PendingIs
  <2>3. \A c \in Comm : At(w, c) \subseteq Pending(w)
    BY <1>2, PendingIs
  <2>4. CASE w \notin active
    <3>1. Pending(w)' = Pending(w) /\ \A c \in Comm : At(w, c)' = At(w, c)
      BY <1>1, <2>4
    <3>2. Place(w)' = Place(w) /\ listens'[w] = listens[w]
      BY <2>4
    <3>3. \A c, k : Follows(w, c, k)' = Follows(w, c, k)
      BY DEF Follows
    <3> QED BY <2>1, <3>1, <3>2, <3>3 DEF Chain, Comm
  <2>5. CASE w \in active
    <3>1. /\ Pending(w)' = Pending(w) \cup {e}
          /\ \A c \in Comm : At(w, c)' = IF c = active THEN At(w, c) \cup {e} ELSE At(w, c)
      BY <1>1, <2>5
    <3>2. Follows(w, active, cmd) = Place(w)' /\ Place(w) = active
      BY <2>5 DEF Place
    <3>3. \A m \in Pending(w) : m.nr < e.nr
      BY <1>1
    <3>4. ASSUME NEW c \in Comm, NEW m \in At(w, c)'
          PROVE  /\ (\A k \in Pending(w)' : m.nr <= k.nr) => c = listens[w]
                 /\ (\A k \in Pending(w)' : k.nr <= m.nr) => Follows(w, c, m.cmd) = Place(w)'
                 /\ \A d \in Comm : \A k \in At(w, d)' :
                      m.nr < k.nr /\ (\A j \in Pending(w)' : ~(m.nr < j.nr /\ j.nr < k.nr))
                        => d = Follows(w, c, m.cmd)
      <4>1. CASE m \in At(w, c)
        <5>1. m \in Pending(w)
          BY <2>3, <4>1
        <5>2. (\A k \in Pending(w)' : m.nr <= k.nr) => c = listens[w]
          BY <2>1, <3>1, <4>1 DEF Chain
        <5>3. ~(\A k \in Pending(w)' : k.nr <= m.nr)
          BY <1>0, <2>2, <3>1, <3>3, <5>1
        <5>4. ASSUME NEW d \in Comm, NEW k \in At(w, d)', m.nr < k.nr,
                     \A j \in Pending(w)' : ~(m.nr < j.nr /\ j.nr < k.nr)
              PROVE  d = Follows(w, c, m.cmd)
          <6>1. CASE k \in At(w, d)
            BY <2>1, <3>1, <4>1, <5>4, <6>1 DEF Chain
          <6>2. CASE k = e /\ d = active
            <7>1. \A j \in Pending(w) : j.nr <= m.nr
              BY <1>0, <2>2, <3>1, <3>3, <5>1, <5>4, <6>2
            <7> QED BY <2>1, <3>2, <4>1, <6>2, <7>1 DEF Chain
          <6> QED BY <3>1, <6>1, <6>2
        <5> QED BY <5>2, <5>3, <5>4
      <4>2. CASE m = e /\ c = active
        <5>1. (\A k \in Pending(w)' : m.nr <= k.nr) => c = listens[w]
          <6> SUFFICES ASSUME \A k \in Pending(w)' : m.nr <= k.nr PROVE c = listens[w]
            OBVIOUS
          <6>1. Pending(w) = {}
            BY <1>0, <2>2, <3>1, <3>3, <4>2
          <6> QED BY <2>1, <3>2, <4>2, <6>1 DEF Chain
        <5>2. Follows(w, c, m.cmd) = Place(w)'
          BY <1>1, <3>2, <4>2
        <5>3. \A d \in Comm : \A k \in At(w, d)' : ~(m.nr < k.nr)
          BY <1>0, <2>2, <2>3, <3>1, <3>3, <4>2
        <5> QED BY <5>1, <5>2, <5>3
      <4> QED BY <3>1, <4>1, <4>2
    <3>5. \A c, k : Follows(w, c, k)' = Follows(w, c, k)
      BY DEF Follows
    <3>6. Pending(w)' # {}
      BY <3>1
    <3> QED BY <3>4, <3>5, <3>6 DEF Chain, Comm
  <2> QED BY <2>4, <2>5
<1> QED
  BY <1>3 DEF Chained

\* A broadcast changes nothing for the messages before it, and after it a
\* worker has the objects it had and those created, less those deleted.
LEMMA HasSent ==
  ASSUME IInv, NEW cmd \in Command, Broadcast(cmd), cache' = cache,
         NEW w \in Worker, NEW o \in Oid
  PROVE  /\ \A n \in Nat : n <= sent + 1 => (Has(w, n, o)' <=> Has(w, n, o))
         /\ Has(w, sent + 1, o)' <=>
              IF w \in active /\ cmd.kind \in {"create", "delete"} /\ o \in cmd.oids
              THEN cmd.kind = "create" ELSE Has(w, sent + 1, o)
<1> DEFINE e == [cmd |-> cmd, nr |-> sent + 1]
<1>1. /\ e.cmd = cmd /\ e.nr = sent + 1 /\ sent \in Nat
      /\ Pending(w)' = IF w \in active THEN Pending(w) \cup {e} ELSE Pending(w)
      /\ \A m \in Pending(w) : m.nr <= sent /\ m.nr < e.nr /\ m # e
  BY Sent DEF IInv, Types
<1>2. \A m \in Pending(w) : m.nr \in Nat
  BY PendingIs DEF IInv
<1>3. sent' = sent + 1
  BY DEF Broadcast
<1> HIDE DEF e
<1>4. ASSUME NEW n \in Nat, n <= sent + 1 PROVE Has(w, n, o)' <=> Has(w, n, o)
  <2>1. Changes(w, n, o)' = Changes(w, n, o)
    BY <1>1, <1>2, <1>4 DEF Changes
  <2> QED BY <2>1 DEF Has
<1> DEFINE C == Changes(w, sent + 1, o)
           D == Changes(w, sent + 1, o)'
<1>5. /\ D = {m \in Pending(w)' : m.cmd.kind \in {"create", "delete"} /\ o \in m.cmd.oids
                                   /\ m.nr < sent + 2}
      /\ C = {m \in Pending(w) : m.cmd.kind \in {"create", "delete"} /\ o \in m.cmd.oids}
  BY <1>1, <1>2, <1>3 DEF Changes
<1>6. /\ Has(w, sent + 1, o)' <=>
           IF D = {} THEN o \in cache[w]
           ELSE \E m \in D : m.cmd.kind = "create" /\ \A k \in D : k.nr <= m.nr
      /\ Has(w, sent + 1, o) <=>
           IF C = {} THEN o \in cache[w]
           ELSE \E m \in C : m.cmd.kind = "create" /\ \A k \in C : k.nr <= m.nr
  BY DEF Has
<1> HIDE DEF C, D
<1>7. CASE w \in active /\ cmd.kind \in {"create", "delete"} /\ o \in cmd.oids
  <2>1. e \in D /\ \A m \in D : m = e \/ m \in Pending(w)
    BY <1>1, <1>5, <1>7
  <2>2. (\E m \in D : m.cmd.kind = "create" /\ \A k \in D : k.nr <= m.nr) <=> cmd.kind = "create"
    BY <1>1, <1>2, <2>1
  <2> QED BY <1>4, <1>6, <1>7, <2>1, <2>2
<1>8. CASE ~(w \in active /\ cmd.kind \in {"create", "delete"} /\ o \in cmd.oids)
  <2>1. D = C
    BY <1>1, <1>2, <1>5, <1>8
  <2> QED BY <1>4, <1>6, <1>8, <2>1
<1> QED
  BY <1>4, <1>7, <1>8

-----------------------------------------------------------------------------
(* A worker takes a message.                                               *)

\* receive() takes the oldest of all messages to the worker.
LEMMA Taken ==
  ASSUME IInv, NEW w \in Worker, Receive(w),
         NEW h, h = Head(chan[w][listens[w]])
  PROVE  /\ chan' \in [Worker -> [Comm -> Seq(Message)]]
         /\ h \in Message /\ h \in Pending(w) /\ h \in At(w, listens[w])
         /\ \A c \in Comm : At(w, c)' = At(w, c) \ {h}
         /\ Pending(w)' = Pending(w) \ {h}
         /\ \A m \in Pending(w)' : h.nr < m.nr
         /\ \A v \in Worker \ {w} : Pending(v)' = Pending(v)
                                    /\ \A c \in Comm : At(v, c)' = At(v, c)
         /\ Numbered'
<1> DEFINE a == listens[w]
           q == chan[w][a]
<1>1. /\ Types /\ a \in Comm /\ chan \in [Worker -> [Comm -> Seq(Message)]]
      /\ chan[w] \in [Comm -> Seq(Message)] /\ q \in Seq(Message)
  BY DEF IInv, Types
<1>2. /\ loop[w] = "in" /\ q # <<>> /\ sent' = sent
      /\ chan' = [chan EXCEPT ![w][a] = Tail(q)]
  BY DEF Receive, script
<1>3. h = Head(q)
  OBVIOUS
<1> HIDE DEF a, q
<1>4. /\ Range(q) = Range(Tail(q)) \cup {h} /\ Tail(q) \in Seq(Message)
      /\ \A m \in Range(Tail(q)) : \E i \in DOMAIN q : i > 1 /\ m = q[i]
      /\ h = q[1] /\ 1 \in DOMAIN q /\ q \in Seq(Message) /\ h \in Message
  BY <1>1, <1>2, <1>3, RangeTail
<1>5. /\ chan'[w] = [chan[w] EXCEPT ![a] = Tail(q)]
      /\ chan'[w][a] = Tail(q)
      /\ \A c \in Comm \ {a} : chan'[w][c] = chan[w][c]
      /\ \A v \in Worker \ {w} : chan'[v] = chan[v]
  BY <1>1, <1>2
<1>6. chan' \in [Worker -> [Comm -> Seq(Message)]]
  <2>1. [chan[w] EXCEPT ![a] = Tail(q)] \in [Comm -> Seq(Message)]
    BY <1>1, <1>4
  <2> QED BY <1>1, <1>2, <1>5, <2>1
<1>7. h \in At(w, a) /\ h \in Pending(w)
  <2>1. h \in At(w, a)
    BY <1>4 DEF At, q
  <2> QED BY <1>1, <2>1, PendingIs
<1>8. \A m \in Range(Tail(q)) : h.nr < m.nr
  <2> TAKE m \in Range(Tail(q))
  <2>1. PICK i \in DOMAIN q : i > 1 /\ m = q[i]
    BY <1>4
  <2>2. q[1].nr < q[i].nr
    BY <1>1, <1>4, <2>1 DEF IInv, Numbered, q
  <2> QED BY <1>4, <2>1, <2>2
<1>9. h \notin Range(Tail(q))
  BY <1>4, <1>8 DEF Message
<1>10. ASSUME NEW c \in Comm PROVE At(w, c)' = At(w, c) \ {h}
  <2>1. CASE c = a
    <3>1. Range(Tail(q)) = Range(q) \ {h}
      BY <1>4, <1>9
    <3> QED BY <1>5, <2>1, <3>1 DEF At, q
  <2>2. CASE c # a
    <3>1. h \notin At(w, c)
      BY <1>1, <1>7, <2>2 DEF IInv, Numbered
    <3> QED BY <1>5, <2>2, <3>1 DEF At
  <2> QED BY <2>1, <2>2
<1>11. Pending(w)' = Pending(w) \ {h}
  <2>1. /\ Pending(w) = UNION {At(w, c) : c \in Comm}
        /\ Pending(w)' = UNION {At(w, c)' : c \in Comm}
    BY DEF Pending, At, Comm
  <2> QED BY <1>10, <2>1
<1>12. ASSUME NEW v \in Worker \ {w}
       PROVE  Pending(v)' = Pending(v) /\ \A c \in Comm : At(v, c)' = At(v, c)
  <2>1. /\ Pending(v) = UNION {At(v, c) : c \in Comm}
        /\ Pending(v)' = UNION {At(v, c)' : c \in Comm}
    BY DEF Pending, At, Comm
  <2>2. \A c \in Comm : At(v, c)' = At(v, c)
    BY <1>5 DEF At
  <2> QED BY <2>1, <2>2
<1>13. \A m \in Pending(w)' : h.nr < m.nr
  <2> TAKE m \in Pending(w)'
  <2>1. m \in Pending(w) /\ m # h /\ m.nr \in Nat /\ h.nr \in Nat
    BY <1>1, <1>7, <1>11, PendingIs
  <2>2. h.nr <= m.nr
    BY <1>2, <1>3, <2>1, Oldest DEF a, q
  <2>3. h.nr # m.nr
    <3>1. \E c \in Comm : m \in At(w, c)
      BY <1>1, <2>1, PendingIs
    <3> QED BY <1>1, <1>7, <2>1, <3>1 DEF IInv, Numbered
  <2> QED BY <2>1, <2>2, <2>3
<1>14. Numbered'
  <2>1. ASSUME NEW v \in Worker, NEW c \in Comm
        PROVE  At(v, c)' \subseteq At(v, c)
    BY <1>10, <1>12
  <2>2. ASSUME NEW v \in Worker, NEW c \in Comm,
               NEW i \in DOMAIN chan'[v][c], NEW j \in DOMAIN chan'[v][c], i < j
        PROVE  chan'[v][c][i].nr < chan'[v][c][j].nr
    <3>1. CASE v = w /\ c = a
      <4>1. chan'[v][c] = Tail(q)
        BY <1>5, <3>1
      <4>2. /\ i + 1 \in DOMAIN q /\ j + 1 \in DOMAIN q /\ i + 1 < j + 1
            /\ Tail(q)[i] = q[i + 1] /\ Tail(q)[j] = q[j + 1]
        BY <1>2, <1>4, <2>2, <4>1
      <4>3. q[i + 1].nr < q[j + 1].nr
        BY <1>1, <4>2 DEF IInv, Numbered, q
      <4> QED BY <4>1, <4>2, <4>3
    <3>2. CASE ~(v = w /\ c = a)
      <4>1. chan'[v][c] = chan[v][c]
        BY <1>5, <3>2
      <4> QED BY <2>2, <4>1 DEF IInv, Numbered
    <3> QED BY <3>1, <3>2
  <2>3. ASSUME NEW v \in Worker, NEW c \in Comm, NEW d \in Comm,
               NEW m \in At(v, c)', NEW k \in At(v, d)', m.nr = k.nr
        PROVE  c = d /\ m = k
    BY <2>1, <2>3 DEF IInv, Numbered
  <2>4. \A v \in Worker, c \in Comm : \A m \in At(v, c)' : m.nr <= sent'
    BY <1>2, <2>1 DEF IInv, Numbered
  <2> QED BY <2>2, <2>3, <2>4 DEF Numbered, Comm
<1> QED
  BY <1>4, <1>6, <1>7, <1>10, <1>11, <1>12, <1>13, <1>14 DEF a

\* The communicator a worker goes to is that of its next message.
LEMMA ChainTaken ==
  ASSUME IInv, NEW w \in Worker, Receive(w)
  PROVE  Chained'
<1> DEFINE h == Head(chan[w][listens[w]])
<1>1. /\ h \in Message /\ h \in Pending(w) /\ h \in At(w, listens[w])
      /\ \A c \in Comm : At(w, c)' = At(w, c) \ {h}
      /\ Pending(w)' = Pending(w) \ {h}
      /\ \A m \in Pending(w)' : h.nr < m.nr
      /\ \A v \in Worker \ {w} : Pending(v)' = Pending(v)
                                 /\ \A c \in Comm : At(v, c)' = At(v, c)
  BY Taken
<1>2. /\ loop[w] = "in" /\ active' = active
      /\ IF Fails(w, h.cmd)
         THEN loop' = [loop EXCEPT ![w] = "error"] /\ listens' = listens
         ELSE /\ loop' = [loop EXCEPT ![w] = IF h.cmd.kind = "stop" THEN "left" ELSE @]
              /\ listens' = [listens EXCEPT ![w] = ListensAfter(w, h.cmd)]
  BY DEF Receive, script
<1>3. /\ Types /\ listens \in [Worker -> Comm] /\ loop \in [Worker -> {"in", "left", "error"}]
  BY DEF IInv, Types
<1> HIDE DEF h
<1>4. \A v \in Worker : Place(v)' = Place(v)
  BY <1>2 DEF Place
<1>5. \A v, c, k : Follows(v, c, k)' = Follows(v, c, k)
  BY DEF Follows
<1>6. ASSUME NEW v \in Worker \ {w}, loop'[v] # "error" PROVE Chain(v)'
  <2>1. loop[v] # "error" /\ listens'[v] = listens[v]
    BY <1>2, <1>3, <1>6
  <2>2. Chain(v)
    BY <2>1 DEF IInv, Chained
  <2>3. Pending(v)' = Pending(v) /\ \A c \in Comm : At(v, c)' = At(v, c)
    BY <1>1
  <2> QED BY <1>4, <1>5, <2>1, <2>2, <2>3 DEF Chain, Comm
<1>7. ASSUME loop'[w] # "error" PROVE Chain(w)'
  <2>1. listens'[w] = Follows(w, listens[w], h.cmd)
    BY <1>2, <1>3, <1>7 DEF ListensAfter, Follows
  <2>2. Chain(w)
    BY <1>2 DEF IInv, Chained
  <2>3. /\ \A m \in Pending(w) : m.nr \in Nat
        /\ \A c \in Comm : At(w, c) \subseteq Pending(w)
    BY <1>3, PendingIs
  <2>4. \A m \in Pending(w) : m # h => h.nr < m.nr
    BY <1>1
  <2>5. listens[w] \in Comm /\ \A m \in Pending(w) : h.nr <= m.nr
    BY <1>1, <1>3, <2>3, <2>4
  <2>6. Pending(w)' = {} => listens'[w] = Place(w)
    <3> SUFFICES ASSUME Pending(w)' = {} PROVE listens'[w] = Place(w)
      OBVIOUS
    <3>1. \A k \in Pending(w) : k.nr <= h.nr
      BY <1>1, <2>3
    <3> QED BY <1>1, <2>1, <2>2, <2>5, <3>1 DEF Chain
  <2>7. ASSUME NEW c \in Comm, NEW m \in At(w, c)'
        PROVE  /\ (\A k \in Pending(w)' : m.nr <= k.nr) => c = listens'[w]
               /\ (\A k \in Pending(w)' : k.nr <= m.nr) => Follows(w, c, m.cmd) = Place(w)
               /\ \A d \in Comm : \A k \in At(w, d)' :
                    m.nr < k.nr /\ (\A j \in Pending(w)' : ~(m.nr < j.nr /\ j.nr < k.nr))
                      => d = Follows(w, c, m.cmd)
    <3>1. m \in At(w, c) /\ m \in Pending(w) /\ m # h /\ h.nr < m.nr /\ m.nr \in Nat /\ h.nr \in Nat
      BY <1>1, <2>3, <2>4
    <3>2. ASSUME \A k \in Pending(w)' : m.nr <= k.nr PROVE c = listens'[w]
      <4>1. \A j \in Pending(w) : ~(h.nr < j.nr /\ j.nr < m.nr)
        BY <1>1, <2>3, <3>1, <3>2
      <4>2. c = Follows(w, listens[w], h.cmd)
        BY <1>1, <2>2, <2>5, <3>1, <4>1 DEF Chain
      <4> QED BY <2>1, <4>2
    <3>3. ASSUME \A k \in Pending(w)' : k.nr <= m.nr PROVE Follows(w, c, m.cmd) = Place(w)
      <4>1. \A k \in Pending(w) : k.nr <= m.nr
        BY <1>1, <2>3, <3>1, <3>3
      <4> QED BY <2>2, <3>1, <4>1 DEF Chain
    <3>4. ASSUME NEW d \in Comm, NEW k \in At(w, d)', m.nr < k.nr,
                 \A j \in Pending(w)' : ~(m.nr < j.nr /\ j.nr < k.nr)
          PROVE  d = Follows(w, c, m.cmd)
      <4>1. k \in At(w, d)
        BY <1>1
      <4>2. \A j \in Pending(w) : ~(m.nr < j.nr /\ j.nr < k.nr)
        BY <1>1, <2>3, <3>1, <3>4
      <4> QED BY <2>2, <3>1, <3>4, <4>1, <4>2 DEF Chain
    <3> QED BY <3>2, <3>3, <3>4
  <2> QED BY <1>4, <1>5, <2>6, <2>7 DEF Chain, Comm
<1> QED
  BY <1>6, <1>7 DEF Chained

\* What a worker will have at a later message is not changed by taking the
\* message before it.
LEMMA HasTaken ==
  ASSUME IInv, NEW w \in Worker, Receive(w), NEW h, h = Head(chan[w][listens[w]]),
         ~Fails(w, h.cmd), NEW n \in Nat, h.nr < n, NEW o \in Oid
  PROVE  Has(w, n, o)' <=> Has(w, n, o)
<1>1. /\ h \in Pending(w) /\ h.nr \in Nat
      /\ Pending(w)' = Pending(w) \ {h}
      /\ \A m \in Pending(w) : m # h => h.nr < m.nr /\ m.nr \in Nat
  BY Taken, PendingIs DEF IInv, Message
<1>2. cache'[w] = CacheAfter(w, h.cmd)
  BY DEF Receive, IInv, Types
<1> DEFINE C == Changes(w, n, o)
           D == Changes(w, n, o)'
<1>3. D = C \ {h}
  BY <1>1 DEF Changes
<1>4. /\ Has(w, n, o)' <=>
           IF D = {} THEN o \in cache'[w]
           ELSE \E m \in D : m.cmd.kind = "create" /\ \A k \in D : k.nr <= m.nr
      /\ Has(w, n, o) <=>
           IF C = {} THEN o \in cache[w]
           ELSE \E m \in C : m.cmd.kind = "create" /\ \A k \in C : k.nr <= m.nr
  BY DEF Has
<1>5. h \in C <=> h.cmd.kind \in {"create", "delete"} /\ o \in h.cmd.oids
  BY <1>1 DEF Changes
<1>6. C \subseteq Pending(w)
  BY DEF Changes
<1> HIDE DEF C, D
<1>7. CASE h \notin C
  <2>1. D = C /\ (o \in cache'[w] <=> o \in cache[w])
    BY <1>2, <1>3, <1>5, <1>7 DEF CacheAfter
  <2> QED BY <1>4, <2>1
<1>8. CASE h \in C /\ D = {}
  <2>1. C = {h} /\ (o \in cache'[w] <=> h.cmd.kind = "create")
    BY <1>2, <1>3, <1>5, <1>8 DEF CacheAfter
  <2>2. (\E m \in C : m.cmd.kind = "create" /\ \A k \in C : k.nr <= m.nr)
          <=> h.cmd.kind = "create"
    BY <1>1, <2>1
  <2> QED BY <1>4, <1>8, <2>1, <2>2
<1>9. CASE h \in C /\ D # {}
  <2>1. PICK x \in D : TRUE
    BY <1>9
  <2>2. \A m \in C : m = h \/ (m \in D /\ h.nr < m.nr /\ m.nr \in Nat)
    BY <1>1, <1>3, <1>6
  <2>3. (\E m \in D : m.cmd.kind = "create" /\ \A k \in D : k.nr <= m.nr)
          <=> (\E m \in C : m.cmd.kind = "create" /\ \A k \in C : k.nr <= m.nr)
    BY <1>1, <1>3, <2>1, <2>2
  <2> QED BY <1>4, <1>9, <2>3
<1> QED
  BY <1>7, <1>8, <1>9

-----------------------------------------------------------------------------
(* Steps.                                                                  *)

\* A communicator connects the controller with workers.
LEMMA CommsAreWorkers ==
  \A c \in Comm : c \subseteq Worker
  BY PmiAssumption DEF Comm

\* Steps that send and take nothing.
LEMMA SameMessages ==
  ASSUME chan' = chan, cache' = cache, sent' = sent, NEW w \in Worker
  PROVE  /\ Pending(w)' = Pending(w) /\ \A c \in Comm : At(w, c)' = At(w, c)
         /\ \A n, o : Has(w, n, o)' <=> Has(w, n, o)
         /\ \A o : Has(w, sent + 1, o)' <=> Has(w, sent + 1, o)
<1>1. Pending(w)' = Pending(w) /\ \A c \in Comm : At(w, c)' = At(w, c)
  BY DEF Pending, At, Comm
<1>2. \A n, o : Changes(w, n, o)' = Changes(w, n, o)
  BY <1>1 DEF Changes
<1>3. \A o : Changes(w, sent + 1, o)' = Changes(w, sent + 1, o)
  BY <1>1 DEF Changes
<1> QED
  BY <1>1, <1>2, <1>3 DEF Has

\* A step that leaves queues, counters and groups alone keeps their order.
LEMMA SameChains ==
  ASSUME IInv, chan' = chan, cache' = cache, sent' = sent,
         active' = active, listens' = listens, loop' = loop
  PROVE  Numbered' /\ Chained'
<1>1. \A w \in Worker : Pending(w)' = Pending(w) /\ \A c \in Comm : At(w, c)' = At(w, c)
  BY SameMessages
<1>2. Numbered'
  BY <1>1 DEF IInv, Numbered, Comm
<1>3. \A w \in Worker : Place(w)' = Place(w) /\ \A c, k : Follows(w, c, k)' = Follows(w, c, k)
  BY DEF Place, Follows
<1>4. ASSUME NEW w \in Worker, loop[w] # "error" PROVE Chain(w)'
  <2>1. Chain(w)
    BY <1>4 DEF IInv, Chained
  <2> QED BY <1>1, <1>3, <2>1 DEF Chain, Comm
<1> QED
  BY <1>2, <1>4 DEF Chained

\* Before the first command nothing is under way.
LEMMA InitIInv == Init => IInv
<1> SUFFICES ASSUME Init PROVE IInv
  OBVIOUS
<1>1. Nop \in Command /\ Worker \in Comm
  BY DEF Nop, Command, Kinds, Comm
<1>2. \A w \in Worker : Pending(w) = {} /\ \A c \in Comm : chan[w][c] = <<>> /\ At(w, c) = {}
  <2>1. \A w \in Worker, c \in Comm : chan[w][c] = <<>> /\ At(w, c) = {}
    BY DEF Init, At, Range
  <2>2. \A w \in Worker : Pending(w) = UNION {At(w, c) : c \in Comm}
    BY DEF Pending, At
  <2> QED BY <2>1, <2>2
<1>3. Types
  BY <1>1 DEF Init, Types
<1>4. Numbered
  BY <1>2 DEF Numbered
<1>5. Started
  BY DEF Init, Started
<1>6. Chained
  BY <1>2 DEF Init, Chained, Chain, Place
<1>7. Answers
  BY <1>2 DEF Init, Answers
<1>8. NoInternalError /\ Fits /\ DeletedReachAll
  BY <1>2 DEF Init, NoInternalError, Fits, DeletedReachAll
<1>9. Caches
  <2>1. \A w \in Worker, o \in Oid : ~Has(w, sent + 1, o)
    BY <1>2 DEF Init, Has, Changes
  <2> QED BY <2>1 DEF Caches, Init
<1> QED
  BY <1>3, <1>4, <1>5, <1>6, <1>7, <1>8, <1>9 DEF IInv

\* A command is started; ids that were noted go out before it.
LEMMA StartStep ==
  ASSUME IInv, NEW cmd \in Command, Start(cmd)
  PROVE  IInv'
<1> DEFINE del == [Nop EXCEPT !.kind = "delete", !.oids = deleted]
<1>1. /\ ctl = "script" /\ cur' = cmd
      /\ Possible(cmd.kind, cmd.oids, cmd.uses, cmd.comm)
      /\ active' = active /\ live' = live /\ home' = home /\ deleted' = deleted
      /\ values' = values /\ listens' = listens /\ cache' = cache /\ loop' = loop
      /\ IF deleted = {} THEN ctl' = "send" /\ chan' = chan /\ sent' = sent
                        ELSE ctl' = "reset" /\ Broadcast(del)
  BY DEF Start, workers
<1>2. Types
  BY DEF IInv
<1>3. Started'
  <2>1. Usable' = Usable
    BY <1>1 DEF Usable
  <2>2. /\ cmd.kind # "delete" /\ cmd.uses \subseteq Usable
        /\ cmd.kind = "create" => \E o \in Oid \ (live \cup deleted) : cmd.oids = {o}
        /\ cmd.kind = "activate" => active = Worker
    <3>1. cmd.kind \in Kinds
      BY DEF Command
    <3> QED BY <1>1, <3>1 DEF Possible, Kinds
  <2> QED BY <1>1, <2>1, <2>2 DEF Started
<1>4. \A w \in Worker : values[w] = <<>> /\ \A m \in Pending(w) : m.cmd.kind # "invoke"
  BY <1>1 DEF IInv, Answers
<1>5. CASE deleted = {}
  <2>1. chan' = chan /\ sent' = sent /\ ctl' = "send"
    BY <1>1, <1>5
  <2>2. Types'
    BY <1>1, <1>2, <2>1 DEF Types
  <2>3. Numbered' /\ Chained'
    BY <1>1, <2>1, SameChains
  <2>4. Answers'
    BY <1>1, <1>4, <2>1, SameMessages DEF Answers
  <2>5. ASSUME Careful PROVE (NoInternalError /\ Fits /\ Caches /\ DeletedReachAll)'
    <3>1. NoInternalError' /\ DeletedReachAll'
      BY <1>1, <1>5, <2>5 DEF IInv, NoInternalError, DeletedReachAll
    <3>2. Fits'
      BY <1>1, <2>1, <2>5, SameMessages DEF IInv, Fits
    <3>3. Caches'
      BY <1>1, <1>5, <2>1, <2>5, SameMessages DEF IInv, Caches
    <3> QED BY <3>1, <3>2, <3>3
  <2> QED BY <1>3, <2>2, <2>3, <2>4, <2>5 DEF IInv
<1>6. CASE deleted # {}
  <2>1. Broadcast(del) /\ sent' = sent + 1 /\ ctl' = "reset"
    BY <1>1, <1>6 DEF Broadcast
  <2>2. /\ del \in Command /\ del.kind = "delete" /\ del.oids = deleted /\ del.uses = {}
    BY <1>2 DEF Nop, Command, Kinds, Types, Comm
  <2> HIDE DEF del
  <2> DEFINE e == [cmd |-> del, nr |-> sent + 1]
  <2>3. /\ chan' \in [Worker -> [Comm -> Seq(Message)]]
        /\ e.cmd = del /\ e.nr = sent + 1
        /\ \A w \in Worker :
             Pending(w)' = IF w \in active THEN Pending(w) \cup {e} ELSE Pending(w)
        /\ \A w \in Worker : \A m \in Pending(w) : m.nr <= sent /\ m.nr < e.nr /\ m # e
        /\ Numbered'
    BY <2>1, <2>2, Sent
  <2> HIDE DEF e
  <2>4. Types'
    <3>1. values \in [Worker -> Seq(1 .. sent')]
      BY <1>2, <1>4, <2>1 DEF Types
    <3>2. sent' \in Nat
      BY <1>2, <2>1 DEF Types
    <3> QED BY <1>1, <1>2, <2>1, <2>3, <3>1, <3>2 DEF Types
  <2>5. Chained'
    <3>1. \A w \in Worker : Place(w)' = Place(w) /\ (w \in active => Follows(w, active, del) = Place(w))
      BY <1>1, <2>2 DEF Place, Follows
    <3> QED BY <1>1, <2>1, <2>2, <3>1, ChainSent
  <2>6. Answers'
    BY <1>1, <1>4, <2>2, <2>3 DEF Answers
  <2>7. ASSUME Careful PROVE (NoInternalError /\ Fits /\ Caches /\ DeletedReachAll)'
    <3>1. NoInternalError' /\ DeletedReachAll'
      BY <1>1, <2>1, <2>7 DEF IInv, NoInternalError, DeletedReachAll
    <3>2. Fits'
      <4> SUFFICES ASSUME NEW w \in Worker, NEW m \in Pending(w)'
                   PROVE  /\ \A o \in m.cmd.uses : Has(w, m.nr, o)'
                          /\ m.cmd.kind = "create" => \A o \in m.cmd.oids : ~Has(w, m.nr, o)'
        BY DEF Fits
      <4>1. CASE m = e
        BY <2>2, <2>3, <4>1
      <4>2. CASE m \in Pending(w)
        <5>1. m.nr \in Nat /\ m.nr <= sent + 1 /\ m.cmd.uses \subseteq Oid /\ m.cmd.oids \subseteq Oid
          BY <1>2, <2>3, <4>2, PendingIs DEF Types, Command
        <5>2. \A o \in Oid : Has(w, m.nr, o)' <=> Has(w, m.nr, o)
          BY <1>1, <2>1, <2>2, <5>1, HasSent
        <5> QED BY <2>7, <4>2, <5>1, <5>2 DEF IInv, Fits
      <4> QED BY <2>3, <4>1, <4>2
    <3>3. Caches'
      <4> SUFFICES ASSUME NEW w \in Worker, NEW o \in Oid
                   PROVE  Has(w, sent + 1, o)' <=> o \in live /\ w \in home[o]
        BY <1>1, <2>1 DEF Caches
      <4>1. w \in active
        BY <1>6, <2>7 DEF IInv, DeletedReachAll
      <4>2. Has(w, sent + 1, o)' <=> IF o \in deleted THEN FALSE ELSE Has(w, sent + 1, o)
        BY <1>1, <2>1, <2>2, <4>1, HasSent
      <4>3. Has(w, sent + 1, o) <=> o \in live \cup deleted /\ w \in home[o]
        BY <1>1, <2>7 DEF IInv, Caches
      <4>4. live \cap deleted = {}
        BY <1>2 DEF Types
      <4> QED BY <4>2, <4>3, <4>4
    <3> QED BY <3>1, <3>2, <3>3
  <2> QED BY <1>3, <2>3, <2>4, <2>5, <2>6, <2>7 DEF IInv
<1> QED
  BY <1>5, <1>6

\* __delete() forgets the ids it has sent.
LEMMA ResetStep ==
  ASSUME IInv, Reset
  PROVE  IInv'
<1>1. /\ ctl = "reset" /\ ctl' = "send" /\ deleted' = {}
      /\ cur' = cur /\ active' = active /\ live' = live /\ home' = home /\ sent' = sent
      /\ chan' = chan /\ values' = values /\ listens' = listens /\ cache' = cache /\ loop' = loop
  BY DEF Reset, workers
<1>2. Types'
  BY <1>1 DEF IInv, Types
<1>3. Numbered' /\ Chained'
  BY <1>1, SameChains
<1>4. Started'
  <2>1. Usable' = Usable
    BY <1>1 DEF Usable
  <2> QED BY <1>1, <2>1 DEF IInv, Started
<1>5. Answers'
  BY <1>1, SameMessages DEF IInv, Answers
<1>6. ASSUME Careful PROVE (NoInternalError /\ Fits /\ Caches /\ DeletedReachAll)'
  <2>1. NoInternalError' /\ DeletedReachAll'
    BY <1>1, <1>6 DEF IInv, NoInternalError, DeletedReachAll
  <2>2. Fits'
    BY <1>1, <1>6, SameMessages DEF IInv, Fits
  <2>3. Caches'
    BY <1>1, <1>6, SameMessages DEF IInv, Caches
  <2> QED BY <2>1, <2>2, <2>3
<1> QED
  BY <1>2, <1>3, <1>4, <1>5, <1>6 DEF IInv

\* The command is broadcast, and the controller goes where the workers that
\* take it will go.
LEMMA SendStep ==
  ASSUME IInv, Send
  PROVE  IInv'
<1>1. /\ ctl = "send" /\ Broadcast(cur) /\ sent' = sent + 1
      /\ active' = CASE cur.kind = "activate" -> cur.comm
                     [] cur.kind = "deactivate" -> Worker
                     [] OTHER -> active
      /\ ctl' = CASE cur.kind = "invoke" -> "gather"
                  [] cur.kind = "stop" -> "stopped"
                  [] OTHER -> "script"
      /\ live' = live \cup (IF cur.kind = "create" THEN cur.oids ELSE {})
      /\ home' = [o \in Oid |-> IF cur.kind = "create" /\ o \in cur.oids THEN active ELSE home[o]]
      /\ cur' = IF cur.kind = "invoke" THEN cur ELSE Nop
      /\ deleted' = deleted /\ values' = values
      /\ listens' = listens /\ cache' = cache /\ loop' = loop
  BY DEF Send, workers, Broadcast
<1>2. /\ Types /\ cur \in Command /\ active \in Comm /\ cur.oids \subseteq Oid /\ cur.comm \in Comm
      /\ cur.uses \subseteq Oid /\ sent \in Nat
  BY DEF IInv, Types, Command
<1>3. /\ cur.kind # "delete" /\ cur.uses \subseteq Usable
      /\ cur.kind = "create" => cur.oids \cap (live \cup deleted) = {}
      /\ cur.kind = "activate" => active = Worker
  BY <1>1 DEF IInv, Started
<1>4. \A w \in Worker : values[w] = <<>> /\ \A m \in Pending(w) : m.cmd.kind # "invoke"
  BY <1>1 DEF IInv, Answers
<1> DEFINE e == [cmd |-> cur, nr |-> sent + 1]
<1>5. e = [cmd |-> cur, nr |-> sent + 1]
  OBVIOUS
<1> HIDE DEF e
<1>6. /\ chan' \in [Worker -> [Comm -> Seq(Message)]]
      /\ e.cmd = cur /\ e.nr = sent + 1
      /\ \A w \in Worker :
           Pending(w)' = IF w \in active THEN Pending(w) \cup {e} ELSE Pending(w)
      /\ \A w \in Worker : \A m \in Pending(w) : m.nr <= sent /\ m.nr < e.nr /\ m # e
      /\ Numbered'
  BY <1>1, <1>2, <1>5, Sent
<1>7. Types'
  <2>1. values \in [Worker -> Seq(1 .. sent')]
    BY <1>2, <1>4 DEF Types
  <2>2. active' \in Comm /\ cur' \in Command
    BY <1>1, <1>2 DEF Comm, Nop, Command, Kinds
  <2>3. home' \in [Oid -> SUBSET Worker]
    BY <1>1, <1>2, CommsAreWorkers DEF Types
  <2>4. live' \subseteq Oid /\ live' \cap deleted' = {}
    BY <1>1, <1>2, <1>3 DEF Types
  <2>5. ctl' \in {"script", "reset", "send", "gather", "stopped"} /\ sent' \in Nat
    BY <1>1, <1>2
  <2> QED BY <1>1, <1>2, <1>6, <2>1, <2>2, <2>3, <2>4, <2>5 DEF Types, Comm, Message, Command
<1>8. Started'
  <2>1. ctl' = IF cur.kind = "invoke" THEN "gather" ELSE IF cur.kind = "stop" THEN "stopped" ELSE "script"
    BY <1>1
  <2> QED BY <1>1, <2>1 DEF Started
<1>9. Chained'
  <2>1. ASSUME NEW w \in Worker
        PROVE  IF w \in active THEN Follows(w, active, cur) = Place(w)' ELSE Place(w)' = Place(w)
    <3>1. CASE cur.kind = "activate"
      BY <1>1, <1>3, <3>1 DEF Place, Follows
    <3>2. CASE cur.kind = "deactivate"
      BY <1>1, <3>2 DEF Place, Follows
    <3>3. CASE cur.kind \notin {"activate", "deactivate"}
      BY <1>1, <3>3 DEF Place, Follows
    <3> QED BY <3>1, <3>2, <3>3
  <2> QED BY <1>1, <1>2, <2>1, ChainSent
<1>10. Answers'
  <2> SUFFICES ASSUME NEW w \in Worker, NEW m \in Pending(w)', m.cmd.kind = "invoke"
               PROVE  ctl' = "gather" /\ w \in active' /\ m.nr = sent'
    BY <1>1, <1>4 DEF Answers
  <2>1. m = e /\ w \in active /\ cur.kind = "invoke"
    BY <1>4, <1>6
  <2> QED BY <1>1, <1>6, <2>1
<1>11. ASSUME Careful PROVE (NoInternalError /\ Fits /\ Caches /\ DeletedReachAll)'
  <2>1. NoInternalError'
    BY <1>1, <1>11 DEF IInv, NoInternalError
  <2>2. DeletedReachAll'
    <3> SUFFICES ASSUME deleted # {} PROVE active' = Worker /\ ctl' # "send"
      BY <1>1 DEF DeletedReachAll
    <3>1. active = Worker /\ cur.kind # "activate"
      BY <1>1, <1>11 DEF IInv, DeletedReachAll
    <3> QED BY <1>1, <3>1
  <2>3. \A w \in Worker, o \in Oid :
          Has(w, sent + 1, o) <=> o \in live \cup deleted /\ w \in home[o]
    BY <1>1, <1>11 DEF IInv, Caches
  <2>4. Fits'
    <3> SUFFICES ASSUME NEW w \in Worker, NEW m \in Pending(w)'
                 PROVE  /\ \A o \in m.cmd.uses : Has(w, m.nr, o)'
                        /\ m.cmd.kind = "create" => \A o \in m.cmd.oids : ~Has(w, m.nr, o)'
      BY DEF Fits
    <3>1. CASE m = e /\ w \in active
      <4>0. m.nr \in Nat /\ m.nr <= sent + 1
        BY <1>2, <1>6, <3>1
      <4>1. \A o \in Oid : Has(w, m.nr, o)' <=> Has(w, m.nr, o)
        BY <1>1, <1>2, <4>0, HasSent
      <4>2. \A o \in cur.uses : o \in live /\ w \in home[o]
        BY <1>3, <3>1 DEF Usable
      <4>3. \A o \in Oid : Has(w, m.nr, o) <=> o \in live \cup deleted /\ w \in home[o]
        BY <1>6, <2>3, <3>1
      <4> QED BY <1>2, <1>3, <1>6, <3>1, <4>1, <4>2, <4>3
    <3>2. CASE m \in Pending(w)
      <4>1. m.nr \in Nat /\ m.nr <= sent + 1 /\ m.cmd.uses \subseteq Oid /\ m.cmd.oids \subseteq Oid
        BY <1>2, <1>6, <3>2, PendingIs DEF Command
      <4>2. \A o \in Oid : Has(w, m.nr, o)' <=> Has(w, m.nr, o)
        BY <1>1, <1>2, <4>1, HasSent
      <4> QED BY <1>11, <3>2, <4>1, <4>2 DEF IInv, Fits
    <3> QED BY <1>6, <3>1, <3>2
  <2>5. Caches'
    <3> SUFFICES ASSUME NEW w \in Worker, NEW o \in Oid
                 PROVE  Has(w, sent + 1, o)' <=> o \in live' \cup deleted /\ w \in home'[o]
      <4>1. ctl' # "reset"
        BY <1>1
      <4> QED BY <1>1, <4>1 DEF Caches
    <3>1. Has(w, sent + 1, o)' <=>
            IF w \in active /\ cur.kind \in {"create", "delete"} /\ o \in cur.oids
            THEN cur.kind = "create" ELSE Has(w, sent + 1, o)
      BY <1>1, <1>2, HasSent
    <3>2. CASE cur.kind = "create" /\ o \in cur.oids
      <4>1. o \in live' /\ home'[o] = active /\ o \notin live \cup deleted
        BY <1>1, <1>3, <3>2
      <4>2. ~Has(w, sent + 1, o)
        BY <2>3, <4>1
      <4> QED BY <3>1, <3>2, <4>1, <4>2
    <3>3. CASE ~(cur.kind = "create" /\ o \in cur.oids)
      <4>1. (o \in live' <=> o \in live) /\ home'[o] = home[o]
        BY <1>1, <3>3
      <4> QED BY <1>3, <2>3, <3>1, <3>3, <4>1
    <3> QED BY <3>2, <3>3
  <2> QED BY <2>1, <2>2, <2>4, <2>5
<1> QED
  BY <1>6, <1>7, <1>8, <1>9, <1>10, <1>11 DEF IInv

\* The values of all workers of the group are there, and no other will come.
LEMMA GatherStep ==
  ASSUME IInv, Gather
  PROVE  IInv'
<1>1. /\ ctl = "gather" /\ ctl' = "script" /\ cur' = Nop
      /\ \A w \in active : values[w] # <<>>
      /\ values' = [w \in Worker |-> IF w \in active THEN Tail(values[w]) ELSE values[w]]
      /\ active' = active /\ live' = live /\ home' = home /\ deleted' = deleted /\ sent' = sent
      /\ chan' = chan /\ listens' = listens /\ cache' = cache /\ loop' = loop
  BY DEF Gather, workers
<1>2. \A w \in Worker : values'[w] = <<>> /\ \A m \in Pending(w) : m.cmd.kind # "invoke"
  <2> TAKE w \in Worker
  <2>1. CASE w \in active
    <3>1. values[w] = <<sent>> /\ \A m \in Pending(w) : m.cmd.kind # "invoke"
      BY <1>1, <2>1 DEF IInv, Answers
    <3>2. Tail(<<sent>>) = <<>>
      OBVIOUS
    <3> QED BY <1>1, <2>1, <3>1, <3>2
  <2>2. CASE w \notin active
    BY <1>1, <2>2 DEF IInv, Answers
  <2> QED BY <2>1, <2>2
<1>3. Types'
  <2>1. Nop \in Command
    BY DEF Nop, Command, Kinds, Comm
  <2>2. values' \in [Worker -> Seq(1 .. sent')]
    <3>1. <<>> \in Seq(1 .. sent')
      OBVIOUS
    <3>2. DOMAIN values' = Worker
      BY <1>1
    <3> QED BY <1>1, <1>2, <3>1, <3>2
  <2> QED BY <1>1, <2>1, <2>2 DEF IInv, Types
<1>4. Numbered' /\ Chained'
  BY <1>1, SameChains
<1>5. Started'
  BY <1>1 DEF Started, Nop
<1>6. Answers'
  BY <1>1, <1>2, SameMessages DEF Answers
<1>7. ASSUME Careful PROVE (NoInternalError /\ Fits /\ Caches /\ DeletedReachAll)'
  <2>1. NoInternalError' /\ DeletedReachAll'
    BY <1>1, <1>7 DEF IInv, NoInternalError, DeletedReachAll
  <2>2. Fits'
    BY <1>1, <1>7, SameMessages DEF IInv, Fits
  <2>3. Caches'
    BY <1>1, <1>7, SameMessages DEF IInv, Caches
  <2> QED BY <2>1, <2>2, <2>3
<1> QED
  BY <1>3, <1>4, <1>5, <1>6, <1>7 DEF IInv

\* __Destroyer notes the id of an object no started command uses.
LEMMA CollectStep ==
  ASSUME IInv, NEW o \in Oid, Collect(o)
  PROVE  IInv'
<1>1. /\ o \in live \ cur.uses
      /\ Careful => ctl # "reset" /\ active = Worker /\ cur.kind # "activate"
      /\ live' = live \ {o} /\ deleted' = deleted \cup {o}
      /\ ctl' = ctl /\ cur' = cur /\ active' = active /\ home' = home /\ sent' = sent
      /\ chan' = chan /\ values' = values /\ listens' = listens /\ cache' = cache /\ loop' = loop
  BY DEF Collect, workers
<1>2. live' \cup deleted' = live \cup deleted
  BY <1>1
<1>3. Types'
  BY <1>1 DEF IInv, Types
<1>4. Numbered' /\ Chained'
  BY <1>1, SameChains
<1>5. Started'
  <2>1. cur.uses \subseteq Usable => cur.uses \subseteq Usable'
    BY <1>1 DEF Usable
  <2> QED BY <1>1, <1>2, <2>1 DEF IInv, Started, Nop
<1>6. Answers'
  BY <1>1, SameMessages DEF IInv, Answers
<1>7. ASSUME Careful PROVE (NoInternalError /\ Fits /\ Caches /\ DeletedReachAll)'
  <2>1. NoInternalError' /\ DeletedReachAll'
    BY <1>1, <1>7 DEF IInv, NoInternalError, DeletedReachAll
  <2>2. Fits'
    BY <1>1, <1>7, SameMessages DEF IInv, Fits
  <2>3. Caches'
    BY <1>1, <1>2, <1>7, SameMessages DEF IInv, Caches
  <2> QED BY <2>1, <2>2, <2>3
<1> QED
  BY <1>3, <1>4, <1>5, <1>6, <1>7 DEF IInv

\* A worker carries out a command: the objects are there that the script
\* meant when it gave the command.
LEMMA ReceiveStep ==
  ASSUME IInv, NEW w \in Worker, Receive(w)
  PROVE  IInv'
<1> DEFINE h == Head(chan[w][listens[w]])
<1>1. h = Head(chan[w][listens[w]])
  OBVIOUS
<1>2. /\ loop[w] = "in"
      /\ IF Fails(w, h.cmd)
         THEN /\ loop' = [loop EXCEPT ![w] = "error"]
              /\ listens' = listens /\ cache' = cache /\ values' = values
         ELSE /\ loop' = [loop EXCEPT ![w] = IF h.cmd.kind = "stop" THEN "left" ELSE @]
              /\ listens' = [listens EXCEPT ![w] = ListensAfter(w, h.cmd)]
              /\ cache' = [cache EXCEPT ![w] = CacheAfter(w, h.cmd)]
              /\ values' = [values EXCEPT ![w] = ValuesAfter(w, h)]
      /\ ctl' = ctl /\ cur' = cur /\ active' = active /\ live' = live /\ home' = home
      /\ deleted' = deleted /\ sent' = sent
  BY DEF Receive, script
<1>3. /\ chan' \in [Worker -> [Comm -> Seq(Message)]]
      /\ h \in Message /\ h \in Pending(w)
      /\ Pending(w)' = Pending(w) \ {h}
      /\ \A m \in Pending(w)' : h.nr < m.nr
      /\ \A v \in Worker \ {w} : Pending(v)' = Pending(v)
      /\ Numbered'
  BY <1>1, Taken
<1> HIDE DEF h
<1>4. Types /\ h.cmd \in Command /\ h.nr \in Nat /\ h.nr <= sent /\ sent \in Nat
  <2>1. Types /\ sent \in Nat
    BY DEF IInv, Types
  <2>2. h.cmd \in Command /\ h.nr \in Nat /\ \E c \in Comm : h \in At(w, c)
    BY <1>3, <2>1, PendingIs
  <2> QED BY <2>1, <2>2 DEF IInv, Numbered
<1>5. ASSUME ~Fails(w, h.cmd), h.cmd.kind = "invoke"
      PROVE  /\ values[w] = <<>> /\ values'[w] = <<sent>> /\ ctl = "gather" /\ w \in active
             /\ \A m \in Pending(w)' : m.cmd.kind # "invoke"
  <2>1. ctl = "gather" /\ w \in active /\ h.nr = sent /\ values[w] = <<>>
    BY <1>3, <1>5 DEF IInv, Answers
  <2>2. values'[w] = <<sent>>
    BY <1>2, <1>4, <1>5, <2>1 DEF ValuesAfter, Types
  <2>3. ASSUME NEW m \in Pending(w)', m.cmd.kind = "invoke" PROVE FALSE
    <3>1. m.nr = sent /\ h.nr < m.nr
      BY <1>3, <2>3 DEF IInv, Answers
    <3> QED BY <1>4, <2>1, <3>1
  <2> QED BY <2>1, <2>2, <2>3
<1>6. Types'
  <2>1. listens' \in [Worker -> Comm] /\ \A v \in Worker : v \in listens'[v]
    <3>1. h.cmd.comm \in Comm
      BY <1>4 DEF Command
    <3>2. ListensAfter(w, h.cmd) \in Comm /\ w \in ListensAfter(w, h.cmd)
      BY <1>4, <3>1 DEF ListensAfter, Types, Comm
    <3>3. listens \in [Worker -> Comm] /\ \A v \in Worker : v \in listens[v]
      BY <1>4 DEF Types
    <3>4. CASE Fails(w, h.cmd)
      BY <1>2, <3>3, <3>4
    <3>5. CASE ~Fails(w, h.cmd)
      BY <1>2, <3>2, <3>3, <3>5
    <3> QED BY <3>4, <3>5
  <2>2. cache' \in [Worker -> SUBSET Oid]
    <3>1. h.cmd.oids \subseteq Oid
      BY <1>4 DEF Command
    <3>2. CacheAfter(w, h.cmd) \subseteq Oid
      BY <1>4, <3>1 DEF CacheAfter, Types
    <3> QED BY <1>2, <1>4, <3>2 DEF Types
  <2>3. values' \in [Worker -> Seq(1 .. sent)]
    <3>1. CASE ~Fails(w, h.cmd) /\ h.cmd.kind = "invoke"
      <4>1. h.nr \in 1 .. sent
        BY <1>3, <1>4 DEF Message
      <4>2. ValuesAfter(w, h) \in Seq(1 .. sent)
        BY <1>4, <3>1, <4>1 DEF ValuesAfter, Types
      <4> QED BY <1>2, <1>4, <3>1, <4>2 DEF Types
    <3>2. CASE ~(~Fails(w, h.cmd) /\ h.cmd.kind = "invoke")
      <4>1. values' = values
        BY <1>2, <1>4, <3>2 DEF ValuesAfter, Types
      <4> QED BY <1>4, <4>1 DEF Types
    <3> QED BY <3>1, <3>2
  <2>4. loop' \in [Worker -> {"in", "left", "error"}]
    BY <1>2, <1>4 DEF Types
  <2> QED BY <1>2, <1>3, <1>4, <2>1, <2>2, <2>3, <2>4 DEF Types, Comm, Message, Command
<1>7. Started'
  BY <1>2 DEF IInv, Started, Usable
<1>8. Chained'
  BY ChainTaken
<1>9. Answers'
  <2> SUFFICES ASSUME NEW v \in Worker
               PROVE  /\ \A m \in Pending(v)' : m.cmd.kind = "invoke" =>
                           ctl = "gather" /\ v \in active /\ m.nr = sent
                      /\ values'[v] # <<>> =>
                           /\ ctl = "gather" /\ v \in active /\ values'[v] = <<sent>>
                           /\ \A m \in Pending(v)' : m.cmd.kind # "invoke"
    BY <1>2 DEF Answers
  <2>1. Pending(v)' \subseteq Pending(v)
    BY <1>3
  <2>2. CASE v = w /\ ~Fails(w, h.cmd) /\ h.cmd.kind = "invoke"
    BY <1>5, <2>1, <2>2 DEF IInv, Answers
  <2>3. CASE ~(v = w /\ ~Fails(w, h.cmd) /\ h.cmd.kind = "invoke")
    <3>1. values'[v] = values[v]
      BY <1>2, <1>4, <2>3 DEF ValuesAfter, Types
    <3> QED BY <2>1, <3>1 DEF IInv, Answers
  <2> QED BY <2>2, <2>3
<1>10. ASSUME Careful PROVE (NoInternalError /\ Fits /\ Caches /\ DeletedReachAll)'
  <2>1. ~Fails(w, h.cmd)
    <3>1. h.cmd.uses \subseteq Oid /\ h.cmd.oids \subseteq Oid
      BY <1>4 DEF Command
    <3>2. \A m \in Pending(w) : ~(m.nr < h.nr)
      BY <1>3, <1>4, PendingIs
    <3>3. \A o \in Oid : Has(w, h.nr, o) <=> o \in cache[w]
      BY <3>2 DEF Has, Changes
    <3>4. /\ \A o \in h.cmd.uses : Has(w, h.nr, o)
          /\ h.cmd.kind = "create" => \A o \in h.cmd.oids : ~Has(w, h.nr, o)
      BY <1>3, <1>10 DEF IInv, Fits
    <3> QED BY <3>1, <3>3, <3>4 DEF Fails
  <2>2. \A n \in Nat, o \in Oid : h.nr < n => (Has(w, n, o)' <=> Has(w, n, o))
    BY <1>1, <2>1, HasTaken
  <2>3. ASSUME NEW v \in Worker \ {w}, NEW n, NEW o PROVE Has(v, n, o)' <=> Has(v, n, o)
    <3>1. Changes(v, n, o)' = Changes(v, n, o)
      BY <1>3 DEF Changes
    <3>2. cache'[v] = cache[v]
      BY <1>2, <1>4 DEF Types
    <3> QED BY <3>1, <3>2 DEF Has
  <2>4. NoInternalError'
    BY <1>2, <1>4, <1>10, <2>1 DEF IInv, NoInternalError, Types
  <2>5. DeletedReachAll'
    BY <1>2, <1>10 DEF IInv, DeletedReachAll
  <2>6. Fits'
    <3> SUFFICES ASSUME NEW v \in Worker, NEW m \in Pending(v)'
                 PROVE  /\ \A o \in m.cmd.uses : Has(v, m.nr, o)'
                        /\ m.cmd.kind = "create" => \A o \in m.cmd.oids : ~Has(v, m.nr, o)'
      BY DEF Fits
    <3>1. m \in Pending(v)
      BY <1>3
    <3>2. m.nr \in Nat /\ m.cmd.uses \subseteq Oid /\ m.cmd.oids \subseteq Oid
      BY <1>4, <3>1, PendingIs DEF Command
    <3>3. \A o \in Oid : Has(v, m.nr, o)' <=> Has(v, m.nr, o)
      BY <1>3, <2>2, <2>3, <3>2
    <3> QED BY <1>10, <3>1, <3>2, <3>3 DEF IInv, Fits
  <2>7. Caches'
    <3>1. \A v \in Worker, o \in Oid : Has(v, sent + 1, o)' <=> Has(v, sent + 1, o)
      <4> SUFFICES ASSUME NEW v \in Worker, NEW o \in Oid, NEW n, n = sent + 1
                   PROVE  Has(v, n, o)' <=> Has(v, n, o)
        BY <1>2 DEF Has, Changes
      <4>1. n \in Nat /\ h.nr < n
        BY <1>4
      <4> QED BY <2>2, <2>3, <4>1
    <3> QED BY <1>2, <1>10, <3>1 DEF IInv, Caches
  <2> QED BY <2>4, <2>5, <2>6, <2>7
<1> QED
  BY <1>3, <1>6, <1>7, <1>8, <1>9, <1>10 DEF IInv

\* Every step of the controller and of a worker keeps the invariant.
LEMMA StepIInv == IInv /\ [Next]_vars => IInv'
<1> SUFFICES ASSUME IInv, [Next]_vars PROVE IInv'
  OBVIOUS
<1>1. CASE UNCHANGED vars
  <2>1. /\ ctl' = ctl /\ cur' = cur /\ active' = active /\ live' = live /\ home' = home
        /\ deleted' = deleted /\ sent' = sent /\ chan' = chan /\ values' = values
        /\ listens' = listens /\ cache' = cache /\ loop' = loop
    BY <1>1 DEF vars, script, workers
  <2>2. Types' /\ Started'
    BY <2>1 DEF IInv, Types, Started, Usable
  <2>3. Numbered' /\ Chained'
    BY <2>1, SameChains
  <2>4. Answers'
    BY <2>1, SameMessages DEF IInv, Answers
  <2>5. ASSUME Careful PROVE (NoInternalError /\ Fits /\ Caches /\ DeletedReachAll)'
    <3>1. NoInternalError' /\ DeletedReachAll'
      BY <2>1, <2>5 DEF IInv, NoInternalError, DeletedReachAll
    <3>2. Fits'
      BY <2>1, <2>5, SameMessages DEF IInv, Fits
    <3>3. Caches'
      BY <2>1, <2>5, SameMessages DEF IInv, Caches
    <3> QED BY <3>1, <3>2, <3>3
  <2> QED BY <2>2, <2>3, <2>4, <2>5 DEF IInv
<1>2. CASE Next
  BY <1>2, StartStep, ResetStep, SendStep, GatherStep, CollectStep, ReceiveStep
     DEF Next, Controller
<1> QED
  BY <1>1, <1>2

\* The invariant: commands, caches and communicators fit together in every
\* state of the controller and the workers.
THEOREM Invariant == Spec => []IInv
  BY InitIInv, StepIInv, PTL DEF Spec

-----------------------------------------------------------------------------
(* What follows.                                                           *)

\* The variables of the controller and the workers have their types.
THEOREM Typing == Spec => []TypeOK
<1>1. IInv => TypeOK
  <2> SUFFICES ASSUME IInv PROVE TypeOK
    OBVIOUS
  <2>1. ASSUME NEW w \in Worker, NEW c \in Comm, NEW i \in DOMAIN chan[w][c]
        PROVE  chan[w][c][i].cmd \in Command /\ chan[w][c][i].nr \in 1 .. sent
    <3>1. chan[w][c][i] \in At(w, c)
      BY DEF At, Range
    <3>2. chan[w][c][i] \in Message /\ chan[w][c][i].nr <= sent
      BY <3>1, PendingIs DEF IInv, Numbered
    <3> QED BY <3>2 DEF Message, IInv, Types
  <2> QED BY <2>1 DEF TypeOK, IInv, Types
<1> QED
  BY <1>1, Invariant, PTL

\* Workers carry out commands in the order of the script, whichever groups it
\* activates and however many messages are on their way: receive() waits in
\* the communicator of the oldest message.  No care of the script is needed.
THEOREM InOrder == Spec => []ListensWhereNextIs
<1>1. IInv => ListensWhereNextIs
  BY Oldest DEF ListensWhereNextIs
<1> QED
  BY <1>1, Invariant, PTL

\* invoke() and reduce() combine values of one command only, for every
\* script.
THEOREM OneCommandsValues == Spec => []ValuesBelongTogether
<1>1. IInv => ValuesBelongTogether
  <2> SUFFICES ASSUME IInv, ctl = "gather", NEW w \in active, values[w] # <<>>
               PROVE  Head(values[w]) = sent
    BY DEF ValuesBelongTogether
  <2>1. w \in Worker
    BY CommsAreWorkers DEF IInv, Types
  <2>2. values[w] = <<sent>>
    BY <2>1 DEF IInv, Answers
  <2> QED BY <2>2
<1> QED
  BY <1>1, Invariant, PTL

\* If a script ends groups before it drops objects, no worker ever lacks an
\* object a command uses or has one a command creates, although ids are used
\* again: _backtranslateOID() and __workerCreate() never raise.
THEOREM NeverInternalError ==
  ASSUME Careful
  PROVE  Spec => []NoInternalError
<1>1. IInv => NoInternalError
  BY DEF IInv
<1> QED
  BY <1>1, Invariant, PTL

\* Under the same care the caches hold, once all messages are taken, the
\* objects of the script and those not yet deleted, and nothing else.
THEOREM CachesAgree ==
  ASSUME Careful
  PROVE  Spec => []CachesFollowScript
<1>1. IInv => CachesFollowScript
  <2> SUFFICES ASSUME IInv PROVE CachesFollowScript
    OBVIOUS
  <2> SUFFICES ASSUME NEW w \in Worker, NEW o \in Oid
               PROVE  o \in CacheToBe(w) <=>
                        o \in live \cup (IF ctl = "reset" THEN {} ELSE deleted) /\ w \in home[o]
    <3>1. \A v \in Worker : CacheToBe(v) \subseteq Oid
      BY DEF CacheToBe
    <3>2. live \subseteq Oid /\ deleted \subseteq Oid
      BY DEF IInv, Types
    <3> QED BY <3>1, <3>2 DEF CachesFollowScript
  <2>1. \A m \in Pending(w) : m.nr < sent + 1
    <3> TAKE m \in Pending(w)
    <3>1. m.nr \in Nat /\ \E c \in Comm : m \in At(w, c)
      BY PendingIs DEF IInv
    <3> QED BY <3>1 DEF IInv, Numbered, Types
  <2>2. Changes(w, sent + 1, o)
          = {m \in Pending(w) : m.cmd.kind \in {"create", "delete"} /\ o \in m.cmd.oids}
    BY <2>1 DEF Changes
  <2>3. o \in CacheToBe(w) <=> Has(w, sent + 1, o)
    BY <2>2 DEF CacheToBe, Has
  <2> QED BY <2>3 DEF IInv, Caches
<1> QED
  BY <1>1, Invariant, PTL

=============================================================================
