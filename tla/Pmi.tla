--------------------------------- MODULE Pmi --------------------------------
(***************************************************************************)
(* pmi.py: a script runs on the controller, and the workers wait for its   *)
(* commands in startWorkerLoop().                                          *)
(*                                                                         *)
(* A command is broadcast on the communicator of all processes or, while a *)
(* group of workers is active, on that of the group; the controller does   *)
(* not wait for it to be carried out, but for the values of invoke() and   *)
(* reduce().  PMI objects live on the controller and in the caches of the  *)
(* workers; when the garbage collector of the controller takes one, its id *)
(* is noted and goes out with a later command.  An id is the address of an *)
(* object and may be used again when nothing refers to it.                 *)
(*                                                                         *)
(* Workers are in the loop all the time: they do not call pmi functions    *)
(* themselves.  A script uses an object on workers that have it.           *)
(***************************************************************************)
EXTENDS Integers, FiniteSets, SequencesExt

CONSTANTS Worker,   \* all processes but the controller
          Groups,   \* workers of the communicators a script has created
          Oid,      \* ids objects may get
          MaxSent,  \* commands are started while fewer messages were sent
          MaxAhead, \* and no more messages than this are on their way to a worker
          Careful   \* whether a script ends groups before it drops objects or
                    \* stops, and no object is collected during a broadcast

ASSUME PmiAssumption ==
  /\ IsFiniteSet(Worker) /\ IsFiniteSet(Oid)
  /\ Groups \subseteq ((SUBSET Worker) \ {Worker})
  /\ MaxSent \in Nat /\ MaxAhead \in Nat /\ Careful \in BOOLEAN

Comm == Groups \cup {Worker}

VARIABLES ctl,      \* what the controller does next
          cur,      \* the command it is at
          active,   \* the communicator it uses: _PMIComm if active
          live,     \* objects of the script
          home,     \* workers an object was created on
          deleted,  \* DELETED_OIDS
          sent,     \* number of messages broadcast so far
          chan,     \* chan[w][c]: messages to w in communicator c
          listens,  \* communicator a worker waits in
          cache,    \* OBJECT_CACHE of a worker
          values,   \* messages whose values a worker has sent back
          loop      \* whether a worker is in the loop

script == <<ctl, cur, active, live, home, deleted, sent>>
workers == <<listens, cache, loop>>
vars == <<script, chan, values, workers>>

Kinds == {"create", "call", "invoke", "sync", "stop", "activate", "deactivate", "delete"}

\* oids: the new object, the objects a command uses or those it deletes
Command == [kind : Kinds, oids : SUBSET Oid, uses : SUBSET Oid, comm : Comm]

\* Queues, caches and phases keep their types.
TypeOK ==
  /\ ctl \in {"script", "reset", "send", "gather", "stopped"}
  /\ cur \in Command /\ active \in Comm
  /\ live \subseteq Oid /\ deleted \subseteq Oid /\ live \cap deleted = {}
  /\ home \in [Oid -> SUBSET Worker]
  /\ sent \in Nat
  /\ \A w \in Worker, c \in Comm : \A i \in DOMAIN chan[w][c] :
       chan[w][c][i].cmd \in Command /\ chan[w][c][i].nr \in 1 .. sent
  /\ listens \in [Worker -> Comm] /\ \A w \in Worker : w \in listens[w]
  /\ cache \in [Worker -> SUBSET Oid]
  /\ \A w \in Worker : values[w] \in Seq(1 .. sent)
  /\ loop \in [Worker -> {"in", "left", "error"}]

Nop == [kind |-> "sync", oids |-> {}, uses |-> {}, comm |-> Worker]

Init ==
  /\ ctl = "script" /\ cur = Nop /\ active = Worker
  /\ live = {} /\ deleted = {} /\ home = [o \in Oid |-> {}]
  /\ sent = 0
  /\ chan = [w \in Worker |-> [c \in Comm |-> <<>>]]
  /\ listens = [w \in Worker |-> Worker]
  /\ cache = [w \in Worker |-> {}]
  /\ values = [w \in Worker |-> <<>>]
  /\ loop = [w \in Worker |-> "in"]

-----------------------------------------------------------------------------
(* The controller.                                                         *)

\* _MPIBroadcast()
Broadcast(cmd) ==
  /\ chan' = [w \in Worker |->
                IF w \in active
                THEN [chan[w] EXCEPT ![active] = Append(@, [cmd |-> cmd, nr |-> sent + 1])]
                ELSE chan[w]]
  /\ sent' = sent + 1

\* objects of the script that all workers have the command goes to
Usable == {o \in live : active \subseteq home[o]}

\* commands a script may give now; a new id is none an object refers to
Possible(kind, oids, uses, comm) ==
  CASE kind = "create"     -> /\ \E o \in Oid \ (live \cup deleted) : oids = {o}
                              /\ uses \subseteq Usable /\ comm = active
    [] kind \in {"call", "invoke"} -> oids = {} /\ uses \subseteq Usable /\ comm = active
    [] kind = "sync"       -> oids = {} /\ uses = {} /\ comm = active
    [] kind = "stop"       -> oids = {} /\ uses = {} /\ comm = active /\ (Careful => active = Worker)
    [] kind = "activate"   -> oids = {} /\ uses = {} /\ comm \in Groups /\ active = Worker
    [] kind = "deactivate" -> oids = {} /\ uses = {} /\ comm = active /\ active # Worker
    [] kind = "delete"     -> FALSE

\* A command of the script up to __delete(): ids that were noted are sent.
Start(cmd) ==
  /\ ctl = "script" /\ sent < MaxSent
  /\ \A w \in Worker : Cardinality(UNION {Range(chan[w][c]) : c \in Comm}) <= MaxAhead
  /\ Possible(cmd.kind, cmd.oids, cmd.uses, cmd.comm)
  /\ cur' = cmd
  /\ IF deleted = {}
     THEN ctl' = "send" /\ UNCHANGED <<chan, sent>>
     ELSE ctl' = "reset" /\ Broadcast([Nop EXCEPT !.kind = "delete", !.oids = deleted])
  /\ UNCHANGED <<active, live, home, deleted, values, workers>>

\* variant: ids are sent again with the next command
ResetLater ==
  /\ ctl = "reset" /\ ctl' = "send"
  /\ UNCHANGED <<cur, active, live, home, deleted, sent, chan, values, workers>>

\* __delete() after its broadcast: the list is replaced by an empty one
Reset ==
  /\ ctl = "reset"
  /\ deleted' = {}
  /\ ctl' = "send"
  /\ UNCHANGED <<cur, active, live, home, sent, chan, values, workers>>

\* The command itself is broadcast and carried out on the controller.
Send ==
  /\ ctl = "send"
  /\ Broadcast(cur)
  /\ active' = CASE cur.kind = "activate" -> cur.comm
                 [] cur.kind = "deactivate" -> Worker
                 [] OTHER -> active
  /\ ctl' = CASE cur.kind = "invoke" -> "gather"
              [] cur.kind = "stop" -> "stopped"
              [] OTHER -> "script"
  /\ live' = live \cup (IF cur.kind = "create" THEN cur.oids ELSE {})
  /\ home' = [o \in Oid |-> IF cur.kind = "create" /\ o \in cur.oids THEN active ELSE home[o]]
  /\ cur' = IF cur.kind = "invoke" THEN cur ELSE Nop
  /\ UNCHANGED <<deleted, values, workers>>

\* _MPIGather() and _MPIReduce(): the controller waits for all of the group
Gather ==
  /\ ctl = "gather" /\ \A w \in active : values[w] # <<>>
  /\ values' = [w \in Worker |-> IF w \in active THEN Tail(values[w]) ELSE values[w]]
  /\ ctl' = "script" /\ cur' = Nop
  /\ UNCHANGED <<active, live, home, deleted, sent, chan, workers>>

\* __Destroyer: an object the script no longer refers to is collected
Collect(o) ==
  /\ o \in live \ cur.uses /\ ctl # "stopped"
  /\ Careful => ctl # "reset" /\ active = Worker /\ cur.kind # "activate"
  /\ live' = live \ {o}
  /\ deleted' = deleted \cup {o}
  /\ UNCHANGED <<ctl, cur, active, home, sent, chan, values, workers>>

-----------------------------------------------------------------------------
(* A worker.                                                               *)

\* _backtranslateOID() of an argument or __workerCreate() raise InternalError
Fails(w, cmd) ==
  \/ cmd.uses \ cache[w] # {}
  \/ cmd.kind = "create" /\ cmd.oids \cap cache[w] # {}

\* variant: a worker does not notice that its group has ended
ListensStill(w, cmd) ==
  IF cmd.kind = "activate" /\ w \in cmd.comm THEN cmd.comm ELSE listens[w]

\* __workerActivate() and __workerDeActivate()
ListensAfter(w, cmd) ==
  CASE cmd.kind = "activate" /\ w \in cmd.comm -> cmd.comm
    [] cmd.kind = "deactivate" -> Worker
    [] OTHER -> listens[w]

\* variant: the value is not sent when the command uses no object
ValuesOfUses(w, m) ==
  IF m.cmd.kind = "invoke" /\ m.cmd.uses # {} THEN Append(values[w], m.nr) ELSE values[w]

\* variant: a value is sent for a call, too
ValuesOfCalls(w, m) ==
  IF m.cmd.kind \in {"invoke", "call"} THEN Append(values[w], m.nr) ELSE values[w]

\* __workerInvoke() and __workerReduce() send a value back, __workerCall() does not
ValuesAfter(w, m) ==
  IF m.cmd.kind = "invoke" THEN Append(values[w], m.nr) ELSE values[w]

\* variant: objects are not deleted
CacheKept(w, cmd) == IF cmd.kind = "create" THEN cache[w] \cup cmd.oids ELSE cache[w]

\* __workerCreate() and __workerDelete()
CacheAfter(w, cmd) ==
  CASE cmd.kind = "create" -> cache[w] \cup cmd.oids
    [] cmd.kind = "delete" -> cache[w] \ cmd.oids
    [] OTHER -> cache[w]

\* receive() and the worker function of the command
Receive(w) ==
  LET m == Head(chan[w][listens[w]])
  IN  /\ loop[w] = "in" /\ chan[w][listens[w]] # <<>>
      /\ chan' = [chan EXCEPT ![w][listens[w]] = Tail(@)]
      /\ IF Fails(w, m.cmd)
         THEN /\ loop' = [loop EXCEPT ![w] = "error"]
              /\ UNCHANGED <<listens, cache, values>>
         ELSE /\ loop' = [loop EXCEPT ![w] = IF m.cmd.kind = "stop" THEN "left" ELSE @]
              /\ listens' = [listens EXCEPT ![w] = ListensAfter(w, m.cmd)]
              /\ cache' = [cache EXCEPT ![w] = CacheAfter(w, m.cmd)]
              /\ values' = [values EXCEPT ![w] = ValuesAfter(w, m)]
      /\ UNCHANGED script

-----------------------------------------------------------------------------

Controller == Reset \/ Send \/ Gather

Next ==
  \/ \E cmd \in Command : Start(cmd)
  \/ Controller
  \/ \E o \in Oid : Collect(o)
  \/ \E w \in Worker : Receive(w)

\* Processes go on: a command that was started is sent, and workers in the
\* loop take messages.  A script need not give commands, and the garbage
\* collector need not run.
Spec ==
  /\ Init /\ [][Next]_vars
  /\ WF_vars(Controller)
  /\ \A w \in Worker : WF_vars(Receive(w))

-----------------------------------------------------------------------------
(* Properties.                                                             *)

\* messages on their way to w
Pending(w) == UNION {Range(chan[w][c]) : c \in Comm}

\* A worker waits in the communicator in which the oldest of the messages to
\* it is: commands are carried out in the order of the script although they
\* come through several communicators.
ListensWhereNextIs ==
  \A w \in Worker : loop[w] = "in" /\ Pending(w) # {} =>
    /\ chan[w][listens[w]] # <<>>
    /\ \A m \in Pending(w) : Head(chan[w][listens[w]]).nr <= m.nr

\* the cache of w when it has taken all messages
CacheToBe(w) ==
  {o \in Oid :
     LET M == {m \in Pending(w) : m.cmd.kind \in {"create", "delete"} /\ o \in m.cmd.oids}
     IN  IF M = {} THEN o \in cache[w]
         ELSE \E m \in M : m.cmd.kind = "create" /\ \A k \in M : k.nr <= m.nr}

\* Workers have, or are about to have, the objects the script has and those
\* that were collected and not yet sent: none is lost and none stays.
CachesFollowScript ==
  \A w \in Worker : loop[w] # "error" =>
    CacheToBe(w) = {o \in live \cup (IF ctl = "reset" THEN {} ELSE deleted) : w \in home[o]}

\* No worker raises InternalError: an object that is used is in the cache, and
\* one that is created is not, although ids are used again.
NoInternalError == \A w \in Worker : loop[w] # "error"

\* The values gathered for a command are those of this command.
ValuesBelongTogether ==
  ctl = "gather" => \A w \in active : values[w] # <<>> => Head(values[w]) = sent

\* invoke() and reduce() return.
InvokeReturns == (ctl = "gather") ~> (ctl = "script")

\* stopWorkerLoop() stops all workers.
StopReachesAll == (ctl = "stopped") ~> (\A w \in Worker : loop[w] = "left")

=============================================================================
