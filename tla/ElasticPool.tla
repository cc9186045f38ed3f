---------------------------- MODULE ElasticPool ----------------------------
(***************************************************************************)
(* The ModeElastic task pool (taskpool/elastic.go): a submission hands its *)
(* task to a lingering worker, forks one while a slot is free, or queues   *)
(* it for the dispatcher, which does the same and waits to be kicked while *)
(* there is neither.                                                       *)
(*                                                                         *)
(* Each step is one atomic operation or one critical section of a shard.   *)
(* A worker is idle exactly while it is on its shard's stack: the          *)
(* tombstones retire leaves there, and their compaction, are abstracted    *)
(* away, since pop skips them.  A name with a suffix, X_Fault, is a faulty *)
(* variant of X, against which the properties are tried.                   *)
(***************************************************************************)
EXTENDS Integers, Sequences, FiniteSets, SequencesExt, FiniteSetsExt

CONSTANTS
    Submitters,     \* the submissions the program makes
    Batch,          \* [Submitters -> Seq(Tasks)], the tasks each one carries
    Workers,        \* the worker goroutines that may be alive at a time
    Shards,         \* how many shards there are
    MaxWorkers,     \* maxConcurrent
    QueueSize,      \* the capacity of the tasks channel
    Stops           \* whether the program calls Stop

Dispatcher == "dispatcher"
Stopper == "stopper"
NoTask == "no task"
Leave == "leave"    \* the nil stop sends a lingering worker

Tasks == UNION {Range(Batch[s]) : s \in Submitters}
Procs == Submitters \cup Workers \cup {Dispatcher, Stopper}

ASSUME ElasticPoolAssumption ==
    /\ Shards \in Nat \ {0} /\ MaxWorkers \in Nat \ {0} /\ QueueSize \in Nat \ {0}
    /\ Stops \in BOOLEAN /\ \A s \in Submitters : Batch[s] # <<>>

VARIABLES
    queue,          \* the tasks channel
    idle, count,    \* each shard's stack of lingering workers, and its count
    pending,        \* each shard's count of tasks accepted and not yet run
    concurrent,     \* the execution slots taken
    waiting, kicked, stopped, closed,
    wake,           \* the task, or the nil, sent to each worker
    pc,
    job,            \* the task a process holds
    at,             \* the shard a process starts its search at, or its home
    found,          \* the worker a process popped, and sends to
    tried,          \* how many shards a search has looked at
    total,          \* the sum stop has read so far
    next,           \* how far each submission is in its batch
    fate, phase     \* the pool as its users see it; see TaskPool

shared == <<queue, idle, count, pending, concurrent, waiting, kicked, stopped, closed, wake>>
local == <<job, at, found, tried, total, next>>
users == <<fate, phase>>
vars == <<shared, pc, local, users>>

ShardIds == 0..Shards - 1
NoWorker == "no worker"

Init ==
    /\ queue = <<>> /\ idle = [i \in ShardIds |-> <<>>] /\ count = [i \in ShardIds |-> 0]
    /\ pending = [i \in ShardIds |-> 0] /\ concurrent = 0
    /\ waiting = FALSE /\ kicked = FALSE /\ stopped = FALSE /\ closed = FALSE
    /\ wake = [w \in Workers |-> NoTask]
    /\ pc = [p \in Procs |-> IF p \in Workers THEN "gone"
                             ELSE IF p = Dispatcher THEN "d_select" ELSE "ready"]
    /\ job = [p \in Procs |-> NoTask] /\ at = [p \in Procs |-> 0]
    /\ found = [p \in Procs |-> NoWorker] /\ tried = [p \in Procs |-> 0]
    /\ total = 0 /\ next = [s \in Submitters |-> 1]
    /\ fate = [t \in Tasks |-> "new"] /\ phase = "open"

-----------------------------------------------------------------------------
Goto(p, l) == pc' = [pc EXCEPT ![p] = l]
Become(t, f) == fate' = [fate EXCEPT ![t] = f]
Gone == {w \in Workers : pc[w] = "gone"}

\* popIdle looks at the shards from at[p] on.  pop skips a shard that counts no
\* lingering worker without taking its lock; under it the stack may be empty.
Pop(p, from, lock, hit, miss) ==
    LET i == (at[p] + tried[p]) % Shards
        Skip == /\ tried' = [tried EXCEPT ![p] = (@ + 1) % Shards]
                /\ Goto(p, IF tried[p] + 1 = Shards THEN miss ELSE from)
                /\ UNCHANGED <<found, idle, count>>
    IN
    /\ \/ pc[p] = from /\ count[i] = 0 /\ Skip
       \/ pc[p] = from /\ count[i] # 0 /\ Goto(p, lock) /\ UNCHANGED <<found, idle, count, tried>>
       \/ pc[p] = lock /\ idle[i] = <<>> /\ Skip
       \/ /\ pc[p] = lock /\ idle[i] # <<>>
          /\ found' = [found EXCEPT ![p] = Last(idle[i])]
          /\ idle' = [idle EXCEPT ![i] = Front(@)]
          /\ count' = [count EXCEPT ![i] = @ - 1]
          /\ tried' = [tried EXCEPT ![p] = 0]
          /\ Goto(p, hit)
    /\ UNCHANGED <<queue, pending, concurrent, waiting, kicked, stopped, closed, wake,
                   job, at, total, next, users>>

\* The popped worker's channel holds one task, so the send never blocks.
Wake(p, from, task, to) ==
    /\ pc[p] = from
    /\ wake' = [wake EXCEPT ![found[p]] = task]
    /\ found' = [found EXCEPT ![p] = NoWorker]
    /\ job' = [job EXCEPT ![p] = NoTask]
    /\ at' = [at EXCEPT ![p] = 0]
    /\ Goto(p, to)
    /\ UNCHANGED <<queue, idle, count, pending, concurrent, waiting, kicked, stopped, closed,
                   tried, total, next, users>>

\* fork and acquire: a slot is counted before it is known to be free, and
\* counted back if it is not.
Fork_OffByOne(p, from, done, undo) ==
    /\ pc[p] = from
    /\ concurrent' = concurrent + 1
    /\ \/ /\ concurrent <= MaxWorkers
          /\ \E w \in Gone, home \in ShardIds :
                /\ pc' = [pc EXCEPT ![p] = done, ![w] = "run"]
                /\ job' = [job EXCEPT ![w] = job[p], ![p] = NoTask]
                /\ at' = [at EXCEPT ![w] = home, ![p] = 0]
       \/ concurrent > MaxWorkers /\ Goto(p, undo) /\ UNCHANGED <<job, at>>
    /\ UNCHANGED <<queue, idle, count, pending, waiting, kicked, stopped, closed, wake,
                   found, tried, total, next, users>>
Fork(p, from, done, undo) ==
    /\ pc[p] = from
    /\ concurrent' = concurrent + 1
    /\ \/ /\ concurrent < MaxWorkers
          /\ \E w \in Gone, home \in ShardIds :
                /\ pc' = [pc EXCEPT ![p] = done, ![w] = "run"]
                /\ job' = [job EXCEPT ![w] = job[p], ![p] = NoTask]
                /\ at' = [at EXCEPT ![w] = home, ![p] = 0]
       \/ concurrent >= MaxWorkers /\ Goto(p, undo) /\ UNCHANGED <<job, at>>
    /\ UNCHANGED <<queue, idle, count, pending, waiting, kicked, stopped, closed, wake,
                   found, tried, total, next, users>>

\* The attempt, or the worker, is over, and with it the shard chosen for it.
GiveBack(p, from, to) ==
    /\ pc[p] = from
    /\ concurrent' = concurrent - 1
    /\ at' = [at EXCEPT ![p] = 0]
    /\ Goto(p, to)
    /\ UNCHANGED <<queue, idle, count, pending, waiting, kicked, stopped, closed, wake,
                   job, found, tried, total, next, users>>

\* kick: load waiting, and fill the one-slot channel.
Kick(p, load, send, to) ==
    \/ /\ pc[p] = load
       /\ Goto(p, IF waiting THEN send ELSE to)
       /\ UNCHANGED <<shared, local, users>>
    \/ /\ pc[p] = send
       /\ kicked' = TRUE
       /\ Goto(p, to)
       /\ UNCHANGED <<queue, idle, count, pending, concurrent, waiting, stopped, closed, wake,
                      local, users>>

Pending(p, from, d, to) ==
    /\ pc[p] = from
    /\ pending' = [pending EXCEPT ![at[p]] = @ + d]
    /\ Goto(p, to)
    /\ UNCHANGED <<queue, idle, count, concurrent, waiting, kicked, stopped, closed, wake,
                   local, users>>

-----------------------------------------------------------------------------
(* A submission: submit, and submitBatch one task after the other.         *)

Begin(s) ==
    /\ pc[s] = "ready" /\ next[s] <= Len(Batch[s])
    /\ \E i \in ShardIds :
          /\ at' = [at EXCEPT ![s] = i]
          /\ pending' = [pending EXCEPT ![i] = @ + 1]
    /\ job' = [job EXCEPT ![s] = Batch[s][next[s]]]
    /\ next' = [next EXCEPT ![s] = @ + 1]
    /\ Goto(s, "look")
    /\ UNCHANGED <<queue, idle, count, concurrent, waiting, kicked, stopped, closed, wake,
                   found, tried, total, users>>

\* The look at stopped decides: a pool still open has accepted the task.
Look_KeepsCount(s) ==
    /\ pc[s] = "look"
    /\ \/ /\ stopped
          /\ fate' = [t \in Tasks |-> IF \E i \in next[s] - 1..Len(Batch[s]) : Batch[s][i] = t
                                      THEN "refused" ELSE fate[t]]
          /\ Goto(s, "done")
       \/ ~stopped /\ Become(job[s], "accepted") /\ Goto(s, "pop")
    /\ UNCHANGED <<shared, local, phase>>
Look(s) ==
    /\ pc[s] = "look"
    /\ \/ /\ stopped
          /\ fate' = [t \in Tasks |-> IF \E i \in next[s] - 1..Len(Batch[s]) : Batch[s][i] = t
                                      THEN "refused" ELSE fate[t]]
          /\ Goto(s, "refuse")
       \/ ~stopped /\ Become(job[s], "accepted") /\ Goto(s, "pop")
    /\ UNCHANGED <<shared, local, phase>>

Enqueue(s) ==
    /\ pc[s] = "queue" /\ Len(queue) < QueueSize
    /\ queue' = Append(queue, job[s])
    /\ job' = [job EXCEPT ![s] = NoTask]
    /\ Goto(s, "ready")
    /\ UNCHANGED <<idle, count, pending, concurrent, waiting, kicked, stopped, closed, wake,
                   at, found, tried, total, next, users>>

Submit(s) ==
    \/ Begin(s) \/ Look(s) \/ Enqueue(s)
    \/ Pending(s, "refuse", -1, "done")
    \/ Pop(s, "pop", "lock", "wake", "fork")
    \/ Wake(s, "wake", job[s], "ready")
    \/ Fork(s, "fork", "ready", "undo")
    \/ GiveBack(s, "undo", "queue")

-----------------------------------------------------------------------------
(* A worker: run.                                                          *)

Run(w) ==
    /\ pc[w] = "run"
    /\ Become(job[w], "running")
    /\ Goto(w, "running")
    /\ UNCHANGED <<shared, local, phase>>

\* The task returns or panics; executor.call recovers either way.
Return(w) ==
    /\ pc[w] = "running"
    /\ Become(job[w], "done")
    /\ job' = [job EXCEPT ![w] = NoTask]
    /\ Goto(w, "ran")
    /\ UNCHANGED <<shared, at, found, tried, total, next, phase>>

Poll(w) ==
    /\ pc[w] = "poll"
    /\ \/ /\ queue # <<>>
          /\ queue' = Tail(queue)
          /\ job' = [job EXCEPT ![w] = Head(queue)]
          /\ Goto(w, "run")
       \/ queue = <<>> /\ Goto(w, "push") /\ UNCHANGED <<queue, job>>
    /\ UNCHANGED <<idle, count, pending, concurrent, waiting, kicked, stopped, closed, wake,
                   at, found, tried, total, next, users>>

\* pushIdle: onto the stack, counted, and then the kick.
PushIdle_NoKick(w) ==
    /\ \/ /\ pc[w] = "push"
          /\ idle' = [idle EXCEPT ![at[w]] = Append(@, w)]
          /\ Goto(w, "pushed") /\ UNCHANGED count
       \/ /\ pc[w] = "pushed"
          /\ count' = [count EXCEPT ![at[w]] = @ + 1]
          /\ Goto(w, "parked") /\ UNCHANGED idle
    /\ UNCHANGED <<queue, pending, concurrent, waiting, kicked, stopped, closed, wake,
                   local, users>>
PushIdle(w) ==
    /\ \/ /\ pc[w] = "push"
          /\ idle' = [idle EXCEPT ![at[w]] = Append(@, w)]
          /\ Goto(w, "pushed") /\ UNCHANGED count
       \/ /\ pc[w] = "pushed"
          /\ count' = [count EXCEPT ![at[w]] = @ + 1]
          /\ Goto(w, "p_kick") /\ UNCHANGED idle
    /\ UNCHANGED <<queue, pending, concurrent, waiting, kicked, stopped, closed, wake,
                   local, users>>

\* A worker that parks once stop has swept the stacks retires by itself.
Park(w) ==
    /\ pc[w] = "parked"
    /\ Goto(w, IF stopped THEN "retire" ELSE "linger")
    /\ UNCHANGED <<shared, local, users>>

\* What was sent to a lingering worker, or to one popped as its linger ran out.
Woken_RunsNil(w) ==
    /\ pc[w] \in {"linger", "taken"} /\ wake[w] # NoTask
    /\ wake' = [wake EXCEPT ![w] = NoTask]
    /\ job' = [job EXCEPT ![w] = wake[w]]
    /\ Goto(w, "run")
    /\ UNCHANGED <<queue, idle, count, pending, concurrent, waiting, kicked, stopped, closed,
                   at, found, tried, total, next, users>>
Woken(w) ==
    /\ pc[w] \in {"linger", "taken"} /\ wake[w] # NoTask
    /\ wake' = [wake EXCEPT ![w] = NoTask]
    /\ job' = [job EXCEPT ![w] = IF wake[w] = Leave THEN NoTask ELSE wake[w]]
    /\ Goto(w, IF wake[w] = Leave THEN "exit" ELSE "run")
    /\ UNCHANGED <<queue, idle, count, pending, concurrent, waiting, kicked, stopped, closed,
                   at, found, tried, total, next, users>>

\* retire, as the linger runs out or once stopped: the swap from idle to retired,
\* which fails if w was popped.
Retire_Unchecked(w) ==
    /\ \/ /\ pc[w] \in {"linger", "retire"}
          /\ idle' = [idle EXCEPT ![at[w]] = SelectSeq(@, LAMBDA v : v # w)]
          /\ Goto(w, "retired") /\ UNCHANGED count
       \/ /\ pc[w] = "retired"
          /\ count' = [count EXCEPT ![at[w]] = @ - 1]
          /\ Goto(w, "exit") /\ UNCHANGED idle
    /\ UNCHANGED <<queue, pending, concurrent, waiting, kicked, stopped, closed, wake,
                   local, users>>
Retire(w) ==
    /\ \/ /\ pc[w] \in {"linger", "retire"}
          /\ idle' = [idle EXCEPT ![at[w]] = SelectSeq(@, LAMBDA v : v # w)]
          /\ Goto(w, IF w \in Range(idle[at[w]]) THEN "retired" ELSE "taken")
          /\ UNCHANGED count
       \/ /\ pc[w] = "retired"
          /\ count' = [count EXCEPT ![at[w]] = @ - 1]
          /\ Goto(w, "exit") /\ UNCHANGED idle
    /\ UNCHANGED <<queue, pending, concurrent, waiting, kicked, stopped, closed, wake,
                   local, users>>

WorkerStep(w) ==
    \/ Run(w) \/ Poll(w) \/ PushIdle(w) \/ Park(w) \/ Woken(w) \/ Retire(w)
    \/ Pending(w, "ran", -1, "poll")
    \/ Kick(w, "p_kick", "p_kicks", "parked")
    \/ GiveBack(w, "exit", "e_kick")
    \/ Kick(w, "e_kick", "e_kicks", "gone")

-----------------------------------------------------------------------------
(* The dispatcher, and stop.                                               *)

Take ==
    /\ pc[Dispatcher] = "d_select"
    /\ \/ /\ queue # <<>>
          /\ queue' = Tail(queue)
          /\ job' = [job EXCEPT ![Dispatcher] = Head(queue)]
          /\ Goto(Dispatcher, "d_raise")
       \/ closed /\ Goto(Dispatcher, "gone") /\ UNCHANGED <<queue, job>>
    /\ UNCHANGED <<idle, count, pending, concurrent, waiting, kicked, stopped, closed, wake,
                   at, found, tried, total, next, users>>

\* waiting is raised before the look at the stacks, from a random shard on.
Raise(v, from, to) ==
    /\ pc[Dispatcher] = from
    /\ waiting' = v
    /\ \E i \in ShardIds : at' = [at EXCEPT ![Dispatcher] = IF v THEN i ELSE 0]
    /\ Goto(Dispatcher, to)
    /\ UNCHANGED <<queue, idle, count, pending, concurrent, kicked, stopped, closed, wake,
                   job, found, tried, total, next, users>>

\* Nobody to run the task: wait to be kicked, or for the pool to close.
Await ==
    /\ pc[Dispatcher] = "d_wait"
    /\ \/ kicked /\ kicked' = FALSE /\ Goto(Dispatcher, "d_raise")
       \/ closed /\ Goto(Dispatcher, "gone") /\ UNCHANGED kicked
    /\ UNCHANGED <<queue, idle, count, pending, concurrent, waiting, stopped, closed, wake,
                   local, users>>

Dispatch ==
    \/ Take \/ Await
    \/ Raise(TRUE, "d_raise", "d_pop")
    \/ Pop(Dispatcher, "d_pop", "d_lock", "d_lower", "d_fork")
    \/ Raise(FALSE, "d_lower", "d_wake")
    \/ Wake(Dispatcher, "d_wake", job[Dispatcher], "d_select")
    \/ Fork(Dispatcher, "d_fork", "d_forked", "d_undo")
    \/ Raise(FALSE, "d_forked", "d_select")
    \/ GiveBack(Dispatcher, "d_undo", "d_wait")

StopCall ==
    /\ Stops /\ pc[Stopper] = "ready"
    /\ stopped' = TRUE /\ phase' = "stopping"
    /\ Goto(Stopper, "sum")
    /\ UNCHANGED <<queue, idle, count, pending, concurrent, waiting, kicked, closed, wake,
                   local, fate>>

\* pendingTasks, shard by shard; a sum of zero closes the pool.
Sum_FirstShard ==
    /\ pc[Stopper] = "sum" /\ pending[0] <= 0
    /\ closed' = TRUE
    /\ Goto(Stopper, "sweep")
    /\ UNCHANGED <<total, tried>>
    /\ UNCHANGED <<queue, idle, count, pending, concurrent, waiting, kicked, stopped, wake,
                   job, at, found, next, users>>
Sum ==
    LET i == tried[Stopper]
        sum == total + pending[i]
        last == i + 1 = Shards
    IN
    /\ pc[Stopper] = "sum"
    /\ tried' = [tried EXCEPT ![Stopper] = IF last THEN 0 ELSE i + 1]
    /\ total' = IF last THEN 0 ELSE sum
    /\ closed' = (last /\ sum <= 0)
    /\ Goto(Stopper, IF last /\ sum <= 0 THEN "sweep" ELSE "sum")
    /\ UNCHANGED <<queue, idle, count, pending, concurrent, waiting, kicked, stopped, wake,
                   job, at, found, next, users>>

Join ==
    /\ pc[Stopper] = "join" /\ Gone = Workers /\ pc[Dispatcher] = "gone"
    /\ phase' = "stopped"
    /\ Goto(Stopper, "done")
    /\ UNCHANGED <<shared, local, fate>>

Stop ==
    \/ Sum \/ Join
    \/ Pop(Stopper, "sweep", "s_lock", "dismiss", "join")
    \/ Wake(Stopper, "dismiss", Leave, "sweep")

-----------------------------------------------------------------------------
Next ==
    \/ \E s \in Submitters : Submit(s)
    \/ \E w \in Workers : WorkerStep(w) \/ Return(w)
    \/ Dispatch \/ StopCall \/ Stop

Safe == Init /\ [][Next]_vars

\* The scheduler runs every goroutine, timers fire, and tasks return.
Spec ==
    /\ Safe
    /\ \A s \in Submitters : WF_vars(Submit(s))
    /\ \A w \in Workers : WF_vars(WorkerStep(w) \/ Return(w))
    /\ WF_vars(Dispatch) /\ WF_vars(Stop)

-----------------------------------------------------------------------------
(* Properties.                                                             *)

\* Type correctness; a shard's counts may go below zero.
TypeOK ==
    /\ queue \in Seq(Tasks) /\ Len(queue) <= QueueSize
    /\ idle \in [ShardIds -> Seq(Workers)] /\ count \in [ShardIds -> Int]
    /\ pending \in [ShardIds -> Int] /\ concurrent \in Nat
    /\ waiting \in BOOLEAN /\ kicked \in BOOLEAN /\ stopped \in BOOLEAN /\ closed \in BOOLEAN
    /\ wake \in [Workers -> Tasks \cup {NoTask, Leave}]
    /\ job \in [Procs -> Tasks \cup {NoTask}]

\* No more workers run than maxConcurrent, though the slots are counted past it
\* for a moment, and each slot counted is a worker's or an attempt's.
SlotsHeld ==
    /\ Cardinality({w \in Workers : pc[w] \notin {"gone", "e_kick", "e_kicks"}}) <= MaxWorkers
    /\ concurrent = Cardinality({p \in Procs : pc[p] \in {"undo", "d_undo"}})
                    + Cardinality({w \in Workers : pc[w] \notin {"gone", "e_kick", "e_kicks"}})

\* The dispatcher never sleeps over a lingering worker: while it waits without a
\* kick on the way, a worker on a stack has yet to finish parking, which kicks it.
DispatcherHeard ==
    pc[Dispatcher] = "d_wait" /\ ~kicked =>
        \A i \in ShardIds : \A w \in Range(idle[i]) : pc[w] \in {"pushed", "p_kick", "p_kicks"}

\* A worker that leaves is one nobody is sending to: retire and popIdle agree on
\* who has it, so what is sent to a worker is received.
SendsReceived ==
    \A w \in Workers : pc[w] \in {"gone", "exit", "retired"} =>
        wake[w] = NoTask /\ \A p \in Procs : found[p] # w

\* The pool is a task pool as its users know it: an accepted task runs once, and
\* Stop returns only when all of them have.
Pool == INSTANCE TaskPool WITH TryTasks <- {}
PoolSpec == Pool!Spec

\* Every task the pool accepted is run to its end.
AcceptedRuns == \A t \in Tasks : fate[t] = "accepted" ~> fate[t] = "done"

\* A call of Stop returns, unless it waits for a task that the dispatcher sleeps
\* over beside a free slot.
Asleep == pc[Dispatcher] = "d_wait" /\ ~kicked /\ concurrent < MaxWorkers
StopReturns == pc[Stopper] = "sum" ~> phase = "stopped" \/ Asleep
=============================================================================
