------------------------------ MODULE ChanPool ------------------------------
(***************************************************************************)
(* The ModeAdaptiveChan task pool (taskpool/adaptive_chan.go): workers     *)
(* that wait on a buffered channel of tasks, grown by submissions that     *)
(* leave a task queued and shrunk over an unbuffered retire channel.       *)
(*                                                                         *)
(* A goroutine is a process with a program counter: the submissions, the   *)
(* workers, the janitor, one caller of Resize and one of Stop.  Each step  *)
(* is one atomic operation of the code: an atomic load, add or             *)
(* compare-and-swap, or one channel operation.  Starting a goroutine is    *)
(* folded into the step before it, since a goroutine may begin to run at   *)
(* any later time.  A name with a suffix, X_Fault, is a faulty variant of  *)
(* X, against which the properties are tried.                              *)
(***************************************************************************)
EXTENDS Integers, Sequences, FiniteSets, SequencesExt

CONSTANTS
    Submitters,     \* the submissions the program makes
    Batch,          \* [Submitters -> Seq(Tasks)], the tasks each one carries
    Tryers,         \* the submissions made with TryGo
    Workers,        \* the worker goroutines that may be alive at a time
    QueueSize,      \* AdaptiveConfig.QueueSize
    Limits,         \* the <<floor, ceiling>> the pool is built with
    Ranges,         \* the <<floor, ceiling>> pairs Resize may be called with
    MaxWaking,      \* the code's maxWaking
    Shrinks,        \* whether the janitor's interval ever elapses
    Stops           \* whether the program calls Stop

Janitor == "janitor"
Resizer == "resizer"
Stopper == "stopper"
NoTask == "no task"

Tasks == UNION {Range(Batch[s]) : s \in Submitters}
TryTasks == UNION {Range(Batch[s]) : s \in Tryers}
Procs == Submitters \cup Workers \cup {Janitor, Resizer, Stopper}

\* validateAdaptiveRange, and what the submission calls carry.
ASSUME ChanPoolAssumption ==
    /\ QueueSize \in Nat /\ MaxWaking \in Nat \ {0} /\ Shrinks \in BOOLEAN
    /\ Stops \in BOOLEAN
    /\ \A r \in Ranges \cup {Limits} : r[2] > 0 /\ r[1] \in 0..r[2]
    /\ \A s \in Submitters : Batch[s] # <<>>
    /\ \A s \in Tryers : Len(Batch[s]) = 1

VARIABLES
    buf,            \* the tasks channel's buffer
    closed,         \* whether stop has closed it
    recvq,          \* the workers waiting in the select, longest first
    sendq,          \* the submissions blocked on the full channel
    n,              \* the pool's counters and limits
    stopped,
    ctl,            \* who holds the ctl lock, or "free"
    quota,          \* how many its holder's retireIdle has left to retire
    pc,
    ret,            \* where a process goes when its grow returns
    seen,           \* the value a load left for the swap after it
    next,           \* how far each submission is in its batch
    job,            \* the task a worker holds
    fate, phase     \* the pool as its users see it; see TaskPool

chan == <<buf, closed, recvq, sendq>>
control == <<stopped, ctl, quota>>
local == <<ret, next, job>>
users == <<fate, phase>>
vars == <<chan, n, control, pc, seen, local, users>>

Capacity == IF QueueSize > 1 THEN QueueSize ELSE 1

Init ==
    /\ buf = <<>> /\ closed = FALSE /\ recvq = <<>> /\ sendq = <<>>
    /\ n = [workers |-> Limits[1], idle |-> 0, lowIdle |-> 0, waking |-> 0,
            min |-> Limits[1], max |-> Limits[2], submitting |-> 0]
    /\ stopped = FALSE /\ ctl = "free" /\ quota = 0
    /\ \E first \in SUBSET Workers :
           /\ Cardinality(first) = Limits[1]
           /\ pc = [p \in Procs |-> IF p \in first THEN "poll"
                                    ELSE IF p \in Workers THEN "gone"
                                    ELSE "ready"]
    /\ ret = [p \in Submitters \cup Workers |-> "gone"]
    /\ seen = [p \in Procs |-> 0]
    /\ next = [s \in Submitters |-> 1]
    /\ job = [w \in Workers |-> NoTask]
    /\ fate = [t \in Tasks |-> "new"] /\ phase = "open"

-----------------------------------------------------------------------------
(* The forms a step of the code takes.                                     *)

Goto(p, l) == pc' = [pc EXCEPT ![p] = l]

\* An atomic add to one counter.
Count(p, from, counter, d, to) ==
    /\ pc[p] = from
    /\ n' = [n EXCEPT ![counter] = @ + d]
    /\ Goto(p, to)
    /\ UNCHANGED <<chan, control, seen, local, users>>

\* An atomic load of a value that a later swap compares.
Load(p, from, value, to) ==
    /\ pc[p] = from
    /\ seen' = [seen EXCEPT ![p] = value]
    /\ Goto(p, to)
    /\ UNCHANGED <<chan, n, control, local, users>>

\* An atomic load that only decides where to go; no ends the swap loop.
Test(p, from, cond, yes, no) ==
    /\ pc[p] = from
    /\ Goto(p, IF cond THEN yes ELSE no)
    /\ seen' = [seen EXCEPT ![p] = IF cond THEN @ ELSE 0]
    /\ UNCHANGED <<chan, n, control, local, users>>

\* A compare-and-swap of one counter that adds d to the value loaded.
Swapped(p, counter) == n[counter] = seen[p]
Swap(p, from, counter, d) ==
    /\ pc[p] = from
    /\ n' = [n EXCEPT ![counter] = IF Swapped(p, counter) THEN @ + d ELSE @]
    /\ seen' = [seen EXCEPT ![p] = 0]
    /\ UNCHANGED <<chan, control, next, job, users>>

-----------------------------------------------------------------------------
(* The channel.                                                            *)

Become(t, f) == fate' = [fate EXCEPT ![t] = f]
Task(s) == Batch[s][next[s]]

\* A send that does not block: to the longest waiting worker, or the buffer.
Sendable == recvq # <<>> \/ Len(buf) < Capacity

\* s sends its task and goes on to grow.
Send(s) ==
    /\ \/ /\ recvq # <<>>
          /\ recvq' = Tail(recvq)
          /\ job' = [job EXCEPT ![Head(recvq)] = Task(s)]
          /\ pc' = [pc EXCEPT ![Head(recvq)] = "woken", ![s] = "g_idle"]
          /\ ret' = [ret EXCEPT ![Head(recvq)] = "run", ![s] = "sent"]
          /\ UNCHANGED buf
       \/ /\ recvq = <<>>
          /\ buf' = Append(buf, Task(s))
          /\ Goto(s, "g_idle")
          /\ ret' = [ret EXCEPT ![s] = "sent"]
          /\ UNCHANGED <<recvq, job>>
    /\ Become(Task(s), "accepted")
    /\ UNCHANGED <<closed, sendq>>

\* w takes the oldest task and goes to l; the task of the submission blocked
\* longest follows it into the buffer.
Receive(w, l) ==
    /\ buf # <<>>
    /\ job' = [job EXCEPT ![w] = Head(buf)]
    /\ \/ /\ sendq = <<>>
          /\ buf' = Tail(buf)
          /\ Goto(w, l)
          /\ ret' = [ret EXCEPT ![w] = "run"]
          /\ UNCHANGED <<sendq, fate>>
       \/ /\ sendq # <<>>
          /\ buf' = Append(Tail(buf), Task(Head(sendq)))
          /\ sendq' = Tail(sendq)
          /\ pc' = [pc EXCEPT ![w] = l, ![Head(sendq)] = "g_idle"]
          /\ ret' = [ret EXCEPT ![w] = "run", ![Head(sendq)] = "sent"]
          /\ Become(Task(Head(sendq)), "accepted")
    /\ UNCHANGED <<closed, recvq>>

-----------------------------------------------------------------------------
(* grow: start workers for the tasks left queued.                          *)

Gone == {w \in Workers : pc[w] = "gone"}

\* reserveWaking: load waking, compare it with the queue, swap.
ReserveWaking_OffByOne(p) ==
    \/ Load(p, "g_waking", n.waking, "g_len")
    \/ Test(p, "g_len", seen[p] < MaxWaking /\ seen[p] + 1 < Len(buf),
            "g_reserve", ret[p])
    \/ /\ Swap(p, "g_reserve", "waking", 1)
       /\ Goto(p, IF Swapped(p, "waking") THEN "g_workers" ELSE "g_waking")
       /\ UNCHANGED ret
ReserveWaking(p) ==
    \/ Load(p, "g_waking", n.waking, "g_len")
    \/ Test(p, "g_len", seen[p] < MaxWaking /\ seen[p] < Len(buf),
            "g_reserve", ret[p])
    \/ /\ Swap(p, "g_reserve", "waking", 1)
       /\ Goto(p, IF Swapped(p, "waking") THEN "g_workers" ELSE "g_waking")
       /\ UNCHANGED ret

\* addWorker: load the count, compare it with the ceiling, swap, and start
\* the worker.
AddWorker_PastCeiling(p) ==
    \/ Load(p, "g_workers", n.workers, "g_max")
    \/ Test(p, "g_max", seen[p] <= n.max, "g_add", "g_release")
    \/ /\ Swap(p, "g_add", "workers", 1)
       /\ \/ /\ Swapped(p, "workers")
             /\ \E w \in Gone :
                    pc' = [pc EXCEPT ![p] = "g_idle", ![w] = "arrive"]
          \/ ~Swapped(p, "workers") /\ Goto(p, "g_workers")
       /\ UNCHANGED ret
AddWorker(p) ==
    \/ Load(p, "g_workers", n.workers, "g_max")
    \/ Test(p, "g_max", seen[p] < n.max, "g_add", "g_release")
    \/ /\ Swap(p, "g_add", "workers", 1)
       /\ \/ /\ Swapped(p, "workers")
             /\ \E w \in Gone :
                    pc' = [pc EXCEPT ![p] = "g_idle", ![w] = "arrive"]
          \/ ~Swapped(p, "workers") /\ Goto(p, "g_workers")
       /\ UNCHANGED ret

Grow_KeepsReservation(p) ==
    \/ Test(p, "g_idle", n.idle = 0, "g_waking", ret[p])
    \/ ReserveWaking(p)
    \/ AddWorker(p)
    \/ Count(p, "g_release", "waking", 0, ret[p])
Grow(p) ==
    \/ Test(p, "g_idle", n.idle = 0, "g_waking", ret[p])
    \/ ReserveWaking(p)
    \/ AddWorker(p)
    \/ Count(p, "g_release", "waking", -1, ret[p])

-----------------------------------------------------------------------------
(* A submission: submit, submitBatch and trySubmit.                        *)

Refuse(s) ==
    /\ fate' = [t \in Tasks |-> IF t \in Range(Batch[s]) THEN "refused"
                                ELSE fate[t]]
    /\ Goto(s, "exit")

Check(s) ==
    /\ pc[s] = "check"
    /\ \/ stopped /\ Refuse(s)
       \/ ~stopped /\ Goto(s, "send") /\ UNCHANGED fate
    /\ UNCHANGED <<chan, n, control, seen, local, phase>>

\* The first attempt does not block; a full queue makes it grow and try again.
TrySend(s) ==
    /\ pc[s] = "send"
    /\ \/ Sendable /\ Send(s)
       \/ /\ ~Sendable
          /\ Goto(s, "g_idle")
          /\ ret' = [ret EXCEPT ![s] = IF s \in Tryers THEN "retry" ELSE "block"]
          /\ UNCHANGED <<chan, job, fate>>
    /\ UNCHANGED <<n, control, seen, next, phase>>

\* The second attempt: push blocks, trySubmit turns the task away.
SendAgain(s) ==
    /\ pc[s] \in {"block", "retry"}
    /\ \/ Sendable /\ Send(s)
       \/ /\ ~Sendable /\ pc[s] = "block"
          /\ sendq' = Append(sendq, s)
          /\ Goto(s, "blocked")
          /\ UNCHANGED <<buf, closed, recvq, ret, job, fate>>
       \/ /\ ~Sendable /\ pc[s] = "retry"
          /\ Refuse(s)
          /\ UNCHANGED <<chan, ret, job>>
    /\ UNCHANGED <<n, control, seen, next, phase>>

Advance(s) ==
    /\ pc[s] = "sent" /\ next[s] < Len(Batch[s])
    /\ next' = [next EXCEPT ![s] = @ + 1]
    /\ Goto(s, "send")
    /\ UNCHANGED <<chan, n, control, seen, ret, job, users>>

Submit(s) ==
    \/ Count(s, "ready", "submitting", 1, "check")
    \/ Check(s) \/ TrySend(s) \/ SendAgain(s) \/ Advance(s) \/ Grow(s)
    \/ next[s] = Len(Batch[s]) /\ Count(s, "sent", "submitting", -1, "done")
    \/ Count(s, "exit", "submitting", -1, "done")

-----------------------------------------------------------------------------
(* A worker.                                                               *)

\* The single-channel poll.  A closed, drained channel sends the worker home.
Poll_Uncounted(w) ==
    /\ pc[w] = "poll"
    /\ \/ Receive(w, "g_idle")
       \/ /\ buf = <<>>
          /\ Goto(w, IF closed THEN "leave" ELSE "select")
          /\ UNCHANGED <<chan, ret, job, fate>>
    /\ UNCHANGED <<n, control, seen, next, phase>>
Poll_NoFanOut(w) ==
    /\ pc[w] = "poll"
    /\ \/ Receive(w, "run")
       \/ /\ buf = <<>>
          /\ Goto(w, IF closed THEN "leave" ELSE "park")
          /\ UNCHANGED <<chan, ret, job, fate>>
    /\ UNCHANGED <<n, control, seen, next, phase>>
Poll(w) ==
    /\ pc[w] = "poll"
    /\ \/ Receive(w, "g_idle")
       \/ /\ buf = <<>>
          /\ Goto(w, IF closed THEN "leave" ELSE "park")
          /\ UNCHANGED <<chan, ret, job, fate>>
    /\ UNCHANGED <<n, control, seen, next, phase>>

\* The select over tasks and retire; nobody ever blocks sending on retire.
Select(w) ==
    /\ pc[w] = "select"
    /\ \/ Receive(w, "woken")
       \/ /\ buf = <<>> /\ closed
          /\ Goto(w, "woken")
          /\ ret' = [ret EXCEPT ![w] = "leave"]
          /\ UNCHANGED <<chan, job, fate>>
       \/ /\ buf = <<>> /\ ~closed
          /\ recvq' = Append(recvq, w)
          /\ Goto(w, "waiting")
          /\ UNCHANGED <<buf, closed, sendq, ret, job, fate>>
    /\ UNCHANGED <<n, control, seen, next, phase>>

\* Out of the select, with a task, a retire message or the close.
Unpark(w) ==
    /\ pc[w] = "woken"
    /\ n' = [n EXCEPT !.idle = @ - 1]
    /\ seen' = [seen EXCEPT ![w] = n.idle - 1]
    /\ Goto(w, "note")
    /\ UNCHANGED <<chan, control, local, users>>

\* The swap loop of noteIdleDrop takes effect at its last swap or load.
NoteIdleDrop(w) ==
    /\ pc[w] = "note"
    /\ n' = [n EXCEPT !.lowIdle = IF seen[w] < @ THEN seen[w] ELSE @]
    /\ seen' = [seen EXCEPT ![w] = 0]
    /\ Goto(w, IF ret[w] = "leave" THEN "leave" ELSE "g_idle")
    /\ UNCHANGED <<chan, control, local, users>>

Run(w) ==
    /\ pc[w] = "run"
    /\ Become(job[w], "running")
    /\ Goto(w, "running")
    /\ UNCHANGED <<chan, n, control, seen, local, phase>>

\* The task returns or panics; executor.call recovers either way.
Return(w) ==
    /\ pc[w] = "running"
    /\ Become(job[w], "done")
    /\ job' = [job EXCEPT ![w] = NoTask]
    /\ ret' = [ret EXCEPT ![w] = "gone"]
    /\ Goto(w, "o_workers")
    /\ UNCHANGED <<chan, n, control, seen, next, phase>>

\* Counted out, the worker grows the pool for what is left and is gone.
RetireOverCeiling(w) ==
    \/ Load(w, "o_workers", n.workers, "o_max")
    \/ Test(w, "o_max", seen[w] > n.max, "o_swap", "poll")
    \/ /\ Swap(w, "o_swap", "workers", -1)
       /\ Goto(w, IF Swapped(w, "workers") THEN "g_idle" ELSE "o_workers")
       /\ UNCHANGED ret

\* Everything a worker does but return from its task, which is up to the task.
WorkerStep(w) ==
    \/ Count(w, "arrive", "waking", -1, "poll")
    \/ Poll(w)
    \/ Count(w, "park", "idle", 1, "select")
    \/ Select(w) \/ Unpark(w) \/ NoteIdleDrop(w) \/ Grow(w)
    \/ Run(w) \/ RetireOverCeiling(w)
    \/ Count(w, "leave", "workers", -1, "gone")

-----------------------------------------------------------------------------
(* shrink, resize and stop, which exclude one another by ctl.              *)

\* retireIdle's message: to the longest waiting worker, or to nobody.
RetireSend(p, end) ==
    /\ pc[p] = "t_send"
    /\ \/ /\ quota > 0 /\ recvq # <<>>
          /\ recvq' = Tail(recvq)
          /\ quota' = quota - 1
          /\ pc' = [pc EXCEPT ![p] = "t_count", ![Head(recvq)] = "woken"]
          /\ ret' = [ret EXCEPT ![Head(recvq)] = "gone"]
       \/ /\ quota = 0 \/ recvq = <<>>
          /\ quota' = 0
          /\ Goto(p, end)
          /\ UNCHANGED <<recvq, ret>>
    /\ UNCHANGED <<buf, closed, sendq, n, stopped, ctl, seen, next, job, users>>

\* The worker that took the message is counted out after it took it.
RetireIdle(p, end) ==
    RetireSend(p, end) \/ Count(p, "t_count", "workers", -1, "t_send")

\* Under the lock: how many retireIdle is called for.
SetQuota(p, from, k) ==
    /\ pc[p] = from
    /\ quota' = IF k > 0 THEN k ELSE 0
    /\ seen' = [seen EXCEPT ![p] = 0]
    /\ Goto(p, "t_send")
    /\ UNCHANGED <<chan, n, stopped, ctl, local, users>>

Unlock(p, from, to) ==
    /\ pc[p] = from
    /\ ctl' = "free"
    /\ Goto(p, to)
    /\ UNCHANGED <<chan, n, stopped, quota, seen, local, users>>

\* The janitor's tick.
ShrinkLock ==
    /\ Shrinks /\ pc[Janitor] = "ready" /\ ctl = "free"
    /\ ctl' = Janitor
    /\ Goto(Janitor, "j_low")
    /\ UNCHANGED <<chan, n, stopped, quota, seen, local, users>>

\* Half of what stayed idle, rounded up, within what is over the floor.
ShrinkBy_PastFloor(low, surplus) == IF low <= 0 THEN 0 ELSE (low + 1) \div 2
ShrinkBy_SparesOne(low, surplus) == IF low <= 0 THEN 0 ELSE surplus - 1
ShrinkBy(low, surplus) ==
    IF low <= 0 THEN 0
    ELSE IF (low + 1) \div 2 < surplus THEN (low + 1) \div 2 ELSE surplus

\* The last store of shrink.
ResetLowIdle ==
    /\ pc[Janitor] = "j_store"
    /\ n' = [n EXCEPT !.lowIdle = seen[Janitor]]
    /\ seen' = [seen EXCEPT ![Janitor] = 0]
    /\ Goto(Janitor, "j_unlock")
    /\ UNCHANGED <<chan, control, local, users>>

Shrink ==
    \/ Load(Janitor, "j_low", n.lowIdle, "j_surplus")
    \/ SetQuota(Janitor, "j_surplus", ShrinkBy(seen[Janitor], n.workers - n.min))
    \/ RetireIdle(Janitor, "j_idle")
    \/ Load(Janitor, "j_idle", n.idle, "j_store")
    \/ ResetLowIdle
    \/ Unlock(Janitor, "j_unlock", "ready")

\* runJanitor leaves between ticks once stop has closed its channel.
JanitorExit ==
    /\ pc[Janitor] = "ready" /\ pc[Stopper] = "s_janitor"
    /\ Goto(Janitor, "done")
    /\ UNCHANGED <<chan, n, control, seen, local, users>>

\* The lock, the look at stopped and the stores of the limits.
ResizeLock ==
    /\ pc[Resizer] = "ready" /\ ctl = "free" /\ Ranges # {}
    /\ ctl' = Resizer
    /\ \/ stopped /\ Goto(Resizer, "r_unlock") /\ UNCHANGED n
       \/ /\ ~stopped
          /\ \E r \in Ranges : n' = [n EXCEPT !.min = r[1], !.max = r[2]]
          /\ Goto(Resizer, "r_fill")
    /\ UNCHANGED <<chan, stopped, quota, seen, local, users>>

\* addWorker; the ceiling does not move under the lock.
ResizeAdd ==
    /\ pc[Resizer] = "r_add"
    /\ \/ n.workers >= n.max /\ Goto(Resizer, "r_excess") /\ UNCHANGED n
       \/ /\ n.workers < n.max
          /\ n' = [n EXCEPT !.workers = @ + 1]
          /\ \E w \in Gone : pc' = [pc EXCEPT ![Resizer] = "r_fill", ![w] = "poll"]
    /\ UNCHANGED <<chan, control, seen, local, users>>

Resize ==
    \/ Test(Resizer, "r_fill", n.workers < n.min, "r_add", "r_excess")
    \/ ResizeAdd
    \/ SetQuota(Resizer, "r_excess", n.workers - n.max)
    \/ RetireIdle(Resizer, "r_unlock")
    \/ Unlock(Resizer, "r_unlock", "done")

StopCall == Stops /\ Test(Stopper, "ready", TRUE, "s_janitor", "s_janitor")

\* Under the lock, once the janitor is gone.
StopMark ==
    /\ pc[Stopper] = "s_janitor" /\ pc[Janitor] = "done" /\ ctl = "free"
    /\ stopped' = TRUE /\ phase' = "stopping"
    /\ Goto(Stopper, "s_wait")
    /\ UNCHANGED <<chan, n, ctl, quota, seen, local, fate>>

\* No submission is in flight: close the queue, which wakes every waiting
\* worker with nothing.
StopClose_Early ==
    /\ pc[Stopper] = "s_wait"
    /\ closed' = TRUE /\ recvq' = <<>>
    /\ pc' = [p \in Procs |-> IF p \in Range(recvq) THEN "woken"
                              ELSE IF p = Stopper THEN "s_join" ELSE pc[p]]
    /\ ret' = [p \in DOMAIN ret |-> IF p \in Range(recvq) THEN "leave" ELSE ret[p]]
    /\ UNCHANGED <<buf, sendq, n, control, seen, next, job, users>>
StopClose_Unheard ==
    /\ pc[Stopper] = "s_wait" /\ n.submitting = 0
    /\ closed' = TRUE
    /\ Goto(Stopper, "s_join")
    /\ UNCHANGED <<buf, recvq, sendq, n, control, ret, seen, next, job, users>>
StopClose ==
    /\ pc[Stopper] = "s_wait" /\ n.submitting = 0
    /\ closed' = TRUE /\ recvq' = <<>>
    /\ pc' = [p \in Procs |-> IF p \in Range(recvq) THEN "woken"
                              ELSE IF p = Stopper THEN "s_join" ELSE pc[p]]
    /\ ret' = [p \in DOMAIN ret |-> IF p \in Range(recvq) THEN "leave" ELSE ret[p]]
    /\ UNCHANGED <<buf, sendq, n, control, seen, next, job, users>>

StopJoin ==
    /\ pc[Stopper] = "s_join" /\ Gone = Workers
    /\ phase' = "stopped"
    /\ Goto(Stopper, "done")
    /\ UNCHANGED <<chan, n, control, seen, local, fate>>

Stop == StopMark \/ StopClose \/ StopJoin

-----------------------------------------------------------------------------
Next ==
    \/ \E s \in Submitters : Submit(s)
    \/ \E w \in Workers : WorkerStep(w) \/ Return(w)
    \/ ShrinkLock \/ Shrink \/ JanitorExit
    \/ ResizeLock \/ Resize
    \/ StopCall \/ Stop

\* The scheduler runs every goroutine that can run, but how long a task takes
\* is up to the task.
Scheduled ==
    /\ \A s \in Submitters : WF_vars(Submit(s))
    /\ \A w \in Workers : WF_vars(WorkerStep(w))
    /\ WF_vars(Shrink) /\ WF_vars(Resize) /\ WF_vars(Stop)

Safe == Init /\ [][Next]_vars
Spec == Safe /\ Scheduled

\* What the properties may ask of the rest: tasks return, the janitor's ticker
\* goes on ticking, and its select, with the stop channel ready each time it
\* comes round, takes it in the end.
TasksReturn == \A w \in Workers : WF_vars(Return(w))
TicksGoOn == WF_vars(ShrinkLock)
StopIsHeard == SF_vars(JanitorExit)

-----------------------------------------------------------------------------
(* Properties.                                                             *)

GrowLabels == {"g_idle", "g_waking", "g_len", "g_reserve", "g_workers", "g_max",
               "g_add", "g_release"}

\* Type correctness of the pool's state.
TypeOK ==
    /\ buf \in Seq(Tasks) /\ Len(buf) <= Capacity
    /\ closed \in BOOLEAN /\ stopped \in BOOLEAN
    /\ recvq \in Seq(Workers) /\ sendq \in Seq(Submitters)
    /\ DOMAIN n = {"workers", "idle", "lowIdle", "waking", "min", "max", "submitting"}
    /\ \A c \in DOMAIN n : n[c] \in Nat
    /\ ctl \in {"free", Janitor, Resizer} /\ quota \in Nat
    /\ next \in [Submitters -> Nat] /\ seen \in [Procs -> Nat]
    /\ job \in [Workers -> Tasks \cup {NoTask}]

Live == {w \in Workers : pc[w] # "gone"}
InGrow == {p \in Submitters \cup Workers : pc[p] \in GrowLabels}
Running == {t \in Tasks : fate[t] = "running"}

\* A task left in the queue always has somebody coming for it: a worker that
\* is awake, or a submission still deciding in grow whether to start one.
NoStranded ==
    buf # <<>> => \/ \E w \in Live : pc[w] # "waiting"
                  \/ InGrow \cap Submitters # {}

\* The lock-free counters agree with the goroutines they count: idle with the
\* workers between their park and their unpark, waking with the workers
\* started and not yet at the queue and the reservations made for them.
CountersExact ==
    /\ n.idle = Cardinality({w \in Workers : pc[w] \in {"select", "waiting", "woken"}})
    /\ n.waking = Cardinality({p \in Submitters \cup Workers :
           pc[p] \in {"arrive", "g_workers", "g_max", "g_add", "g_release"}})
    /\ n.submitting = Cardinality({s \in Submitters : pc[s] \notin {"ready", "done"}})

\* As long as the ceiling is not lowered, no more workers are counted, and no
\* more tasks run at a time, than it allows, whatever submissions, growth,
\* shrinking, resizing and stop interleave.
WithinCeiling ==
    (\A r \in Ranges : r[2] >= Limits[2]) => n.workers <= n.max /\ Cardinality(Running) <= n.max

\* A Stop that has returned has run every task the pool accepted.
StopRanAll == phase = "stopped" => \A t \in Tasks : fate[t] \in {"new", "done", "refused"}

\* The pool is a task pool as its users know it.
Pool == INSTANCE TaskPool
PoolSpec == Pool!Spec

\* Every task the pool accepted is run to its end, as long as tasks end.
AcceptedRuns ==
    TasksReturn => \A t \in Tasks : fate[t] = "accepted" ~> fate[t] = "done"

\* Growth: a queued task starts unless the ceiling's worth of tasks runs, even
\* if none of those ever returns.
FansOut == \A t \in Tasks :
    fate[t] = "accepted" ~> fate[t] # "accepted" \/ Cardinality(Running) >= n.max

\* Resize: a ceiling lowered below the workers there are comes to hold again,
\* though a submission or worker may add one more past it while it is lowered.
CeilingTakesEffect ==
    TasksReturn /\ TicksGoOn => (pc[Resizer] = "r_fill" ~> n.workers <= n.max)

\* A call of Stop returns once the tasks do.
StopReturns ==
    TasksReturn /\ StopIsHeard => (pc[Stopper] = "s_janitor" ~> phase = "stopped")
=============================================================================
