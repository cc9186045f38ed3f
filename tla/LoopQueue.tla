----------------------------- MODULE LoopQueue -----------------------------
(***************************************************************************)
(* How other goroutines reach an event loop of core: the command queue     *)
(* (Engine.request, drainCommands), the coalesced wake-up (notify,         *)
(* wakePending, the eventfd behind wake and ackWake), the end of a pass of *)
(* the loop (settle), calls made to run on the loop (runOrQueue, onLoop),  *)
(* and the loop's start and end (runLoop, Stop, Close).                    *)
(*                                                                         *)
(* Each command is asked for by a goroutine of its own, or by the loop as  *)
(* it runs another command.  What a command does is abstracted to that,    *)
(* and to whether it leaves the loop a round to hand over.  A name with a  *)
(* suffix, X_Fault, is a faulty variant of X, against which the properties *)
(* are tried.                                                              *)
(***************************************************************************)
EXTENDS Naturals, Sequences

CONSTANTS
    Commands,   \* the commands that may be asked for, once each
    Asker,      \* [Commands -> Commands \cup {Outside}]
    Outside,    \* a goroutine other than the loop's
    Calls,      \* the commands asked for through onLoop
    Rounds,     \* the commands that leave the loop a round to hand over
    MaxSettle,  \* maxSettleRounds
    Stopper     \* the goroutine that calls Stop

ASSUME LoopQueueAssumption ==
    /\ Asker \in [Commands -> Commands \cup {Outside}] /\ Outside \notin Commands
    /\ Calls \subseteq Commands /\ Rounds \subseteq Commands
    /\ \A k \in Calls : Asker[k] = Outside
    /\ Stopper \notin Commands /\ MaxSettle \in Nat

VARIABLES
    commands,       \* Engine.commands
    commandsClosed, loopOwned, stopping, wakePending,
    counter,        \* whether the eventfd's counter is above zero
    edge,           \* whether epoll has an edge of the eventfd to look at
    at,             \* where the loop is
    after,          \* where the loop goes once it has run what it drained
    pass,           \* how often settle has gone back to the queue
    woken,          \* whether the wait returned the eventfd's event
    batch,          \* the commands drainCommands took
    redeliver,      \* the rounds the loop owes
    direct,         \* the call running off the loop, under loopMu
    pc,             \* where each caller is
    ran, handed     \* the commands run, and the rounds handed over

queue == <<commands, commandsClosed>>
flags == <<loopOwned, stopping, direct>>
signal == <<wakePending, counter, edge>>
loop == <<at, after, pass, woken, batch, redeliver, handed>>
vars == <<queue, flags, signal, loop, pc, ran>>

Callers == Commands \cup {Stopper}

Init ==
    /\ commands = <<>> /\ commandsClosed = FALSE
    /\ loopOwned = FALSE /\ stopping = FALSE /\ direct = {}
    /\ wakePending = FALSE /\ counter = FALSE /\ edge = FALSE
    /\ at = "unstarted" /\ after = "ready" /\ pass = 0 /\ woken = FALSE /\ batch = <<>>
    /\ redeliver = {} /\ handed = {} /\ ran = {}
    /\ pc = [p \in Callers |-> "new"]

-----------------------------------------------------------------------------
(* Callers.                                                                *)

To(p, l) == pc' = [pc EXCEPT ![p] = l]

\* A goroutine asks of its own accord, the loop as it runs what asks.
MayAsk(k) ==
    /\ pc[k] = "new"
    /\ Asker[k] = Outside \/ (at = "asks" /\ Asker[k] = Head(batch))

\* runOrQueue: until the loop is owned the call runs at once, under loopMu.
RunDirect(k) ==
    /\ MayAsk(k) /\ k \in Calls /\ ~loopOwned /\ direct = {}
    /\ direct' = {k}
    /\ To(k, "direct")
    /\ UNCHANGED <<queue, loopOwned, stopping, signal, loop, ran>>

DirectRuns(k) ==
    /\ pc[k] = "direct"
    /\ ran' = ran \cup {k}
    /\ direct' = {}
    /\ To(k, "returned")
    /\ UNCHANGED <<queue, loopOwned, stopping, signal, loop>>

\* request: append the command, unless Close has drained the queue for good.
Request(k) ==
    /\ MayAsk(k) /\ (k \in Calls => loopOwned)
    /\ \/ commandsClosed /\ To(k, "refused") /\ UNCHANGED commands
       \/ ~commandsClosed /\ commands' = Append(commands, k) /\ To(k, "notify")
    /\ UNCHANGED <<commandsClosed, flags, signal, loop, ran>>

\* notify: only the caller that finds no wake-up pending writes one.
Notify(p) ==
    /\ pc[p] = "notify"
    /\ wakePending' = TRUE
    /\ To(p, IF wakePending THEN "asked" ELSE "wake")
    /\ UNCHANGED <<queue, flags, counter, edge, loop, ran>>

Wake(p) ==
    /\ pc[p] = "wake"
    /\ counter' = TRUE /\ edge' = TRUE
    /\ To(p, "asked")
    /\ UNCHANGED <<queue, flags, wakePending, loop, ran>>

\* onLoop returns once the call has run, or once it sees the engine stop.
CallReturns_Waits(k) ==
    /\ k \in Calls /\ pc[k] = "asked" /\ k \in ran
    /\ To(k, "returned")
    /\ UNCHANGED <<queue, flags, signal, loop, ran>>
CallReturns(k) ==
    /\ k \in Calls /\ pc[k] = "asked" /\ (k \in ran \/ stopping)
    /\ To(k, "returned")
    /\ UNCHANGED <<queue, flags, signal, loop, ran>>

StopCall_Silent ==
    /\ pc[Stopper] = "new"
    /\ stopping' = TRUE
    /\ To(Stopper, "asked")
    /\ UNCHANGED <<queue, loopOwned, direct, signal, loop, ran>>
StopCall ==
    /\ pc[Stopper] = "new"
    /\ stopping' = TRUE
    /\ To(Stopper, "notify")
    /\ UNCHANGED <<queue, loopOwned, direct, signal, loop, ran>>

Ask(k) == RunDirect(k) \/ Request(k)
CallerStep(p) == Notify(p) \/ Wake(p)

-----------------------------------------------------------------------------
(* The loop.                                                               *)

\* claimLoop, on Run's goroutine or on Close's, waits for loopMu.
Claim_Unlocked(to) ==
    /\ loopOwned' = TRUE
    /\ at' = to
    /\ UNCHANGED <<queue, stopping, direct, signal, after, pass, woken, batch, redeliver, handed,
                   pc, ran>>
Claim(to) ==
    /\ direct = {}
    /\ loopOwned' = TRUE
    /\ at' = to
    /\ UNCHANGED <<queue, stopping, direct, signal, after, pass, woken, batch, redeliver, handed,
                   pc, ran>>

Start == at = "unstarted" /\ Claim("top")

\* A loop told to stop drains its queue once more and returns from Run.
Top ==
    /\ at = "top"
    /\ \/ stopping /\ at' = "drain" /\ after' = "returned"
       \/ ~stopping /\ at' = "wait" /\ UNCHANGED after
    /\ UNCHANGED <<queue, flags, signal, pass, woken, batch, redeliver, handed, pc, ran>>

\* epoll reports the eventfd when an edge came and the counter is not zero.
WaitWoken ==
    /\ at = "wait" /\ edge
    /\ edge' = FALSE /\ woken' = counter
    /\ at' = IF counter THEN "awake" ELSE "wait"
    /\ UNCHANGED <<queue, flags, wakePending, counter, after, pass, batch, redeliver, handed,
                   pc, ran>>

\* A socket's event ends the wait as well.
WaitSocket ==
    /\ at = "wait"
    /\ at' = "awake" /\ woken' = FALSE
    /\ UNCHANGED <<queue, flags, signal, after, pass, batch, redeliver, handed, pc, ran>>

Awake ==
    /\ at = "awake"
    /\ wakePending' = TRUE /\ pass' = 0
    /\ at' = IF woken THEN "ack" ELSE "ready"
    /\ UNCHANGED <<queue, flags, counter, edge, after, woken, batch, redeliver, handed, pc, ran>>

AckWake ==
    /\ at = "ack"
    /\ counter' = FALSE
    /\ at' = "drain" /\ after' = "ready"
    /\ UNCHANGED <<queue, flags, wakePending, edge, pass, woken, batch, redeliver, handed, pc, ran>>

\* drainCommands takes the queue, and runs what it took.
Drain ==
    /\ at = "drain"
    /\ batch' = commands /\ commands' = <<>>
    /\ at' = "run"
    /\ UNCHANGED <<commandsClosed, flags, signal, after, pass, woken, redeliver, handed, pc, ran>>

Execute ==
    /\ at = "run" /\ batch # <<>>
    /\ ran' = ran \cup {Head(batch)}
    /\ redeliver' = redeliver \cup ({Head(batch)} \cap Rounds)
    /\ at' = "asks"
    /\ UNCHANGED <<queue, flags, signal, after, pass, woken, batch, handed, pc>>

\* What the command asked of the loop in turn has been asked for.
Executed ==
    /\ at = "asks"
    /\ \A k \in Commands : Asker[k] = Head(batch) => pc[k] \in {"asked", "refused"}
    /\ batch' = Tail(batch)
    /\ at' = "run"
    /\ UNCHANGED <<queue, flags, signal, after, pass, woken, redeliver, handed, pc, ran>>

Drained ==
    /\ at = "run" /\ batch = <<>>
    /\ at' = after
    /\ UNCHANGED <<queue, flags, signal, after, pass, woken, batch, redeliver, handed, pc, ran>>

\* runReady hands the rounds over.
RunReady ==
    /\ at = "ready"
    /\ handed' = handed \cup redeliver /\ redeliver' = {}
    /\ at' = "settle"
    /\ UNCHANGED <<queue, flags, signal, after, pass, woken, batch, pc, ran>>

\* settle: let the next request wake the loop, and only then look.
SettleClear ==
    /\ at = "settle"
    /\ wakePending' = FALSE
    /\ at' = "look"
    /\ UNCHANGED <<queue, flags, counter, edge, after, pass, woken, batch, redeliver, handed,
                   pc, ran>>

SettleLook_OffByOne ==
    /\ at = "look"
    /\ at' = IF commands = <<>> /\ redeliver = {} THEN "top"
             ELSE IF pass > MaxSettle THEN "notify" ELSE "again"
    /\ UNCHANGED <<queue, flags, signal, after, pass, woken, batch, redeliver, handed, pc, ran>>
SettleLook_PassOver ==
    /\ at = "look"
    /\ at' = IF pass = MaxSettle \/ (commands = <<>> /\ redeliver = {}) THEN "top" ELSE "again"
    /\ UNCHANGED <<queue, flags, signal, after, pass, woken, batch, redeliver, handed, pc, ran>>
SettleLook ==
    /\ at = "look"
    /\ at' = IF commands = <<>> /\ redeliver = {} THEN "top"
             ELSE IF pass = MaxSettle THEN "notify" ELSE "again"
    /\ UNCHANGED <<queue, flags, signal, after, pass, woken, batch, redeliver, handed, pc, ran>>

SettleAgain ==
    /\ at = "again"
    /\ wakePending' = TRUE /\ pass' = pass + 1
    /\ at' = "drain" /\ after' = "ready"
    /\ UNCHANGED <<queue, flags, counter, edge, woken, batch, redeliver, handed, pc, ran>>

\* Out of passes, the loop wakes itself from the wait it is about to enter.
SettleNotify ==
    /\ at = "notify"
    /\ wakePending' = TRUE
    /\ at' = IF wakePending THEN "top" ELSE "wake"
    /\ UNCHANGED <<queue, flags, counter, edge, after, pass, woken, batch, redeliver, handed,
                   pc, ran>>

SettleWake ==
    /\ at = "wake"
    /\ counter' = TRUE /\ edge' = TRUE
    /\ at' = "top"
    /\ UNCHANGED <<queue, flags, wakePending, after, pass, woken, batch, redeliver, handed, pc, ran>>

\* Close stops the engine, is called once Run has returned, or without a Run, and
\* claims the loop's state.
Close ==
    /\ at \in {"unstarted", "returned"} /\ pc[Stopper] = "asked"
    /\ Claim("close")

\* closeCommands: no request is taken from here on, the queue is drained once
\* more, and the rounds the loop still owes run here.
CloseQueue_DrainOnly ==
    /\ at = "close"
    /\ at' = "drain" /\ after' = "final"
    /\ UNCHANGED <<queue, flags, signal, pass, woken, batch, redeliver, handed, pc, ran>>
CloseQueue ==
    /\ at = "close"
    /\ commandsClosed' = TRUE
    /\ at' = "drain" /\ after' = "final"
    /\ UNCHANGED <<commands, flags, signal, pass, woken, batch, redeliver, handed, pc, ran>>

CloseRounds ==
    /\ at = "final"
    /\ handed' = handed \cup redeliver /\ redeliver' = {}
    /\ at' = "closed"
    /\ UNCHANGED <<queue, flags, signal, after, pass, woken, batch, pc, ran>>

LoopStep ==
    \/ Top \/ WaitWoken \/ Awake \/ AckWake
    \/ Drain \/ Execute \/ Executed \/ Drained \/ RunReady
    \/ SettleClear \/ SettleLook \/ SettleAgain \/ SettleNotify \/ SettleWake
    \/ CloseQueue \/ CloseRounds

Next ==
    \/ \E k \in Commands : Ask(k) \/ DirectRuns(k) \/ CallReturns(k)
    \/ \E p \in Callers : CallerStep(p)
    \/ StopCall \/ Start \/ LoopStep \/ WaitSocket \/ Close

Safe == Init /\ [][Next]_vars

\* A goroutine in the middle of a call goes on, the program calls Run unless it
\* closes the engine first, and the loop goes on.  Nothing obliges anybody to make
\* a call, or a socket to become ready.
Spec ==
    /\ Safe
    /\ \A k \in Commands : /\ WF_vars(DirectRuns(k)) /\ WF_vars(CallReturns(k))
                           /\ WF_vars(Asker[k] # Outside /\ Ask(k))
    /\ \A p \in Callers : WF_vars(CallerStep(p))
    /\ WF_vars(Start) /\ WF_vars(LoopStep)

-----------------------------------------------------------------------------
(* Properties.                                                             *)

Stages == {"unstarted", "top", "wait", "awake", "ack", "drain", "run", "asks", "ready", "settle",
           "look", "again", "notify", "wake", "returned", "close", "final", "closed"}

\* Every variable holds a value of its kind, and settle keeps to its bound.
TypeOK ==
    /\ commands \in Seq(Commands) /\ commandsClosed \in BOOLEAN
    /\ loopOwned \in BOOLEAN /\ stopping \in BOOLEAN /\ direct \in SUBSET Calls
    /\ wakePending \in BOOLEAN /\ counter \in BOOLEAN /\ edge \in BOOLEAN
    /\ at \in Stages /\ after \in {"ready", "returned", "final"} /\ pass \in 0..MaxSettle
    /\ woken \in BOOLEAN /\ batch \in Seq(Commands) /\ (at = "asks" => batch # <<>>)
    /\ redeliver \in SUBSET Rounds /\ handed \in SUBSET Rounds /\ ran \in SUBSET Commands
    /\ pc \in [Callers -> {"new", "direct", "notify", "wake", "asked", "refused", "returned"}]

\* While the loop waits with something to do, a wake-up is on its way: the eventfd
\* will end the wait, or somebody is about to write it.  This is what notify may
\* skip the write for, and settle's order of clearing and looking.
WakeComing == (edge /\ counter) \/ \E p \in Callers : pc[p] \in {"notify", "wake"}
NoMissedWake == at = "wait" /\ (commands # <<>> \/ redeliver # {} \/ stopping) => WakeComing

\* What the loop owns is changed by one goroutine at a time: a call runs off the
\* loop only before the loop, or Close, claims it (runOrQueue, claimLoop).
LoopExclusive == direct # {} => at = "unstarted"

\* A command request said it queued has run by the time Close is done with the
\* queue, and the round it left with it (closeCommands).
CloseRunsAll ==
    at = "closed" => \A k \in Commands : pc[k] \in {"notify", "wake", "asked"} =>
                         k \in ran /\ (k \in Rounds => k \in handed)

\* A command queued while the loop runs is run, and a round it leaves handed over,
\* unless the engine stops.
RequestsRun ==
    \A k \in Commands : pc[k] = "notify" ~> (k \in ran /\ (k \in Rounds => k \in handed)) \/ stopping

\* Stop has a running loop return from Run, one that waits as well (Engine.Stop).
StopEndsRun == stopping /\ at \in {"top", "wait"} ~> at = "returned"

\* onLoop returns: its call has run, or the engine is stopping.
CallsReturn == \A k \in Calls : pc[k] \in {"direct", "notify"} ~> pc[k] = "returned"
=============================================================================
