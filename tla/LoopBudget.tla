----------------------------- MODULE LoopBudget -----------------------------
(***************************************************************************)
(* The server-wide budget on queued output (Config.MaxPendingBytes): the   *)
(* workers that charge it and give it back (chargeLocked, subPending,      *)
(* releaseBudget), the reads it pauses (pauseDecision, settlePauseLocked,  *)
(* stallRead, refreshConnection), and the event loop that keeps the        *)
(* connections it holds back and resumes them (resumeBudgetPaused).        *)
(*                                                                         *)
(* A worker holds its connection's mu from its first step to the one that  *)
(* settles the pause.  A refresh asked for is a member of a set: LoopQueue *)
(* shows that it reaches the loop.  The watermark and HoldReads, which     *)
(* Connection models, are off.  A name with a suffix, X_Fault, is a faulty *)
(* variant of X, against which the properties are tried.                   *)
(***************************************************************************)
EXTENDS Integers, Sequences, FiniteSets, SequencesExt, Functions

CONSTANTS
    Conns,      \* connections served by this loop
    MaxPending, \* maxPendingBytes
    MaxCharge,  \* what one connection may have queued
    MaxSends    \* how many sends queue output, in all

Resume == MaxPending \div 4

ASSUME LoopBudgetAssumption ==
    MaxPending \in Nat \ {0} /\ MaxCharge \in Nat \ {0} /\ MaxSends \in Nat

VARIABLES
    total,          \* pendingTotal
    charged,        \* each connection's share of it
    readPaused, readStalled, closed,
    tracked,        \* Connection.budgetPaused
    parked,         \* the loop's list, Engine.budgetPaused
    budgetWaiting, wakePending,
    signal,         \* whether the eventfd will end the loop's wait
    asked, batch,   \* the refreshes queued for the loop, and those it drained
    resuming,       \* the list resumeBudgetPaused goes over
    at,             \* where the loop is
    pc, owed,       \* where each connection's worker is, and what settling owes
    sends           \* how many sends have queued output

state == <<readPaused, readStalled, closed, tracked>>
lists == <<parked, budgetWaiting, resuming>>
wakes == <<wakePending, signal>>
queue == <<asked, batch>>
vars == <<total, charged, state, lists, wakes, queue, at, pc, owed, sends>>

Init ==
    /\ total = 0 /\ charged = [k \in Conns |-> 0]
    /\ readPaused = [k \in Conns |-> FALSE] /\ readStalled = [k \in Conns |-> FALSE]
    /\ closed = [k \in Conns |-> FALSE] /\ tracked = [k \in Conns |-> FALSE]
    /\ parked = <<>> /\ budgetWaiting = FALSE /\ resuming = <<>>
    /\ wakePending = FALSE /\ signal = FALSE /\ asked = {} /\ batch = {} /\ at = "wait"
    /\ pc = [k \in Conns |-> "idle"] /\ owed = [k \in Conns |-> FALSE] /\ sends = 0

\* Whether the budget has reads paused, as the counter stands.
OverBudget == total >= MaxPending

To(k, l) == pc' = [pc EXCEPT ![k] = l]
Unlocked(k) == pc[k] \in {"idle", "ask"}

-----------------------------------------------------------------------------
(* A worker of connection k.                                               *)

\* Output the socket did not take is queued and charged.
Send(k) ==
    /\ pc[k] = "idle" /\ ~closed[k] /\ sends < MaxSends
    /\ \E n \in 1..MaxCharge - charged[k] :
          /\ charged' = [charged EXCEPT ![k] = @ + n]
          /\ total' = total + n
    /\ sends' = sends + 1
    /\ To(k, "settle") /\ owed' = [owed EXCEPT ![k] = FALSE]
    /\ UNCHANGED <<state, lists, wakes, queue, at>>

\* A flush writes n units and gives them back; the crossing of Resume is whose
\* decrement it was.
Flush_All(k) ==
    /\ pc[k] = "idle" /\ ~closed[k]
    /\ \E n \in 1..charged[k] :
          /\ charged' = [charged EXCEPT ![k] = @ - n]
          /\ total' = total - charged[k]
          /\ To(k, "settle")
    /\ owed' = [owed EXCEPT ![k] = FALSE]
    /\ UNCHANGED <<state, lists, wakes, queue, at, sends>>
Flush(k) ==
    /\ pc[k] = "idle" /\ ~closed[k]
    /\ \E n \in 1..charged[k] :
          /\ charged' = [charged EXCEPT ![k] = @ - n]
          /\ total' = total - n
          /\ To(k, IF total > Resume /\ total - n <= Resume THEN "release" ELSE "settle")
    /\ owed' = [owed EXCEPT ![k] = FALSE]
    /\ UNCHANGED <<state, lists, wakes, queue, at, sends>>

Release(k) ==
    /\ pc[k] = "release"
    /\ To(k, IF budgetWaiting THEN "notify" ELSE "settle")
    /\ UNCHANGED <<total, charged, state, lists, wakes, queue, at, owed, sends>>

Notify(k) ==
    \/ /\ pc[k] = "notify"
       /\ wakePending' = TRUE
       /\ To(k, IF wakePending THEN "settle" ELSE "wake")
       /\ UNCHANGED <<total, charged, state, lists, signal, queue, at, owed, sends>>
    \/ /\ pc[k] = "wake"
       /\ signal' = TRUE
       /\ To(k, "settle")
       /\ UNCHANGED <<total, charged, state, lists, wakePending, queue, at, owed, sends>>

\* A round that finds the budget spent stops reading; its read is owed.
StallRead(k) ==
    /\ pc[k] = "idle" /\ ~closed[k] /\ ~readPaused[k] /\ OverBudget
    /\ readStalled' = [readStalled EXCEPT ![k] = TRUE]
    /\ To(k, "settle") /\ owed' = [owed EXCEPT ![k] = TRUE]
    /\ UNCHANGED <<total, charged, readPaused, closed, tracked, lists, wakes, queue, at, sends>>

\* settlePauseLocked: the budget's pauses are left to the loop, and any other is
\* lifted here.  A stalled read goes to the round, if one runs, or to the loop.
SettlePause(k) ==
    /\ pc[k] = "settle"
    /\ \/ /\ OverBudget \/ tracked[k]
          /\ To(k, IF owed[k] \/ OverBudget # readPaused[k] THEN "ask" ELSE "idle")
          /\ UNCHANGED <<readPaused, readStalled>>
       \/ /\ ~OverBudget /\ ~tracked[k]
          /\ readPaused' = [readPaused EXCEPT ![k] = FALSE]
          /\ \/ readStalled' = [readStalled EXCEPT ![k] = FALSE] /\ To(k, "idle")
             \/ ~owed[k] /\ readStalled[k] /\ To(k, "ask") /\ UNCHANGED readStalled
    /\ UNCHANGED <<total, charged, closed, tracked, lists, wakes, queue, at, owed, sends>>

Ask(k) ==
    /\ pc[k] = "ask"
    /\ asked' = asked \cup {k}
    /\ To(k, "idle")
    /\ UNCHANGED <<total, charged, state, lists, wakes, batch, at, owed, sends>>

\* The steps a worker owes once it has begun, and the ones it may begin.
WorkerStep(k) == Release(k) \/ Notify(k) \/ SettlePause(k) \/ Ask(k)
Begin(k) == Send(k) \/ Flush(k) \/ StallRead(k)

-----------------------------------------------------------------------------
(* The loop.                                                               *)

\* refreshConnection, under mu: pause or resume k, hand a stalled read back, and
\* note a connection the budget holds, for the loop to resume.
Refresh(k) ==
    LET track == ~closed[k] /\ OverBudget /\ ~tracked[k] IN
    /\ Unlocked(k)
    /\ readPaused' = [readPaused EXCEPT ![k] = OverBudget]
    /\ readStalled' = [readStalled EXCEPT ![k] = @ /\ OverBudget]
    /\ tracked' = [tracked EXCEPT ![k] = OverBudget /\ (@ \/ track)]
    /\ parked' = IF track THEN Append(parked, k) ELSE parked

Woken ==
    /\ at = "wait" /\ (signal \/ asked # {})
    /\ signal' = FALSE /\ at' = "awake"
    /\ UNCHANGED <<total, charged, state, lists, wakePending, queue, pc, owed, sends>>

WaitSocket ==
    /\ at = "wait" /\ at' = "awake"
    /\ UNCHANGED <<total, charged, state, lists, wakes, queue, pc, owed, sends>>

Awake ==
    /\ at = "awake"
    /\ wakePending' = TRUE /\ at' = "drain"
    /\ UNCHANGED <<total, charged, state, lists, signal, queue, pc, owed, sends>>

DrainCommands ==
    /\ at = "drain"
    /\ batch' = asked /\ asked' = {}
    /\ at' = "run"
    /\ UNCHANGED <<total, charged, state, lists, wakes, pc, owed, sends>>

RefreshConnection(k) ==
    /\ at = "run" /\ k \in batch
    /\ Refresh(k)
    /\ batch' = batch \ {k}
    /\ at' = IF parked' = parked THEN "run" ELSE "mark"
    /\ UNCHANGED <<total, charged, closed, budgetWaiting, resuming, wakes, asked, pc, owed, sends>>

\* The flag follows the list, once mu is free.
MarkWaiting_Silent ==
    /\ at = "mark" /\ at' = "run"
    /\ UNCHANGED <<total, charged, state, lists, wakes, queue, pc, owed, sends>>
MarkWaiting ==
    /\ at = "mark"
    /\ budgetWaiting' = TRUE /\ at' = "run"
    /\ UNCHANGED <<total, charged, state, parked, resuming, wakes, queue, pc, owed, sends>>

\* A close, which the loop carries out, gives back the connection's share; the
\* loop is awake, and looks at the budget before it waits.
MarkClosed_KeepsShare(k) ==
    /\ at = "run" /\ ~closed[k] /\ Unlocked(k)
    /\ closed' = [closed EXCEPT ![k] = TRUE]
    /\ tracked' = [tracked EXCEPT ![k] = FALSE]
    /\ charged' = [charged EXCEPT ![k] = 0]
    /\ UNCHANGED <<total, readPaused, readStalled, lists, wakes, queue, at, pc, owed, sends>>
MarkClosed(k) ==
    /\ at = "run" /\ ~closed[k] /\ Unlocked(k)
    /\ closed' = [closed EXCEPT ![k] = TRUE]
    /\ tracked' = [tracked EXCEPT ![k] = FALSE]
    /\ total' = total - charged[k] /\ charged' = [charged EXCEPT ![k] = 0]
    /\ UNCHANGED <<readPaused, readStalled, lists, wakes, queue, at, pc, owed, sends>>

\* runReady's look at the budget.
ResumeBudgetPaused_Below ==
    /\ at = "run" /\ batch = {}
    /\ \/ /\ parked = <<>> \/ total >= Resume
          /\ at' = "settle" /\ UNCHANGED <<parked, resuming>>
       \/ /\ parked # <<>> /\ total < Resume
          /\ at' = "resume" /\ resuming' = parked /\ parked' = <<>>
    /\ UNCHANGED <<total, charged, state, budgetWaiting, wakes, queue, pc, owed, sends>>
ResumeBudgetPaused ==
    /\ at = "run" /\ batch = {}
    /\ \/ /\ parked = <<>> \/ total > Resume
          /\ at' = "settle" /\ UNCHANGED <<parked, resuming>>
       \/ /\ parked # <<>> /\ total <= Resume
          /\ at' = "resume" /\ resuming' = parked /\ parked' = <<>>
    /\ UNCHANGED <<total, charged, state, budgetWaiting, wakes, queue, pc, owed, sends>>

\* The flag is cleared and the connection refreshed; a worker may come between.
ResumeOne ==
    /\ resuming # <<>>
    /\ LET k == Head(resuming) IN
       \/ /\ at = "resume" /\ Unlocked(k)
          /\ tracked' = [tracked EXCEPT ![k] = FALSE]
          /\ at' = "refresh"
          /\ UNCHANGED <<readPaused, readStalled, closed, lists>>
       \/ /\ at = "refresh"
          /\ Refresh(k)
          /\ resuming' = Tail(resuming)
          /\ budgetWaiting' = (budgetWaiting \/ parked' # parked)
          /\ at' = "resume"
          /\ UNCHANGED closed
    /\ UNCHANGED <<total, charged, wakes, queue, pc, owed, sends>>

Resumed ==
    /\ at = "resume" /\ resuming = <<>>
    /\ budgetWaiting' = (parked # <<>>)
    /\ at' = "settle"
    /\ UNCHANGED <<total, charged, state, parked, resuming, wakes, queue, pc, owed, sends>>

\* settle clears wakePending and then looks for commands, and for nothing else.
SettleClear ==
    /\ at = "settle"
    /\ wakePending' = FALSE /\ at' = "look"
    /\ UNCHANGED <<total, charged, state, lists, signal, queue, pc, owed, sends>>

SettleLook ==
    /\ at = "look"
    /\ at' = IF asked = {} THEN "wait" ELSE "awake"
    /\ UNCHANGED <<total, charged, state, lists, wakes, queue, pc, owed, sends>>

LoopStep ==
    \/ Woken \/ Awake \/ DrainCommands \/ MarkWaiting \/ ResumeBudgetPaused \/ ResumeOne
    \/ Resumed \/ SettleClear \/ SettleLook \/ \E k \in Conns : RefreshConnection(k)

Next ==
    \/ \E k \in Conns : Begin(k) \/ WorkerStep(k) \/ MarkClosed(k)
    \/ LoopStep \/ WaitSocket

Safe == Init /\ [][Next]_vars

\* The loop and a worker in the middle of a call go on; nothing else must happen.
Spec == Safe /\ WF_vars(LoopStep) /\ \A k \in Conns : WF_vars(WorkerStep(k))

\* Sockets of the loop keep becoming ready as well.
Busy == Spec /\ WF_vars(WaitSocket)

-----------------------------------------------------------------------------
(* Properties.                                                             *)

\* Every variable holds a value of its kind; no count goes below zero.
TypeOK ==
    /\ total \in Nat /\ charged \in [Conns -> 0..MaxCharge]
    /\ readPaused \in [Conns -> BOOLEAN] /\ readStalled \in [Conns -> BOOLEAN]
    /\ closed \in [Conns -> BOOLEAN] /\ tracked \in [Conns -> BOOLEAN]
    /\ parked \in Seq(Conns) /\ resuming \in Seq(Conns) /\ budgetWaiting \in BOOLEAN
    /\ wakePending \in BOOLEAN /\ signal \in BOOLEAN /\ asked \subseteq Conns /\ batch \subseteq Conns
    /\ owed \in [Conns -> BOOLEAN]
    /\ pc \in [Conns -> {"idle", "settle", "release", "notify", "wake", "ask"}]

\* The counter is what the open connections have queued: nothing charged is lost,
\* given back twice, or held by a connection that closed.
TotalExact == total = FoldFunction(+, 0, charged)

\* A connection the budget holds back is on the loop's list, and while the loop
\* waits the flag releaseBudget looks at says so.  A paused read is not forgotten:
\* while the loop waits with no refresh asked for or about to be, an open
\* connection whose reads are paused is on the list.
HeldIsListed ==
    /\ \A k \in Conns : tracked[k] => k \in Range(parked) \cup Range(resuming)
    /\ at = "wait" /\ parked # <<>> => budgetWaiting
    /\ \A k \in Conns :
           at = "wait" /\ ~closed[k] /\ readPaused[k] /\ k \notin asked /\ pc[k] = "idle" =>
               k \in Range(parked)

\* Once the budget has drained for good, paused and stalled reads come back.
BudgetResumes ==
    <>[](total <= Resume) =>
        \A k \in Conns : []<>(closed[k] \/ (~readPaused[k] /\ ~readStalled[k]))
=============================================================================
