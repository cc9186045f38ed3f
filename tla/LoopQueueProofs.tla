-------------------------- MODULE LoopQueueProofs --------------------------
(***************************************************************************)
(* Proofs about LoopQueue, for every set of commands, every way they ask   *)
(* for one another and every bound on settle's passes: the coalesced       *)
(* wake-up is never missed, what the loop owns is never changed by two     *)
(* goroutines at once, and Close loses no command that was queued.         *)
(***************************************************************************)
EXTENDS LoopQueue, TLAPS

-----------------------------------------------------------------------------
(* The inductive invariant.                                                *)

\* A wake-up marked pending, while the loop is on its way to the wait, has been
\* written and not been seen, or is about to be written.
WakeBacked ==
    /\ wakePending /\ at \in {"unstarted", "look", "again", "notify", "top", "wait"} =>
           (edge /\ counter) \/ \E p \in Callers : pc[p] = "wake"
    /\ at = "wake" => wakePending

\* What came once the loop had looked is announced: its caller has yet to notify,
\* or somebody has.
Announced ==
    /\ at \in {"unstarted", "top", "wait"} /\ (commands # <<>> \/ redeliver # {}) =>
           wakePending \/ \E p \in Callers : pc[p] = "notify"
    /\ at = "wait" /\ stopping => wakePending \/ \E p \in Callers : pc[p] = "notify"

\* loopMu and loopOwned.
Owned == (direct # {} => ~loopOwned) /\ (at # "unstarted" => loopOwned)

WakeInv ==
    /\ TypeOK /\ WakeBacked /\ Announced /\ Owned
    /\ at = "again" => pass < MaxSettle

-----------------------------------------------------------------------------
\* The wake-up's invariant holds before Run is called.
LEMMA InitWake == Init => WakeInv
<1> SUFFICES ASSUME Init PROVE WakeInv
  OBVIOUS
<1>1. pass \in 0..MaxSettle
  BY LoopQueueAssumption DEF LoopQueueAssumption, Init
<1>2. commands \in Seq(Commands) /\ batch \in Seq(Commands)
  BY DEF Init
<1>3. pc \in [Callers -> {"new", "direct", "notify", "wake", "asked", "refused", "returned"}]
  BY DEF Init
<1>4. TypeOK
  BY <1>1, <1>2, <1>3 DEF Init, TypeOK, Stages
<1>. QED BY <1>4 DEF Init, WakeInv, WakeBacked, Announced, Owned

\* Each step of a caller keeps the wake-up's invariant.
LEMMA CallerWake ==
  ASSUME WakeInv,
         \/ \E k \in Commands : Ask(k) \/ DirectRuns(k) \/ CallReturns(k)
         \/ \E p \in Callers : CallerStep(p)
         \/ StopCall
  PROVE  WakeInv'
<1> USE DEF WakeInv, TypeOK, Stages, Callers, queue, flags, signal, loop
<1>1. CASE \E k \in Commands : RunDirect(k)
  BY <1>1 DEF RunDirect, MayAsk, To, WakeBacked, Announced, Owned
<1>2. CASE \E k \in Commands : Request(k)
  <2> PICK k \in Commands : Request(k)
    BY <1>2
  <2>1. commands' \in Seq(Commands)
    BY DEF Request
  <2>2. TypeOK'
    BY <2>1 DEF Request, MayAsk, To
  <2>3. CASE ~commandsClosed
    <3>1. pc' = [pc EXCEPT ![k] = "notify"] /\ pc[k] = "new"
      BY <2>3 DEF Request, MayAsk, To
    <3>2. UNCHANGED <<flags, signal, loop>>
      BY DEF Request
    <3>3. Announced' /\ WakeBacked'
      BY <3>1, <3>2 DEF WakeBacked, Announced
    <3>. QED BY <2>2, <3>2, <3>3 DEF Owned
  <2>4. CASE commandsClosed
    BY <2>2, <2>4 DEF Request, MayAsk, To, WakeBacked, Announced, Owned
  <2>. QED BY <2>3, <2>4
<1>3. CASE \E k \in Commands : DirectRuns(k)
  BY <1>3 DEF DirectRuns, To, WakeBacked, Announced, Owned
<1>4. CASE \E k \in Commands : CallReturns(k)
  BY <1>4 DEF CallReturns, To, WakeBacked, Announced, Owned
<1>5. CASE \E p \in Callers : Notify(p)
  BY <1>5 DEF Notify, To, WakeBacked, Announced, Owned
<1>6. CASE \E p \in Callers : Wake(p)
  BY <1>6 DEF Wake, To, WakeBacked, Announced, Owned
<1>7. CASE StopCall
  BY <1>7 DEF StopCall, To, WakeBacked, Announced, Owned
<1>. QED BY <1>1, <1>2, <1>3, <1>4, <1>5, <1>6, <1>7 DEF Ask, CallerStep

\* Each step of the loop, of Run's start and of Close, does too.
LEMMA LoopWake ==
  ASSUME WakeInv, LoopStep \/ Start \/ WaitSocket \/ Close
  PROVE  WakeInv'
<1> USE DEF WakeInv, TypeOK, Stages, Callers, queue, flags, signal
<1>1. CASE Top
  BY <1>1 DEF Top, WakeBacked, Announced, Owned
<1>2. CASE WaitWoken
  BY <1>2 DEF WaitWoken, WakeBacked, Announced, Owned
<1>3. CASE Awake
  BY LoopQueueAssumption, <1>3 DEF Awake, WakeBacked, Announced, Owned, LoopQueueAssumption
<1>4. CASE AckWake
  BY <1>4 DEF AckWake, WakeBacked, Announced, Owned
<1>5. CASE Drain
  BY <1>5 DEF Drain, WakeBacked, Announced, Owned
<1>6. CASE Execute
  BY <1>6 DEF Execute, WakeBacked, Announced, Owned
<1>7. CASE Executed
  BY <1>7 DEF Executed, WakeBacked, Announced, Owned
<1>8. CASE Drained
  BY <1>8 DEF Drained, WakeBacked, Announced, Owned
<1>9. CASE RunReady
  BY <1>9 DEF RunReady, WakeBacked, Announced, Owned
<1>10. CASE SettleClear
  BY <1>10 DEF SettleClear, WakeBacked, Announced, Owned
<1>11. CASE SettleLook
  BY LoopQueueAssumption, <1>11 DEF SettleLook, WakeBacked, Announced, Owned, LoopQueueAssumption
<1>12. CASE SettleAgain
  BY LoopQueueAssumption, <1>12 DEF SettleAgain, WakeBacked, Announced, Owned, LoopQueueAssumption
<1>13. CASE SettleNotify
  BY <1>13 DEF SettleNotify, WakeBacked, Announced, Owned
<1>14. CASE SettleWake
  BY <1>14 DEF SettleWake, WakeBacked, Announced, Owned
<1>15. CASE CloseQueue
  BY <1>15 DEF CloseQueue, WakeBacked, Announced, Owned
<1>16. CASE CloseRounds
  BY <1>16 DEF CloseRounds, WakeBacked, Announced, Owned
<1>17. CASE Start
  BY <1>17 DEF Start, Claim, WakeBacked, Announced, Owned
<1>18. CASE WaitSocket
  BY <1>18 DEF WaitSocket, WakeBacked, Announced, Owned
<1>19. CASE Close
  BY <1>19 DEF Close, Claim, WakeBacked, Announced, Owned
<1>. QED BY <1>1, <1>2, <1>3, <1>4, <1>5, <1>6, <1>7, <1>8, <1>9, <1>10, <1>11, <1>12, <1>13, <1>14, <1>15, <1>16, <1>17, <1>18, <1>19 DEF LoopStep

\* The wake-up's invariant holds throughout.
LEMMA WakeInvariant == Safe => []WakeInv
<1>1. ASSUME WakeInv, UNCHANGED vars PROVE WakeInv'
  BY <1>1 DEF vars, queue, flags, signal, loop, WakeInv, TypeOK, WakeBacked, Announced, Owned
<1>2. WakeInv /\ [Next]_vars => WakeInv'
  BY <1>1, CallerWake, LoopWake DEF Next
<1>. QED BY InitWake, <1>2, PTL DEF Safe

\* Every state LoopQueue reaches is well typed.
THEOREM TypeCorrect == Safe => []TypeOK
  BY WakeInvariant, PTL DEF WakeInv

\* The loop never waits over a queued command, an owed round or a Stop without a
\* wake-up on its way: notify and settle together lose none.
THEOREM WakeNeverMissed == Safe => []NoMissedWake
<1>1. WakeInv => NoMissedWake
  BY DEF WakeInv, WakeBacked, Announced, NoMissedWake, WakeComing
<1>. QED BY <1>1, WakeInvariant, PTL

\* What the loop owns is never changed off the loop once the loop, or Close, has
\* claimed it.
THEOREM OneOwner == Safe => []LoopExclusive
<1>1. WakeInv => LoopExclusive
  BY DEF WakeInv, Owned, LoopExclusive
<1>. QED BY <1>1, WakeInvariant, PTL

-----------------------------------------------------------------------------
(* What becomes of a command.                                              *)

Elems(s) == {s[i] : i \in 1..Len(s)}
Accepted(k) == pc[k] \in {"notify", "wake", "asked"}

\* A command queued has run or is still held, and the round it left, if any, has
\* been handed over or is owed.
Kept ==
    \A k \in Commands :
        /\ Accepted(k) => k \in ran \cup Elems(batch) \cup Elems(commands)
        /\ k \in ran \cap Rounds /\ pc[k] # "returned" => k \in handed \cup redeliver

\* The last drain leaves the queue empty, since it is closed before it is drained.
LastDrain ==
    /\ at \in {"final", "closed"} \/ (after = "final" /\ at \in {"drain", "run", "asks"}) =>
           commandsClosed
    /\ at \in {"final", "closed"} \/ (after = "final" /\ at \in {"run", "asks"}) => commands = <<>>
    /\ at \notin {"run", "asks"} => batch = <<>>
    /\ at = "asks" => Head(batch) \in ran
    /\ at = "closed" => redeliver = {}

CloseInv == Kept /\ LastDrain

\* What request's append does to the commands queued.
LEMMA ElemsAppend ==
  ASSUME NEW S, NEW s \in Seq(S), NEW e \in S
  PROVE  Elems(Append(s, e)) = Elems(s) \cup {e}
<1>1. \A x : x \in Elems(Append(s, e)) => x \in Elems(s) \cup {e}
  BY DEF Elems
<1>2. e \in Elems(Append(s, e))
  <2>1. Len(s) + 1 \in 1..Len(Append(s, e)) /\ Append(s, e)[Len(s) + 1] = e
    OBVIOUS
  <2>. QED BY <2>1 DEF Elems
<1>3. ASSUME NEW i \in 1..Len(s) PROVE s[i] \in Elems(Append(s, e))
  <2>1. i \in 1..Len(Append(s, e)) /\ Append(s, e)[i] = s[i]
    OBVIOUS
  <2>. QED BY <2>1 DEF Elems
<1>. QED BY <1>1, <1>2, <1>3 DEF Elems

\* What taking the first of a batch does to the commands left in it.
LEMMA ElemsTail ==
  ASSUME NEW S, NEW s \in Seq(S), s # <<>>
  PROVE  Elems(s) = {Head(s)} \cup Elems(Tail(s))
<1>1. ASSUME NEW i \in 1..Len(s) PROVE s[i] \in {Head(s)} \cup Elems(Tail(s))
  <2>1. CASE i = 1
    BY <2>1
  <2>2. CASE i # 1
    <3>1. i - 1 \in 1..Len(Tail(s)) /\ Tail(s)[i - 1] = s[i]
      BY <2>2
    <3>. QED BY <3>1 DEF Elems
  <2>. QED BY <2>1, <2>2
<1>2. Head(s) \in Elems(s)
  <2>1. 1 \in 1..Len(s) /\ s[1] = Head(s)
    OBVIOUS
  <2>. QED BY <2>1 DEF Elems
<1>3. ASSUME NEW i \in 1..Len(Tail(s)) PROVE Tail(s)[i] \in Elems(s)
  <2>1. i + 1 \in 1..Len(s) /\ s[i + 1] = Tail(s)[i]
    OBVIOUS
  <2>. QED BY <2>1 DEF Elems
<1>. QED BY <1>1, <1>2, <1>3 DEF Elems

\* A drained queue holds no command.
LEMMA ElemsEmpty == Elems(<<>>) = {}
  BY DEF Elems

\* Each step keeps hold of every command queued.
LEMMA StepClose ==
  ASSUME TypeOK, CloseInv, Next
  PROVE  CloseInv'
<1> USE DEF CloseInv, LastDrain, queue, flags, signal, loop, Callers
<1>1. ASSUME NEW k \in Commands, Request(k) PROVE CloseInv'
  <2>1. CASE commandsClosed
    BY <1>1, <2>1 DEF Request, To, TypeOK, Kept, Accepted, MayAsk
  <2>2. CASE ~commandsClosed
    <3>1. Elems(commands') = Elems(commands) \cup {k}
      <4>1. commands' = Append(commands, k) /\ commands \in Seq(Commands)
        BY <1>1, <2>2 DEF Request, TypeOK
      <4>2. Elems(Append(commands, k)) = Elems(commands) \cup {k}
        BY <4>1, ElemsAppend
      <4>. QED BY <4>1, <4>2
    <3>2. pc[k] = "new" /\ pc' = [pc EXCEPT ![k] = "notify"]
      BY <1>1, <2>2 DEF Request, MayAsk, To
    <3>3. UNCHANGED <<ran, batch, handed, redeliver>>
      BY <1>1 DEF Request
    <3>4. Kept'
      BY <3>1, <3>2, <3>3 DEF Kept, Accepted, TypeOK
    <3>. QED BY <1>1, <2>2, <3>4 DEF Request
  <2>. QED BY <2>1, <2>2
<1>2. ASSUME NEW k \in Commands, RunDirect(k) \/ DirectRuns(k) \/ CallReturns(k) PROVE CloseInv'
  BY <1>2 DEF RunDirect, DirectRuns, CallReturns, MayAsk, To, TypeOK, Kept, Accepted
<1>3. ASSUME NEW p \in Callers, CallerStep(p) PROVE CloseInv'
  BY <1>3 DEF CallerStep, Notify, Wake, To, TypeOK, Kept, Accepted
<1>4. CASE StopCall
  BY <1>4, LoopQueueAssumption DEF LoopQueueAssumption, StopCall, To, TypeOK, Kept, Accepted
<1>5. CASE Drain
  BY <1>5, ElemsEmpty DEF Drain, TypeOK, Kept, Accepted
<1>6. CASE Execute
  <2>1. ran' = ran \cup {Head(batch)}
    BY <1>6 DEF Execute
  <2>2. redeliver' = redeliver \cup ({Head(batch)} \cap Rounds)
    BY <1>6 DEF Execute
  <2>3. Kept'
    BY <1>6, <2>1, <2>2 DEF Execute, Kept, Accepted
  <2>. QED BY <1>6, <2>3 DEF Execute
<1>7. CASE Executed
  <2>1. Elems(batch) = {Head(batch)} \cup Elems(batch')
    BY <1>7, ElemsTail DEF Executed, TypeOK
  <2>2. Kept'
    BY <1>7, <2>1 DEF Executed, Kept, Accepted
  <2>. QED BY <1>7, <2>2 DEF Executed
<1>8. CASE Drained
  BY <1>8, ElemsEmpty DEF Drained, TypeOK, Kept, Accepted
<1>9. CASE RunReady \/ CloseRounds
  BY <1>9 DEF RunReady, CloseRounds, Kept, Accepted
<1>10. CASE Start \/ Close
  BY <1>10 DEF Start, Close, Claim, Kept, Accepted
<1>11. CASE Top \/ WaitWoken \/ Awake \/ AckWake \/ WaitSocket \/ CloseQueue
  BY <1>11 DEF Top, WaitWoken, Awake, AckWake, WaitSocket, CloseQueue, Kept, Accepted
<1>12. CASE SettleClear \/ SettleLook \/ SettleAgain \/ SettleNotify \/ SettleWake
  BY <1>12 DEF SettleClear, SettleLook, SettleAgain, SettleNotify, SettleWake, Kept, Accepted
<1> HIDE DEF CloseInv, LastDrain, Callers
<1>. QED BY <1>1, <1>2, <1>3, <1>4, <1>5, <1>6, <1>7, <1>8, <1>9, <1>10, <1>11, <1>12
         DEF Next, Ask, LoopStep

\* Every command request said it queued has run when Close is done with the queue,
\* and its round has been handed over: closing the queue before the last drain
\* leaves no moment at which a command could be queued and never looked at.
THEOREM CloseLosesNone == Safe => []CloseRunsAll
<1>1. Init => CloseInv
  BY ElemsEmpty DEF Init, CloseInv, Kept, LastDrain, Accepted, Callers
<1>2. TypeOK /\ CloseInv /\ [Next]_vars => CloseInv'
  <2>1. ASSUME CloseInv, UNCHANGED vars PROVE CloseInv'
    BY <2>1 DEF CloseInv, Kept, LastDrain, Accepted, vars, queue, flags, signal, loop
  <2>. QED BY <2>1, StepClose
<1>3. CloseInv => CloseRunsAll
  BY ElemsEmpty DEF CloseInv, Kept, LastDrain, Accepted, CloseRunsAll
<1>. QED BY <1>1, <1>2, <1>3, TypeCorrect, PTL DEF Safe
=============================================================================
