----------------------------- MODULE ConnState -----------------------------
(***************************************************************************)
(* The state core/connection.go guards with Connection.mu, and what the    *)
(* functions that run under it compute.  Bytes are counted in units: one   *)
(* unit is what one Send carries, and the queue is the sequence of units   *)
(* waiting for the socket, numbered in the order Send accepted them.  The  *)
(* reads pause in place, as on epoll (pausesInPlace), and the server-wide  *)
(* budget is off, its default.  A name with a suffix, X_Fault, is a faulty *)
(* variant of X, against which the properties are tried.                   *)
(***************************************************************************)
EXTENDS Naturals, Sequences

CONSTANTS
    Highs,      \* the Config.WriteBufferHighWatermark to try, 0 for none
    Coalesce    \* Config.CoalesceWrites: read rounds cork their replies

ASSUME ConnStateAssumption == Highs \subseteq Nat /\ Highs # {} /\ Coalesce \in BOOLEAN

\* The readiness bits of the loop that a stream connection acts on; evHup is
\* treated as evRdHup wherever it is looked at.
Events == {"in", "out", "rdhup", "err"}

\* The fields of Connection under mu.  corkedBytes counts the units queued
\* under the cork that pendingBytes does not count yet; high is the watermark
\* of the connection's configuration, which never changes.
ConnType == [
    high : Highs, scheduled : BOOLEAN, pendingEvents : SUBSET Events,
    closing : BOOLEAN, closed : BOOLEAN, closePending : BOOLEAN,
    closeAfterSend : BOOLEAN,
    sends : Seq(Nat), corkedBytes : Nat, corked : BOOLEAN, flushing : BOOLEAN,
    readHeld : BOOLEAN, readPaused : BOOLEAN, readStalled : BOOLEAN,
    readDeferred : BOOLEAN, roundStalled : BOOLEAN, hupOwed : BOOLEAN]

Opened(high) == [
    high |-> high, scheduled |-> FALSE, pendingEvents |-> {},
    closing |-> FALSE, closed |-> FALSE, closePending |-> FALSE,
    closeAfterSend |-> FALSE,
    sends |-> <<>>, corkedBytes |-> 0, corked |-> FALSE, flushing |-> FALSE,
    readHeld |-> FALSE, readPaused |-> FALSE, readStalled |-> FALSE,
    readDeferred |-> FALSE, roundStalled |-> FALSE, hupOwed |-> FALSE]

Ending(d) == d.closing \/ d.closed
PendingBytes(d) == Len(d.sends) - d.corkedBytes

\* foldCorkedLocked
Fold(d) == [d EXCEPT !.corkedBytes = 0]

\* writeLowWatermark
Low(d) == d.high \div 4

\* pauseDecision, with nothing spliced and no server-wide budget.
PauseDecision(d, paused) ==
    \/ d.readHeld
    \/ /\ d.high > 0
       /\ PendingBytes(d) >= d.high \/ (paused /\ PendingBytes(d) > Low(d))

\* settlePauseLocked: the connection after it, and whether the event loop has
\* to settle the rest.  A read owed goes back to the round that is running.
Resettled(d) == [Fold(d) EXCEPT !.readPaused = PauseDecision(Fold(d), d.readPaused)]
HandsBack_Never(d) == FALSE
HandsBack(d) ==
    /\ ~Ending(d) /\ d.readStalled
    /\ ~PauseDecision(Fold(d), d.readPaused)
Settle(d) ==
    IF Ending(d) THEN Fold(d)
    ELSE IF HandsBack(d) /\ d.scheduled
    THEN [Resettled(d) EXCEPT !.readStalled = FALSE, !.pendingEvents = @ \cup {"in"}]
    ELSE Resettled(d)
NeedsLoop(d) == HandsBack(d) /\ ~d.scheduled

\* canWriteDirectlyLocked: whether a send may go straight to the socket.
CanWriteDirectly_PastQueue(d) == ~d.flushing /\ ~d.corked
CanWriteDirectly(d) == d.sends = <<>> /\ ~d.flushing /\ ~d.corked

\* closeAfterSendRaw's closeNow: nothing accepted is left to write.
CloseNow_PastQueue(d) == ~d.flushing
CloseNow(d) == d.sends = <<>> /\ ~d.flushing

\* beginReadLocked
BeginRead(d) == [d EXCEPT !.corked = @ \/ Coalesce, !.readStalled = FALSE,
                          !.readDeferred = FALSE, !.roundStalled = FALSE]

\* consumeLocked and subPending: the socket took n units.
Consume(d, n) == [Fold(d) EXCEPT !.sends = SubSeq(@, n + 1, Len(@))]

\* The readiness a round takes: the end of input owed comes with the input.
Taken_EndLost(d, pending) == pending
Taken(d, pending) ==
    IF d.hupOwed /\ "in" \in pending THEN pending \cup {"rdhup"} ELSE pending

\* noteEvent has nothing to schedule a round for: no readiness is left, or only
\* a write edge on a connection with nothing queued.
NothingDue_OutputLeft(d, left) == left \subseteq {"out"} /\ d.pendingEvents = {}
NothingDue(d, left) ==
    \/ left = {}
    \/ left = {"out"} /\ d.sends = <<>> /\ d.pendingEvents = {}

\* The queue has drained: the flush is over, and a read a round left to it is
\* owed as a stalled one is.
Drained_ReadLost(d) == [d EXCEPT !.flushing = FALSE, !.readDeferred = FALSE]
Drained(d) == [d EXCEPT !.flushing = FALSE, !.readDeferred = FALSE,
                        !.readStalled = @ \/ d.readDeferred]

\* A write stopped short: the flush is over with output left.
Blocked(d) == [Fold(d) EXCEPT !.flushing = FALSE]

\* markClosedLocked
MarkClosed_CorkCounted(d) == [d EXCEPT !.closed = TRUE, !.closing = TRUE, !.sends = <<>>]
MarkClosed(d) == [d EXCEPT !.closed = TRUE, !.closing = TRUE, !.sends = <<>>,
                           !.corkedBytes = 0]

\* A round gives the connection up, by process's stop, its panic recovery or
\* submitReady's refusal.
Release_StaysScheduled(d) == [d EXCEPT !.closePending = FALSE]
Release(d) == [d EXCEPT !.scheduled = FALSE, !.closePending = FALSE]

=============================================================================
