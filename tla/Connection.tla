---------------------------- MODULE Connection ----------------------------
(***************************************************************************)
(* One TCP connection of core: the rounds the task pool runs for it        *)
(* (Connection.process), the application's calls on it from goroutines of  *)
(* its own or from inside OnData, its socket, and the event loop that      *)
(* schedules its rounds and carries out its close, through Engine.Close.   *)
(* A step is one critical section of Connection.mu, or one system call or  *)
(* handler call made outside it.  Requests to the loop are an appended     *)
(* command; LoopQueue shows that an appended command reaches the loop.     *)
(* A name with a suffix, X_Fault, is a faulty variant of X.                *)
(***************************************************************************)
EXTENDS ConnState, FiniteSets, SequencesExt

CONSTANTS
    Rounds,     \* the tasks a connection could run as; two, to tell overlap
    Apps,       \* goroutines of the application
    Calls,      \* the calls they make, of "send", "sendowned", "flush", "cork",
                \* "hold", "close", "closeaftersend"
    MaxCalls,   \* how many calls they make in all
    MaxInput,   \* units the peer sends
    Room,       \* units the socket's send buffer takes
    Faults,     \* what may happen, of "fin", "reset", "panic", "refuse", "stop"
    Loop        \* the goroutine of Run, and of Close after it

Procs == Rounds \cup Apps \cup {Loop}

ASSUME ConnectionAssumption ==
    /\ Rounds \cap Apps = {} /\ Loop \notin Rounds \cup Apps
    /\ MaxCalls \in Nat /\ MaxInput \in Nat /\ Room \in Nat \ {0}

VARIABLES
    c,          \* the connection's fields under mu
    sock,       \* the socket, as the kernel holds it
    wire,       \* the units the socket took, in order
    accepted,   \* how many units Send accepted
    pc, ret,    \* where each goroutine is, and where its procedure returns to
    events,     \* the readiness a round took
    deferred,   \* the readiness a round observed and left
    failed,     \* the error result of a goroutine's procedure
    commands,   \* Engine.commands
    shut,       \* Engine.commandsClosed
    batch,      \* the commands the loop is carrying out
    report,     \* the readiness the loop's wait returned
    ready, redeliver,   \* the rounds the loop is to submit
    stopping,   \* Engine.stopping
    cut,        \* the connection is on Engine.cut
    open,       \* the connection's descriptor is open
    told,       \* how often OnClose was called
    calls, sent \* how many calls the application made, and units the peer sent

connVars == <<c, wire, accepted, failed>>
roundVars == <<events, deferred>>
loopVars == <<shut, batch, report, ready, redeliver, stopping, cut>>
endVars == <<open, told>>
envVars == <<calls, sent>>
vars == <<c, sock, wire, accepted, pc, ret, events, deferred, failed, commands, shut, batch,
          report, ready, redeliver, stopping, cut, open, told, calls, sent>>

Goto(p, l) == pc' = [pc EXCEPT ![p] = l] /\ UNCHANGED ret
Call(p, l, back) ==
    /\ pc' = [pc EXCEPT ![p] = l]
    /\ ret' = [ret EXCEPT ![p] = IF l = back THEN "idle" ELSE back]
Return(p) == pc' = [pc EXCEPT ![p] = ret[p]] /\ ret' = [ret EXCEPT ![p] = "idle"]

Test(p, b, yes, no) == Goto(p, IF b THEN yes ELSE no)

\* Engine.request: nothing is queued once the queue has closed.
Request(kind) == commands' = IF shut THEN commands ELSE Append(commands, kind)

Init ==
    /\ c \in {Opened(high) : high \in Highs}
    /\ sock = [in |-> 0, fin |-> FALSE, dead |-> FALSE, room |-> Room,
               full |-> FALSE, edge |-> TRUE]
    /\ wire = <<>> /\ accepted = 0
    /\ pc = [p \in Procs |-> IF p = Loop THEN "wait" ELSE "idle"]
    /\ ret = [p \in Procs |-> "idle"]
    /\ events = [r \in Rounds |-> {}] /\ deferred = [r \in Rounds |-> {}]
    /\ failed = [p \in Procs |-> FALSE]
    /\ commands = <<>> /\ shut = FALSE /\ batch = <<>> /\ report = {}
    /\ ready = 0 /\ redeliver = 0
    /\ stopping = FALSE /\ cut = FALSE /\ open = TRUE /\ told = 0
    /\ calls = 0 /\ sent = 0

----------------------------------------------------------------------------
(* The socket and its peer.  An edge-triggered descriptor reports all its  *)
(* present readiness once something raised an edge; a peer taking output   *)
(* raises one only if a write found the buffer full.                       *)

Readiness ==
    {e \in Events :
        \/ e = "in" /\ (sock.in > 0 \/ sock.fin \/ sock.dead)
        \/ e = "out" /\ (sock.room > 0 \/ sock.dead)
        \/ e = "rdhup" /\ (sock.fin \/ sock.dead)
        \/ e = "err" /\ sock.dead}

PeerSends ==
    /\ sent < MaxInput /\ ~sock.fin /\ ~sock.dead /\ open
    /\ sock' = [sock EXCEPT !.in = @ + 1, !.edge = TRUE]
    /\ sent' = sent + 1
    /\ UNCHANGED <<connVars, pc, ret, roundVars, commands, loopVars, endVars, calls>>

PeerReads ==
    /\ sock.room < Room /\ ~sock.dead /\ open
    /\ sock' = [sock EXCEPT !.room = @ + 1, !.full = FALSE, !.edge = @ \/ sock.full]
    /\ UNCHANGED <<connVars, pc, ret, roundVars, commands, loopVars, endVars, envVars>>

PeerEnds ==
    /\ open /\ ~sock.dead
    /\ \/ /\ "fin" \in Faults /\ ~sock.fin
          /\ sock' = [sock EXCEPT !.fin = TRUE, !.edge = TRUE]
       \/ /\ "reset" \in Faults
          /\ sock' = [sock EXCEPT !.dead = TRUE, !.in = 0, !.edge = TRUE]
    /\ UNCHANGED <<connVars, pc, ret, roundVars, commands, loopVars, endVars, envVars>>

Peer == PeerSends \/ PeerReads \/ PeerEnds

----------------------------------------------------------------------------
(* Closing, which any goroutine may ask for.                               *)

\* closeWithError's critical section; the first caller asks the loop to close.
CloseWithError(p) ==
    /\ pc[p] = "closing"
    /\ c' = [c EXCEPT !.closing = TRUE]
    /\ IF Ending(c) THEN Return(p) ELSE Goto(p, "request close")
    /\ UNCHANGED <<sock, wire, accepted, failed, roundVars, commands, loopVars, endVars, envVars>>

RequestClose(p) ==
    /\ pc[p] = "request close"
    /\ Request("close")
    /\ Return(p)
    /\ UNCHANGED <<connVars, sock, roundVars, loopVars, endVars, envVars>>

RequestRefresh(p) ==
    /\ pc[p] = "request refresh"
    /\ Request("refresh")
    /\ Return(p)
    /\ UNCHANGED <<connVars, sock, roundVars, loopVars, endVars, envVars>>

\* finishClose: OnClose, and then the loop is asked to release the descriptor,
\* which is released here if the loop's queue has closed.
OnClose(p) ==
    /\ pc[p] = "finish close"
    /\ told' = told + 1
    /\ Goto(p, "in OnClose")
    /\ UNCHANGED <<connVars, sock, roundVars, commands, loopVars, open, envVars>>

RequestDetach(p) ==
    /\ pc[p] = "in OnClose"
    /\ Request("detach")
    /\ open' = (open /\ ~shut)
    /\ Return(p)
    /\ UNCHANGED <<connVars, sock, roundVars, loopVars, told, envVars>>

Closing(p) == CloseWithError(p) \/ RequestClose(p) \/ OnClose(p) \/ RequestDetach(p)

----------------------------------------------------------------------------
(* Writing.  flushLocked and its callers; a batch of one writev is some     *)
(* number of units, and the lock is let go between batches.                *)

\* The error result joins what the goroutine already carries.
Fail(p) == failed' = [failed EXCEPT ![p] = TRUE]

\* The flush found the queue empty.  It returns to back unless it still has
\* the close after the send, or a refresh, to ask for.
FlushDrained(p, d, back) ==
    LET e == Drained(d) IN
    /\ c' = Settle(e)
    /\ Call(p, IF e.closeAfterSend THEN "closing"
               ELSE IF NeedsLoop(e) THEN "request refresh" ELSE back, back)

\* One write of flushLocked's loop and what follows it under the same lock, for
\* a connection d that is flushing.
FlushWrite(p, d, back) ==
    \/ /\ d.sends = <<>>
       /\ FlushDrained(p, d, back)
       /\ UNCHANGED <<sock, wire, failed>>
    \/ /\ d.sends # <<>> /\ sock.dead
       /\ c' = [d EXCEPT !.flushing = FALSE]
       /\ Fail(p)
       /\ Call(p, "closing", back)
       /\ UNCHANGED <<sock, wire>>
    \/ \E k \in 1..Len(d.sends) :
       LET n == IF k <= sock.room THEN k ELSE sock.room
           e == Consume(d, n)
           b == Blocked(e)
       IN  /\ ~sock.dead
           /\ wire' = wire \o SubSeq(d.sends, 1, n)
           /\ sock' = [sock EXCEPT !.room = @ - n, !.full = @ \/ n < k]
           /\ IF n < k
              THEN /\ c' = Settle(b)
                   /\ Call(p, IF NeedsLoop(b) THEN "request refresh" ELSE back, back)
              ELSE IF e.sends = <<>> THEN FlushDrained(p, e, back)
              ELSE c' = e /\ Call(p, "flushing", back)
           /\ UNCHANGED failed

\* flushLocked, by a goroutine that holds mu and a connection d.
FlushLocked(p, d, back) ==
    \/ /\ Ending(d)
       /\ c' = d /\ Fail(p)
       /\ Call(p, back, back)
       /\ UNCHANGED <<sock, wire>>
    \/ /\ ~Ending(d) /\ d.flushing
       /\ c' = Fold(d)
       /\ Call(p, back, back)
       /\ UNCHANGED <<sock, wire, failed>>
    \/ /\ ~Ending(d) /\ ~d.flushing
       /\ FlushWrite(p, [d EXCEPT !.flushing = TRUE], back)

\* flushLocked takes the lock back after a batch.
FlushOn(p) ==
    /\ pc[p] = "flushing"
    /\ FlushWrite(p, c, ret[p])
    /\ UNCHANGED <<accepted, roundVars, commands, loopVars, endVars, envVars>>

\* uncork
Uncork(p, back) ==
    LET d == [Fold(c) EXCEPT !.corked = FALSE] IN
    IF c.corked /\ c.sends # <<>> THEN FlushLocked(p, d, back)
    ELSE /\ c' = d
         /\ Call(p, back, back)
         /\ UNCHANGED <<sock, wire, failed>>

----------------------------------------------------------------------------
(* The application's calls.                                                *)

\* send, of data to copy or of data handed over.
Send(p, owned) ==
    LET id == accepted + 1
        direct == CanWriteDirectly(c)
        queued == [c EXCEPT !.sends = Append(@, id)]
    IN
    /\ ~Ending(c) /\ ~c.closeAfterSend
    /\ \/ /\ c.corked
          /\ c' = IF owned THEN queued ELSE [queued EXCEPT !.corkedBytes = @ + 1]
          /\ accepted' = id
          /\ Goto(p, "idle")
          /\ UNCHANGED <<sock, wire>>
       \/ /\ direct /\ sock.dead
          /\ Call(p, "closing", "idle")
          /\ UNCHANGED <<c, sock, wire, accepted>>
       \/ /\ direct /\ ~sock.dead /\ sock.room > 0
          /\ wire' = Append(wire, id)
          /\ sock' = [sock EXCEPT !.room = @ - 1]
          /\ accepted' = id
          /\ Goto(p, "idle")
          /\ UNCHANGED c
       \/ /\ ~c.corked /\ (direct => ~sock.dead /\ sock.room = 0)
          /\ c' = Settle(queued)
          /\ sock' = [sock EXCEPT !.full = @ \/ direct]
          /\ accepted' = id
          /\ Call(p, IF NeedsLoop(queued) THEN "request refresh" ELSE "idle", "idle")
          /\ UNCHANGED wire
    /\ UNCHANGED failed

Cork(p) == c' = [c EXCEPT !.corked = TRUE]
           /\ Goto(p, "idle") /\ UNCHANGED <<sock, wire, accepted, failed>>

\* HoldReads(true); the flag is atomic and not under mu.
HoldReads(p) ==
    /\ ~c.readHeld
    /\ c' = [c EXCEPT !.readHeld = TRUE]
    /\ Call(p, "request refresh", "holding")
    /\ UNCHANGED <<sock, wire, accepted, failed>>

\* CloseAfterSend looks at the cork first.
CloseAfterSend(p) ==
    /\ Test(p, c.corked, "uncork", "closeaftersend")
    /\ failed' = [failed EXCEPT ![p] = FALSE]
    /\ UNCHANGED <<c, sock, wire, accepted>>

AppCall(p) ==
    /\ pc[p] = "idle" /\ calls < MaxCalls
    /\ calls' = calls + 1
    /\ \/ "send" \in Calls /\ Send(p, FALSE)
       \/ "sendowned" \in Calls /\ Send(p, TRUE)
       \/ "flush" \in Calls /\ Uncork(p, "idle") /\ UNCHANGED accepted
       \/ "cork" \in Calls /\ Cork(p)
       \/ "hold" \in Calls /\ HoldReads(p)
       \/ "closeaftersend" \in Calls /\ CloseAfterSend(p)
       \/ "close" \in Calls /\ Call(p, "closing", "idle")
          /\ UNCHANGED <<c, sock, wire, accepted, failed>>
    /\ UNCHANGED <<roundVars, commands, loopVars, endVars, sent>>

\* HoldReads(false), by the goroutine that held the reads.
ReleaseReads(p) ==
    /\ pc[p] = "holding"
    /\ c' = [c EXCEPT !.readHeld = FALSE]
    /\ Call(p, "request refresh", "idle")
    /\ UNCHANGED <<sock, wire, accepted, failed, roundVars, commands, loopVars, endVars, envVars>>

\* CloseAfterSend takes the cork off, and a flush that fails ends it.
UncorkToClose(p) ==
    \/ /\ pc[p] = "uncork"
       /\ Uncork(p, "uncorked")
       /\ UNCHANGED <<accepted, roundVars, commands, loopVars, endVars, envVars>>
    \/ /\ pc[p] = "uncorked"
       /\ failed' = [failed EXCEPT ![p] = FALSE]
       /\ IF failed[p] THEN Call(p, "closing", "idle") ELSE Goto(p, "closeaftersend")
       /\ UNCHANGED <<c, sock, wire, accepted, roundVars, commands, loopVars, endVars, envVars>>

\* closeAfterSendRaw
CloseAfterSendRaw(p) ==
    /\ pc[p] = "closeaftersend"
    /\ c' = IF Ending(c) THEN c ELSE [c EXCEPT !.closeAfterSend = TRUE]
    /\ IF ~Ending(c) /\ ~c.closeAfterSend /\ CloseNow(c)
       THEN Call(p, "closing", "idle") ELSE Goto(p, "idle")
    /\ UNCHANGED <<sock, wire, accepted, failed, roundVars, commands, loopVars, endVars, envVars>>

App(p) ==
    \/ ReleaseReads(p) \/ UncorkToClose(p) \/ CloseAfterSendRaw(p)
    \/ FlushOn(p) \/ RequestRefresh(p) \/ Closing(p)

----------------------------------------------------------------------------
(* A round: Connection.process, from the task that runs it to its stop.     *)

roundUnchanged == UNCHANGED <<accepted, commands, loopVars, endVars, envVars>>

\* The top of the loop of process.  The round stops when nothing but deferred
\* readiness is left and output is queued that it waits for; otherwise it takes
\* the readiness, and begins its read under the same lock if it can.
RoundTop(r) ==
    LET pending == c.pendingEvents \cup deferred[r]
        stop == pending = deferred[r] /\ (pending = {} \/ c.sends # <<>>)
        taken == Taken(c, pending)
        d == [c EXCEPT !.pendingEvents = {}, !.roundStalled = FALSE,
                       !.hupOwed = @ /\ "in" \notin pending]
        readNow == ~Ending(c) /\ "in" \in pending /\ c.sends = <<>>
    IN
    /\ pc[r] = "top"
    /\ \/ /\ stop
          /\ c' = [Release(c) EXCEPT !.pendingEvents = pending,
                      !.readDeferred = pending # {}, !.hupOwed = @ \/ "rdhup" \in pending]
          /\ Call(r, IF c.closePending THEN "finish close" ELSE "idle", "idle")
          /\ events' = [events EXCEPT ![r] = {}]
       \/ /\ ~stop
          /\ c' = IF readNow THEN BeginRead(d) ELSE d
          /\ Goto(r, IF Ending(c) THEN "top" ELSE IF readNow THEN "read"
                     ELSE IF "out" \in taken THEN "out" ELSE "in")
          /\ events' = [events EXCEPT ![r] = IF Ending(c) THEN {} ELSE taken]
    /\ deferred' = [deferred EXCEPT ![r] = {}]
    /\ failed' = [failed EXCEPT ![r] = FALSE]
    /\ UNCHANGED <<sock, wire>> /\ roundUnchanged

\* hasFlushableOutput, and then flushOutput.
RoundFlush(r) ==
    /\ \/ /\ pc[r] = "out"
          /\ Test(r, c.sends # <<>> /\ ~c.corked, "flush", "in")
          /\ UNCHANGED <<c, sock, wire, failed>>
       \/ /\ pc[r] = "flush"
          /\ FlushLocked(r, c, "in")
    /\ UNCHANGED roundVars /\ roundUnchanged

\* hasQueuedOutput: the read is put off while there is no watermark and output
\* is queued.  With a watermark, readShouldStop decides, without the lock.
RoundInput(r) ==
    /\ \/ /\ pc[r] = "in" /\ (failed[r] \/ "in" \notin events[r])
          /\ Goto(r, "end") /\ UNCHANGED <<c, deferred>>
       \/ /\ pc[r] = "in" /\ ~failed[r] /\ "in" \in events[r]
          /\ c' = Fold(c)
          /\ Goto(r, IF c.sends = <<>> THEN "begin" ELSE IF c.high = 0 THEN "defer" ELSE "weigh")
          /\ UNCHANGED deferred
       \/ /\ pc[r] = "weigh"
          /\ Test(r, PauseDecision(c, FALSE), "defer", "begin")
          /\ UNCHANGED <<c, deferred>>
       \/ /\ pc[r] = "defer"
          /\ deferred' = [deferred EXCEPT ![r] = {"in"} \cup (events[r] \cap {"rdhup"})]
          /\ Goto(r, "end") /\ UNCHANGED c
       \/ /\ pc[r] = "begin"
          /\ c' = BeginRead(c)
          /\ Goto(r, "read") /\ UNCHANGED deferred
    /\ UNCHANGED <<sock, wire, failed, events>> /\ roundUnchanged

\* One turn of readLoop up to the handler.  A short read, which empties the
\* socket, ends the round; a full one may have left input behind.
RoundRead(r) ==
    /\ pc[r] = "read"
    /\ \/ /\ c.readHeld
          /\ Goto(r, "stall") /\ UNCHANGED <<sock, failed>>
       \/ /\ ~c.readHeld /\ ~sock.dead /\ sock.in > 0
          /\ \/ sock' = [sock EXCEPT !.in = 0] /\ Goto(r, "OnData")
             \/ sock' = [sock EXCEPT !.in = @ - 1] /\ Goto(r, "OnData full")
          /\ UNCHANGED failed
       \/ /\ ~c.readHeld /\ (sock.dead \/ sock.in = 0)
          /\ failed' = [failed EXCEPT ![r] = sock.dead \/ sock.fin]
          /\ Goto(r, "uncork") /\ UNCHANGED sock
    /\ UNCHANGED <<c, wire, roundVars>> /\ roundUnchanged

\* The handler returns.  A round that has read long settles what it holds.
OnDataReturns(r) ==
    /\ \/ pc[r] = "OnData" /\ Goto(r, "uncork")
       \/ pc[r] = "OnData full" /\ \E l \in {"charge", "long"} : Goto(r, l)
    /\ UNCHANGED <<c, sock, wire, failed, roundVars>> /\ roundUnchanged

\* The handler panics, and process's recovery gives the connection up.
OnDataPanics_CloseLost(r) ==
    /\ "panic" \in Faults /\ pc[r] \in {"OnData", "OnData full"}
    /\ c' = Release(c)
    /\ Call(r, "closing", "idle")
    /\ events' = [events EXCEPT ![r] = {}]
    /\ UNCHANGED <<sock, wire, failed, deferred>> /\ roundUnchanged
OnDataPanics(r) ==
    /\ "panic" \in Faults /\ pc[r] \in {"OnData", "OnData full"}
    /\ c' = Release(c)
    /\ Call(r, IF c.closePending THEN "finish close" ELSE "closing", "idle")
    /\ events' = [events EXCEPT ![r] = {}]
    /\ UNCHANGED <<sock, wire, failed, deferred>> /\ roundUnchanged

\* settleLongRound
SettleLongRound(r) ==
    /\ \/ /\ pc[r] = "long" /\ Coalesce
          /\ Uncork(r, "long settled")
       \/ /\ (pc[r] = "long" /\ ~Coalesce) \/ pc[r] = "long settled"
          /\ IF failed[r] \/ Ending(c) THEN Goto(r, "uncork") /\ UNCHANGED c
             ELSE Goto(r, "charge") /\ c' = [c EXCEPT !.corked = @ \/ Coalesce]
          /\ UNCHANGED <<sock, wire, failed>>
    /\ UNCHANGED roundVars /\ roundUnchanged

\* After a full read: chargeRound, readShouldStop, and before the round stops
\* the flush that says whether the peer is behind.
RoundJudge(r) ==
    /\ \/ /\ pc[r] = "charge"
          /\ c' = Fold(c)
          /\ Test(r, PauseDecision(Fold(c), FALSE), "stop", "read")
          /\ UNCHANGED <<sock, wire, failed>>
       \/ /\ pc[r] = "stop"
          /\ Uncork(r, "stopped")
       \/ /\ pc[r] = "stopped"
          /\ IF failed[r] THEN Goto(r, "uncork") /\ UNCHANGED c
             ELSE IF PauseDecision(c, FALSE) THEN Goto(r, "stall") /\ UNCHANGED c
             ELSE Goto(r, "read") /\ c' = [c EXCEPT !.corked = @ \/ Coalesce]
          /\ UNCHANGED <<sock, wire, failed>>
    /\ UNCHANGED roundVars /\ roundUnchanged

\* stallRead
StallRead(r, d, back) ==
    LET e == [d EXCEPT !.readStalled = TRUE] IN
    /\ c' = Settle(e)
    /\ Call(r, IF NeedsLoop(e) THEN "request refresh" ELSE back, back)

\* The read stops short, for a hold or for the write budget.
RoundStall_Unmarked(r) ==
    /\ pc[r] = "stall"
    /\ StallRead(r, c, "uncork")
    /\ UNCHANGED <<sock, wire, failed, roundVars>> /\ roundUnchanged
RoundStall(r) ==
    /\ pc[r] = "stall"
    /\ StallRead(r, [c EXCEPT !.roundStalled = TRUE], "uncork")
    /\ UNCHANGED <<sock, wire, failed, roundVars>> /\ roundUnchanged

\* readRound's own uncork
RoundUncork(r) ==
    /\ pc[r] = "uncork"
    /\ Uncork(r, "end")
    /\ UNCHANGED roundVars /\ roundUnchanged

\* The rest of process's loop: an error, or the end of input, closes; an end
\* that may have input before it still unread is owed with that input.
RoundEnd(r) ==
    LET hup == "rdhup" \in events[r] \ deferred[r] IN
    /\ \/ /\ pc[r] = "end" /\ (failed[r] \/ "err" \in events[r])
          /\ Call(r, "closing", "top") /\ UNCHANGED c
       \/ /\ pc[r] = "end" /\ ~failed[r] /\ "err" \notin events[r]
          /\ IF ~hup THEN Goto(r, "top")
             ELSE IF c.readHeld \/ c.roundStalled THEN Goto(r, "owe")
             ELSE Call(r, "closing", "top")
          /\ UNCHANGED c
       \/ /\ pc[r] = "owe"
          /\ c' = [c EXCEPT !.hupOwed = TRUE]
          /\ Goto(r, "owed")
       \/ /\ pc[r] = "owed"
          /\ StallRead(r, c, "top")
    /\ UNCHANGED <<sock, wire, failed, roundVars>> /\ roundUnchanged

Round(r) ==
    \/ RoundTop(r) \/ RoundFlush(r) \/ RoundInput(r) \/ RoundRead(r) \/ OnDataReturns(r)
    \/ SettleLongRound(r) \/ RoundJudge(r) \/ RoundStall(r) \/ RoundUncork(r) \/ RoundEnd(r)
    \/ FlushOn(r) \/ RequestRefresh(r) \/ Closing(r)

----------------------------------------------------------------------------
(* The event loop, and Close after it on the same goroutine.  A pass notes   *)
(* the readiness its wait returned, carries out commands, and submits the   *)
(* rounds these made due; settle's further turns are passes of their own.   *)

loopUnchanged == UNCHANGED <<wire, accepted, failed, roundVars, envVars>>

\* noteEvent of readiness e on the connection; due is whether to submit it.
\* Input on a connection whose reads are paused is owed to their resumption,
\* and a write edge alone is nothing to one with no output.
NoteEvent(e, due) ==
    LET owed == c.readPaused /\ "in" \in e /\ e \subseteq {"in", "out"}
        left == IF owed THEN e \ {"in"} ELSE e
        d == IF owed THEN [c EXCEPT !.readStalled = TRUE] ELSE c
    IN
    \/ /\ Ending(c)
       /\ ~due /\ UNCHANGED c
    \/ /\ ~Ending(c) /\ NothingDue(c, left)
       /\ ~due /\ c' = d
    \/ /\ ~Ending(c) /\ ~NothingDue(c, left)
       /\ due = ~c.scheduled
       /\ c' = [d EXCEPT !.pendingEvents = @ \cup left, !.scheduled = TRUE]

\* A pass begins: settle finds commands or rounds to see to, or the wait returns
\* with the socket's readiness.  A stopping loop drains its queue and ends.
LoopWait ==
    /\ pc[Loop] = "wait"
    /\ \/ /\ commands # <<>> \/ redeliver > 0
          /\ batch' = commands /\ commands' = <<>>
          /\ Goto(Loop, "pass")
          /\ UNCHANGED <<report, sock>>
       \/ /\ ~stopping /\ sock.edge /\ open
          /\ report' = Readiness
          /\ sock' = [sock EXCEPT !.edge = FALSE]
          /\ Goto(Loop, "pass")
          /\ UNCHANGED <<commands, batch>>
       \/ /\ stopping
          /\ batch' = commands /\ commands' = <<>>
          /\ Goto(Loop, "last pass")
          /\ UNCHANGED <<report, sock>>
    /\ UNCHANGED <<c, shut, ready, redeliver, stopping, cut, endVars>> /\ loopUnchanged

\* The readiness the wait returned, unless the descriptor was released since.
LoopNote ==
    /\ pc[Loop] = "pass" /\ report # {}
    /\ report' = {}
    /\ \E due \in BOOLEAN :
          /\ IF open THEN NoteEvent(report, due) ELSE ~due /\ UNCHANGED c
          /\ ready' = IF due THEN ready + 1 ELSE ready
    /\ UNCHANGED <<sock, pc, ret, commands, shut, batch, redeliver, stopping, cut, endVars>>
    /\ loopUnchanged

\* The wake-up may come before the socket's readiness: drainCommands takes the
\* queue over ...
LoopDrain ==
    /\ pc[Loop] = "pass" /\ report # {} /\ batch = <<>> /\ commands # <<>>
    /\ batch' = commands /\ commands' = <<>>
    /\ UNCHANGED <<c, sock, pc, ret, shut, report, ready, redeliver, stopping, cut, endVars>>
    /\ loopUnchanged

\* closeConnection with its callback: the close is folded into the connection,
\* and a round scheduled for it unless one already is.
CloseConnection_Always ==
    IF c.closed THEN UNCHANGED <<c, redeliver>>
    ELSE /\ c' = [MarkClosed(c) EXCEPT !.closePending = TRUE, !.scheduled = TRUE]
         /\ redeliver' = redeliver + 1
CloseConnection ==
    IF c.closed THEN UNCHANGED <<c, redeliver>>
    ELSE /\ c' = [MarkClosed(c) EXCEPT !.closePending = TRUE, !.scheduled = TRUE]
         /\ redeliver' = IF c.scheduled THEN redeliver ELSE redeliver + 1

\* refreshConnection's critical section; a stalled read whose pause is over is
\* handed back by the step after.
RefreshConnection ==
    LET pause == PauseDecision(Fold(c), c.readPaused)
        resumes == c.readStalled /\ ~pause
    IN  /\ c' = [Fold(c) EXCEPT !.readPaused = pause, !.readStalled = @ /\ pause]
        /\ IF resumes /\ ~Ending(c) THEN Call(Loop, "hand back", pc[Loop])
           ELSE UNCHANGED <<pc, ret>>

\* ... and carries the commands out in order.
LoopCommand ==
    /\ pc[Loop] \in {"pass", "last pass", "shut"} /\ batch # <<>>
    /\ batch' = Tail(batch)
    /\ \/ /\ Head(batch) = "close"
          /\ CloseConnection
          /\ UNCHANGED <<pc, ret, open>>
       \/ /\ Head(batch) = "refresh"
          /\ RefreshConnection
          /\ UNCHANGED <<redeliver, open>>
       \/ /\ Head(batch) = "detach"
          /\ open' = FALSE
          /\ UNCHANGED <<c, pc, ret, redeliver>>
    /\ UNCHANGED <<sock, commands, shut, report, ready, stopping, cut, told>> /\ loopUnchanged

LoopHandBack ==
    /\ pc[Loop] = "hand back"
    /\ \E due \in BOOLEAN :
          /\ NoteEvent({"in"}, due)
          /\ redeliver' = IF due THEN redeliver + 1 ELSE redeliver
    /\ Return(Loop)
    /\ UNCHANGED <<sock, commands, shut, batch, report, ready, stopping, cut, endVars>>
    /\ loopUnchanged

\* The pool takes the rounds: each becomes a task that starts at some time.
Start(n, next) ==
    \E R \in SUBSET {r \in Rounds : pc[r] = "idle"} :
       /\ Cardinality(R) = n
       /\ pc' = [p \in Procs |-> IF p \in R THEN "top" ELSE IF p = Loop THEN next ELSE pc[p]]
       /\ UNCHANGED ret

\* runReady and submitReady.  A pool that has stopped refuses the round, which
\* then finishes the close it was for, or closes the connection.
LoopRun ==
    /\ pc[Loop] = "pass" /\ report = {} /\ batch = <<>>
    /\ ready' = 0 /\ redeliver' = 0
    /\ \/ Start(ready + redeliver, "wait") /\ UNCHANGED c
       \/ /\ "refuse" \in Faults /\ ready + redeliver > 0
          /\ c' = Release(c)
          /\ Call(Loop, IF c.closePending THEN "finish close" ELSE "closing", "wait")
    /\ UNCHANGED <<sock, commands, shut, batch, report, stopping, cut, endVars>> /\ loopUnchanged

\* Stop, on any goroutine.
Stop ==
    /\ "stop" \in Faults /\ ~stopping
    /\ stopping' = TRUE
    /\ UNCHANGED <<connVars, sock, pc, ret, roundVars, commands, shut, batch, report, ready,
                   redeliver, cut, endVars, envVars>>

----------------------------------------------------------------------------
(* Engine.Close, once Run has returned.                                    *)

\* cutConnection: the socket of a connection with a round is shut down, and
\* keeps its descriptor; another is released.
CutConnection_ReleasesAll ==
    /\ pc[Loop] = "last pass" /\ batch = <<>>
    /\ IF c.closed \/ ~open THEN UNCHANGED <<c, cut, open>>
       ELSE c' = MarkClosed(c) /\ cut' = TRUE /\ open' = FALSE
    /\ Goto(Loop, "rounds")
    /\ UNCHANGED <<sock, commands, shut, batch, report, ready, redeliver, stopping, told>>
    /\ loopUnchanged
CutConnection ==
    /\ pc[Loop] = "last pass" /\ batch = <<>>
    /\ IF c.closed \/ ~open THEN UNCHANGED <<c, sock, cut, open>>
       ELSE /\ c' = MarkClosed(c)
            /\ cut' = TRUE
            /\ open' = c.scheduled
            /\ sock' = [sock EXCEPT !.dead = @ \/ c.scheduled, !.in = 0]
    /\ Goto(Loop, "rounds")
    /\ UNCHANGED <<commands, shut, batch, report, ready, redeliver, stopping, told>>
    /\ loopUnchanged

RoundsOver == \A r \in Rounds : pc[r] = "idle"

\* afterRounds waits for the rounds, and closeCut runs the cut's OnClose.
CloseCut ==
    /\ pc[Loop] = "rounds" /\ RoundsOver
    /\ told' = IF cut THEN told + 1 ELSE told
    /\ Goto(Loop, "close commands")
    /\ UNCHANGED <<c, sock, commands, loopVars, open>> /\ loopUnchanged

\* closeCommands turns requests away, carries out what is queued, and runs the
\* round a close still waits for.
CloseCommands_RoundLost ==
    /\ \/ /\ pc[Loop] = "close commands"
          /\ shut' = TRUE /\ batch' = commands /\ commands' = <<>>
          /\ Goto(Loop, "shut") /\ UNCHANGED redeliver
       \/ /\ pc[Loop] = "shut" /\ batch = <<>>
          /\ redeliver' = 0
          /\ Goto(Loop, "last round")
          /\ UNCHANGED <<shut, batch, commands>>
    /\ UNCHANGED <<c, sock, report, ready, stopping, cut, endVars>> /\ loopUnchanged
CloseCommands ==
    /\ \/ /\ pc[Loop] = "close commands"
          /\ shut' = TRUE /\ batch' = commands /\ commands' = <<>>
          /\ Goto(Loop, "shut") /\ UNCHANGED redeliver
       \/ /\ pc[Loop] = "shut" /\ batch = <<>>
          /\ redeliver' = 0
          /\ Start(IF c.closePending THEN redeliver ELSE 0, "last round")
          /\ UNCHANGED <<shut, batch, commands>>
    /\ UNCHANGED <<c, sock, report, ready, stopping, cut, endVars>> /\ loopUnchanged

\* release closes what is left without a callback.
Sweep ==
    /\ pc[Loop] = "last round" /\ RoundsOver
    /\ c' = IF open THEN MarkClosed(c) ELSE c
    /\ open' = FALSE
    /\ Goto(Loop, "closed")
    /\ UNCHANGED <<sock, commands, loopVars, told>> /\ loopUnchanged

LoopStep ==
    \/ LoopWait \/ LoopNote \/ LoopDrain \/ LoopCommand \/ LoopHandBack \/ LoopRun
    \/ CutConnection \/ CloseCut \/ CloseCommands \/ Sweep \/ Closing(Loop)

Next ==
    \/ Peer \/ LoopStep \/ Stop
    \/ \E r \in Rounds : Round(r) \/ OnDataPanics(r)
    \/ \E p \in Apps : App(p) \/ AppCall(p)

Safe == Init /\ [][Next]_vars

\* The runtime schedules every goroutine, a task the pool took starts, handlers
\* return and an application lets go of a hold.  The peer is not to be trusted
\* to read.
Fair ==
    /\ WF_vars(LoopStep)
    /\ \A r \in Rounds : WF_vars(Round(r))
    /\ \A p \in Apps : WF_vars(App(p))

Spec == Safe /\ Fair

\* A peer that goes on reading what it is sent.
Reading == Spec /\ WF_vars(PeerReads)

----------------------------------------------------------------------------
Labels == {"idle", "top", "out", "flush", "flushing", "in", "weigh", "defer", "begin", "read",
           "OnData", "OnData full", "long", "long settled", "charge", "stop", "stopped",
           "stall", "uncork", "end", "owe", "owed", "closing", "request close",
           "request refresh", "finish close", "in OnClose", "holding", "uncorked",
           "closeaftersend", "wait", "pass", "last pass", "hand back", "rounds",
           "close commands", "shut", "last round", "closed"}
Commands == {"close", "refresh", "detach"}

\* Every variable holds a value of its kind.
TypeOK ==
    /\ c \in ConnType /\ c.corkedBytes <= Len(c.sends)
    /\ sock \in [in : Nat, fin : BOOLEAN, dead : BOOLEAN, room : 0..Room,
                 full : BOOLEAN, edge : BOOLEAN]
    /\ wire \in Seq(Nat) /\ accepted \in Nat
    /\ pc \in [Procs -> Labels] /\ ret \in [Procs -> Labels]
    /\ events \in [Rounds -> SUBSET Events] /\ deferred \in [Rounds -> SUBSET Events]
    /\ failed \in [Procs -> BOOLEAN]
    /\ commands \in Seq(Commands) /\ batch \in Seq(Commands)
    /\ report \in SUBSET Events /\ ready \in Nat /\ redeliver \in Nat
    /\ shut \in BOOLEAN /\ stopping \in BOOLEAN /\ cut \in BOOLEAN /\ open \in BOOLEAN
    /\ told \in Nat /\ calls \in Nat /\ sent \in Nat

\* A round that owns the connection: it has not stopped, nor panicked.
Owns(r) ==
    /\ pc[r] \notin {"idle", "finish close", "in OnClose"}
    /\ ~(pc[r] \in {"closing", "request close"} /\ ret[r] = "idle")

\* A connection is scheduled exactly while one round owns it or one is to be
\* submitted for it, and never two: process and noteEvent serialize its rounds
\* by the scheduled flag, through panics, refusals and Close.
OneRound ==
    LET owners == Cardinality({r \in Rounds : Owns(r)}) IN
    pc[Loop] \notin {"last round", "closed"} =>
        owners + ready + redeliver = IF c.scheduled THEN 1 ELSE 0

InHandler == {r \in Rounds : pc[r] \in {"OnData", "OnData full"}}

\* OnClose is called at most once, after everything OnData was handed, and never
\* beside it (closeConnection's comment).
OnCloseLast == told <= 1 /\ (told = 1 => InHandler = {})

\* The descriptor is released only when no round that could use it runs, so it
\* is never reused under one, and only once OnClose has been called, unless
\* Close has cut the connection.
DescriptorHeld ==
    ~open => /\ \A r \in Rounds : ~Owns(r)
             /\ told = 1 \/ cut

\* What Send accepted reaches the socket in the order it was accepted, each unit
\* once, whichever of Send, Flush and the rounds writes it (canWriteDirectly,
\* flushing and the cork keep them apart).
InOrder ==
    /\ \A i \in 1..Len(wire) : wire[i] = i
    /\ ~c.closed => wire \o c.sends = [i \in 1..accepted |-> i]

\* CloseAfterSend closes only after all that Send accepted was handed to the
\* kernel, if nothing else ends the connection.
CloseAfterSendWrites ==
    ("close" \notin Calls /\ Faults = {}) => (c.closing => Len(wire) = accepted)

\* The end of input closes a connection only once all input before it was read,
\* whatever was deferred, held or stalled in between (process's hupOwed).
EndAfterInput ==
    (Calls \cap {"close", "closeaftersend"} = {} /\ Faults = {"fin"})
        => (c.closing => sock.in = 0)

\* A close that began is always in somebody's hands: whoever is asking the loop
\* for it, the loop, the round it waits for, or Close; and after OnClose so is the
\* release of the descriptor.  Neither a panic nor a refused round drops it.
Queued(kind) == kind \in Range(commands) \cup Range(batch)
CloseInHand ==
    /\ c.closing => \/ c.closePending \/ told = 1 \/ cut \/ Queued("close")
                    \/ \E p \in Procs : pc[p] \in {"request close", "finish close"}
    /\ told = 1 /\ open => cut \/ Queued("detach") \/ \E p \in Procs : pc[p] = "in OnClose"

\* However Close ends the engine, an open connection's handler has heard its
\* OnClose, and its descriptor is released, by the time Close is done.
CloseTells == pc[Loop] = "closed" => told = 1 /\ ~open

\* Input left in the socket, whose edge has been reported, is always owed to
\* somebody: the loop that holds the report, the round that is scheduled, the
\* output a deferred read waits behind, or, for a stalled read, the pause it waits
\* out or the refresh asked for.  No flush, hold or stop of a round forgets it,
\* unless the connection is about to close.
RefreshComing ==
    \/ Queued("refresh") \/ pc[Loop] = "hand back"
    \/ \E p \in Procs : pc[p] = "request refresh"
InputOwed ==
    sock.in > 0 /\ ~sock.edge /\ ~Ending(c) /\ pc[Loop] \in {"wait", "pass", "hand back"} =>
        \/ "in" \in report \/ c.scheduled \/ RefreshComing
        \/ c.readDeferred /\ c.sends # <<>>
        \/ c.readStalled /\ PauseDecision(Fold(c), c.readPaused)
        \/ \E p \in Procs : pc[p] = "closing"

\* No input is left in the socket for good: an edge deferred for output, stalled
\* by a watermark or held by the application is handed back.
InputRead == sock.in > 0 /\ ~c.closing ~> sock.in = 0 \/ c.closing

\* Nor is output left in the queue, if the peer reads.
OutputWritten == c.sends # <<>> ~> c.sends = <<>>

\* The peer's end of input ends the connection: OnClose is called and the
\* descriptor released.
EndCloses == sock.fin ~> told = 1 /\ ~open

=============================================================================
