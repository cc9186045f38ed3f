------------------------------ MODULE TaskPool ------------------------------
(***************************************************************************)
(* What every task pool of package taskpool promises its users             *)
(* (taskpool.go): a task Go, TryGo or GoTasks accepted runs, once; Stop    *)
(* refuses the tasks that come after it and returns once every accepted    *)
(* task has run.  ChanPool and ElasticPool are each shown to implement it. *)
(***************************************************************************)

CONSTANTS
    Tasks,      \* the tasks the program ever submits
    TryTasks    \* those submitted with TryGo, which a full queue turns away

VARIABLES
    fate,       \* what has become of each task
    phase       \* "open", "stopping" once Stop is called, "stopped" once it returned

vars == <<fate, phase>>

Fates == {"new", "accepted", "running", "done", "refused"}
Phases == {"open", "stopping", "stopped"}

\* The tasks the pool owes a run.
Owed == {t \in Tasks : fate[t] \in {"accepted", "running"}}

Init ==
    /\ fate = [t \in Tasks |-> "new"]
    /\ phase = "open"

Move(t, from, to) ==
    /\ fate[t] = from
    /\ fate' = [fate EXCEPT ![t] = to]
    /\ UNCHANGED phase

\* A submission that saw the pool open may still be accepted while it stops.
Accept(t) == phase # "stopped" /\ Move(t, "new", "accepted")

\* A stopped pool refuses what is left of a batch at once.
Refuse(S) ==
    /\ \A t \in S : fate[t] = "new" /\ (phase # "open" \/ t \in TryTasks)
    /\ fate' = [t \in Tasks |-> IF t \in S THEN "refused" ELSE fate[t]]
    /\ UNCHANGED phase

Start(t) == Move(t, "accepted", "running")

Finish(t) == Move(t, "running", "done")

Stop ==
    /\ phase = "open"
    /\ phase' = "stopping"
    /\ UNCHANGED fate

StopReturn ==
    /\ phase = "stopping"
    /\ Owed = {}
    /\ phase' = "stopped"
    /\ UNCHANGED fate

Next ==
    \/ \E t \in Tasks : Accept(t) \/ Start(t) \/ Finish(t)
    \/ \E S \in SUBSET Tasks : Refuse(S)
    \/ Stop
    \/ StopReturn

Spec == Init /\ [][Next]_vars

=============================================================================
