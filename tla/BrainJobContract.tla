-------------------------- MODULE BrainJobContract --------------------------
(***************************************************************************)
(* The contract of a Brain job as a specification: any event may arrive at *)
(* any moment, in any order, from anybody, and a job moves only as         *)
(* brainJobTransition allows.  It is what every writer of the table        *)
(* brain_jobs promises, whatever leases, queues and crashes do; the module *)
(* BrainExecution is shown to implement it.                                *)
(***************************************************************************)
EXTENDS BrainJob

VARIABLE job

TypeOK == job \in [Jobs -> JobRecord]

Init == job = [j \in Jobs |-> Absent]

Becomes(j, b) == job' = [job EXCEPT ![j] = b]

Accepted(j) == \E cls \in {"INTERACTIVE", "DURABLE"} :
    CanAccept(job[j], j, cls) /\ Becomes(j, AfterAccept(job[j], cls))
Dispatched(j) == CanDispatch(job[j]) /\ Becomes(j, AfterDispatch(job[j]))
Started(j) == CanStart(job[j]) /\ Becomes(j, AfterStart(job[j]))
Promoted(j) == CanPromote(job[j], j) /\ Becomes(j, AfterPromote(job[j]))
InputRequested(j) == \E k \in Waits :
    CanAsk(job[j], j) /\ Becomes(j, AfterAsk(job[j], k))
InputReceived(j) == \E k \in Waits, permitted \in BOOLEAN :
    CanResume(job[j], k, permitted) /\ Becomes(j, AfterResume(job[j]))
WaitExpired(j) == \E k \in Waits :
    CanExpire(job[j], k) /\ Becomes(j, AfterExpire(job[j]))
CancelRequested(j) == \E why \in RequestReasons :
    CanCancel(job[j]) /\ Becomes(j, AfterCancel(job[j], why))
CancelSettled(j) == CanSettle(job[j]) /\ Becomes(j, AfterSettle(job[j]))
ResultCommitted(j) == CanCommit(job[j]) /\ Becomes(j, AfterCommit(job[j]))
Failed(j) == \E why \in FailureReasons :
    CanFail(job[j]) /\ Becomes(j, AfterFail(job[j], why))

Transition(j) ==
    \/ Accepted(j)       \/ Dispatched(j)     \/ Started(j)
    \/ Promoted(j)       \/ InputRequested(j) \/ InputReceived(j)
    \/ WaitExpired(j)    \/ CancelRequested(j)
    \/ CancelSettled(j)  \/ ResultCommitted(j) \/ Failed(j)

Next == \E j \in Jobs : Transition(j)

Spec == Init /\ [][Next]_job

-----------------------------------------------------------------------------
\* Every row keeps the shape the database checks, whatever the order of events.
RowShape == \A j \in Jobs : Shape(job[j])

\* An ended job never moves again, whatever arrives late (JOB_IS_TERMINAL).
EndedStays == [][\A j \in Jobs : Terminal(job[j]) => job'[j] = job[j]]_job

\* The first request to stop is never withdrawn or rewritten, and neither a
\* question nor a success overtakes it.
FirstStopStands ==
    [][\A j \in Jobs : job[j].cancel # None =>
            /\ job'[j].cancel = job[j].cancel
            /\ job'[j].state \in {"RUNNING", "FAILED", "CANCELLED"}]_job
=============================================================================
