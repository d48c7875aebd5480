------------------------------ MODULE BrainJob ------------------------------
(***************************************************************************)
(* The Brain job record and the one function that decides how it may move: *)
(* brainJobTransition (packages/shared/src/ai/brain-job.ts).  Each event   *)
(* of the machine is a pair of operators: Can<Event>, what the contract    *)
(* asks before it allows the event, and After<Event>, the record it        *)
(* returns.  Everything the contract refuses is a Can<Event> that is       *)
(* FALSE.                                                                  *)
(*                                                                         *)
(* Of a job the record keeps what a transition reads or writes: state,     *)
(* execution class, promotion, the cancel request (its reason), the open   *)
(* question (its number, 0 for none), whether a result is recorded, and    *)
(* the end reason.  The identity fields never move (brain-records.ts,      *)
(* BRAIN_JOB_IMMUTABLE_FIELDS) and are the index of the record.            *)
(***************************************************************************)
EXTENDS Naturals

CONSTANTS
    Jobs,            \* the jobs that may be submitted
    InteractiveJobs, \* those whose task lists the INTERACTIVE class
    DurableJobs,     \* those whose task lists the DURABLE class
    WaitingJobs,     \* those whose durable envelope allows asking a person
    MaxWaits         \* bound: questions one job may ask

ASSUME JobsAssumption ==
    /\ InteractiveJobs \subseteq Jobs
    /\ DurableJobs \subseteq Jobs
    /\ WaitingJobs \subseteq DurableJobs
ASSUME WaitsAssumption == MaxWaits \in Nat

None == "NONE"
NoWait == 0
Waits == 1 .. MaxWaits

TerminalStates == {"SUCCEEDED", "FAILED", "CANCELLED"}
IdleStates == {"ACCEPTED", "QUEUED", "WAITING_FOR_USER"}
LiveStates == IdleStates \cup {"RUNNING"}
\* "ABSENT" stands for a job that was never submitted: there is no row.
States == {"ABSENT"} \cup LiveStates \cup TerminalStates

FailureReasons == {"MODEL_REFUSED", "OUTPUT_REJECTED", "PROVIDER_UNAVAILABLE",
    "PROVIDER_RESULT_LOST", "BUDGET_REFUSED", "ACCESS_WITHDRAWN",
    "CONTEXT_UNAVAILABLE", "RETRIES_EXHAUSTED", "DEADLINE_EXCEEDED",
    "COMMIT_REFUSED", "ROUTING_NOT_CONFORMANT", "INTERNAL"}
\* What a request to stop may give as its reason; WAIT_EXPIRED is only ever
\* an end reason, so it is listed apart.
RequestReasons == {"REQUESTED_BY_PRINCIPAL", "REQUESTED_BY_ADMINISTRATOR",
                   "KILL_SWITCH"}
CancelReasons == RequestReasons \cup {"WAIT_EXPIRED"}

JobRecord == [state    : States,
              class    : {"INTERACTIVE", "DURABLE"},
              promoted : BOOLEAN,
              cancel   : RequestReasons \cup {None},
              wait     : Waits \cup {NoWait},
              result   : BOOLEAN,
              end      : FailureReasons \cup CancelReasons \cup {None}]

Absent == [state |-> "ABSENT", class |-> "INTERACTIVE", promoted |-> FALSE,
           cancel |-> None, wait |-> NoWait, result |-> FALSE, end |-> None]

Terminal(b) == b.state \in TerminalStates
Live(b) == b.state \in LiveStates

\* Submission: the job exists once, in a class its task supports.
CanAccept(b, j, cls) ==
    /\ b.state = "ABSENT"
    /\ \/ cls = "INTERACTIVE" /\ j \in InteractiveJobs
       \/ cls = "DURABLE" /\ j \in DurableJobs
AfterAccept(b, cls) == [b EXCEPT !.state = "ACCEPTED", !.class = cls]

CanDispatch(b) == b.state = "ACCEPTED"
AfterDispatch(b) == [b EXCEPT !.state = "QUEUED"]

CanStart(b) == b.state = "QUEUED" /\ b.cancel = None
AfterStart(b) == [b EXCEPT !.state = "RUNNING"]

CanPromote(b, j) ==
    /\ b.state \in {"ACCEPTED", "QUEUED", "RUNNING"}
    /\ b.class = "INTERACTIVE"
    /\ j \in DurableJobs
AfterPromote(b) == [b EXCEPT !.class = "DURABLE", !.promoted = TRUE]

CanAsk(b, j) ==
    /\ b.state = "RUNNING"
    /\ b.class = "DURABLE"
    /\ j \in WaitingJobs
    /\ b.cancel = None
AfterAsk(b, k) == [b EXCEPT !.state = "WAITING_FOR_USER", !.wait = k]

\* The responder is the principal by construction of the wait row, so what is
\* left to decide is whether access was re-decided and allowed.
CanResume(b, k, permitted) ==
    /\ b.state = "WAITING_FOR_USER"
    /\ b.wait = k
    /\ permitted
AfterResume(b) == [b EXCEPT !.state = "RUNNING", !.wait = NoWait]

CanExpire(b, k) == b.state = "WAITING_FOR_USER" /\ b.wait = k
AfterExpireAsked(b) ==    \* mutant: an expiry recorded as a request to stop
    [b EXCEPT !.state = "CANCELLED", !.wait = NoWait,
              !.cancel = "WAIT_EXPIRED", !.end = "WAIT_EXPIRED"]
AfterExpire(b) == [b EXCEPT !.state = "CANCELLED", !.wait = NoWait,
                            !.end = "WAIT_EXPIRED"]

\* Idle work stops at once; running work records the first request.
CanCancel(b) == Live(b)
AfterCancelLast(b, why) ==    \* mutant: the last request stands
    IF b.state \in IdleStates
    THEN [b EXCEPT !.state = "CANCELLED", !.wait = NoWait,
                   !.cancel = why, !.end = why]
    ELSE [b EXCEPT !.cancel = why]
AfterCancel(b, why) ==
    IF b.state \in IdleStates
    THEN [b EXCEPT !.state = "CANCELLED", !.wait = NoWait,
                   !.cancel = why, !.end = why]
    ELSE IF b.cancel = None THEN [b EXCEPT !.cancel = why] ELSE b

CanSettle(b) == b.state = "RUNNING" /\ b.cancel # None
AfterSettle(b) == [b EXCEPT !.state = "CANCELLED", !.end = b.cancel]

CanCommit(b) == b.state = "RUNNING" /\ b.cancel = None
AfterCommit(b) == [b EXCEPT !.state = "SUCCEEDED", !.result = TRUE]

CanFailEver(b) == b.state # "ABSENT"    \* mutant: without JOB_IS_TERMINAL
CanFail(b) == Live(b)
AfterFailOpen(b, why) ==    \* mutant: the question is left on the row
    [b EXCEPT !.state = "FAILED", !.end = why]
AfterFail(b, why) == [b EXCEPT !.state = "FAILED", !.wait = NoWait, !.end = why]

-----------------------------------------------------------------------------
(* What the table may hold.  The database states the same in the CHECK      *)
(* constraint brain_jobs_shape (docs/architecture/brain-persistence.md,     *)
(* section 2): a row the contract produced and the database refused would   *)
(* abort the transaction of an innocent caller.                             *)

\* A question is open exactly while the job waits, and only durable work waits.
QuestionShape(b) ==
    /\ b.wait # NoWait <=> b.state = "WAITING_FOR_USER"
    /\ b.state = "WAITING_FOR_USER" => b.class = "DURABLE"
\* Work that ended without a result says why; nothing else gives a reason, and
\* only a success has a result.
EndingShape(b) ==
    /\ b.end # None <=> b.state \in {"FAILED", "CANCELLED"}
    /\ b.result <=> b.state = "SUCCEEDED"
\* A job that was asked to stop is running until it settles, or has ended
\* without a success; work cancelled on request gives the first reason.
StopShape(b) ==
    /\ b.cancel # None => b.state \in {"RUNNING", "FAILED", "CANCELLED"}
    /\ b.state = "CANCELLED" => b.end \in {b.cancel, "WAIT_EXPIRED"}
    /\ b.promoted => b.class = "DURABLE" /\ b.state # "ABSENT"
Shape(b) == QuestionShape(b) /\ EndingShape(b) /\ StopShape(b)
=============================================================================
