--------------------------- MODULE BrainExecution ---------------------------
(***************************************************************************)
(* How a Brain job is carried forward: the rows Loop keeps (the job, its   *)
(* lease, its questions, its steps, its commands), the queue of references *)
(* between the components, and the components that run at the same time:   *)
(* the people who submit, answer and cancel; the dispatcher; the worker    *)
(* invocations; and the sweeper, which looks for work whose wakeup was     *)
(* lost.  Every database transaction or conditional write is one step, a   *)
(* worker may die between any two of its steps, and the queue delivers at  *)
(* least once, in any order.                                               *)
(*                                                                         *)
(* Time is kept only where the code compares it: a question is DUE or not, *)
(* a lease has LAPSED or not.  A lease (150 s) outlives the invocation     *)
(* that holds it (120 s, infra/brain/lambda/worker.ts), so only the lease  *)
(* of an invocation that has ended lapses.                                 *)
(***************************************************************************)
EXTENDS BrainJob, Sequences, FiniteSets

CONSTANTS
    Workers,     \* worker invocations that may run at once
    MayBeLate,   \* jobs that may run out of time at a step boundary
    MayBeKilled, \* jobs a kill control may name, at one reading and not the next
    Refusals,    \* reasons for which Loop's internal API may refuse a step
    MaxAttempts, \* attempts one step may make (the policies: 3)
    MaxReceive,  \* deliveries of a message before it is a dead letter (5)
    SweepLimit,  \* undispatched commands one sweep looks at (100)
    MaxFaults,   \* bound: crashes and calls of the platform that fail
    MaxOutages,  \* bound: calls of Loop's internal API that find it down
    MaxCopies    \* bound: messages delivered or rung for twice

ASSUME WorkersAssumption ==
    /\ {None, "ORPHAN", "LAPSED"} \cap Workers = {}
    /\ None \notin Jobs
ASSUME RefusalsAssumption == Refusals \subseteq FailureReasons
ASSUME BoundsAssumption ==
    /\ MaxAttempts \in Nat \ {0} /\ MaxReceive \in Nat \ {0}
    /\ SweepLimit \in Nat \ {0}
    /\ MaxFaults \in Nat /\ MaxOutages \in Nat /\ MaxCopies \in Nat
    /\ MaxAttempts <= MaxWaits

VARIABLES
    job,      \* the row of each job, as BrainJob describes it
    lease,    \* who may advance it: a worker, None, ORPHAN (the holder is
              \* gone but the lease still runs) or LAPSED
    wait,     \* the status of each question a job asked; DUE is OPEN, too late
    step,     \* each step of the plan: its state and its attempts
    commands, \* stored commands in the order they were issued
    queue,    \* advance messages
    worker,   \* what each invocation is doing
    spent     \* faults, outages and copies so far (the bounds above)

vars == <<job, lease, wait, step, commands, queue, worker, spent>>

-----------------------------------------------------------------------------
StepKeys == {"context.load", "dark.probe", "dark.clarify", "commit.result"}
Plan(j) ==
    IF j \in WaitingJobs
    THEN <<"context.load", "dark.probe", "dark.clarify", "commit.result">>
    ELSE <<"context.load", "dark.probe", "commit.result">>

CommandTypes == {"START", "RESUME", "CANCEL"}
Reasons == CommandTypes \cup {"CONTINUE", "TIMER", "RECOVERY"}
\* A message is deliverable NOW, delayed (LATER), or HIDDEN after a failed
\* delivery until its visibility timeout; n counts its deliveries.
Message == [job : Jobs, reason : Reasons, wait : Waits \cup {NoWait},
            n : 0 .. MaxReceive, when : {"NOW", "LATER", "HIDDEN"}]
NoMessage == [job |-> None, reason |-> None, wait |-> NoWait, n |-> 0,
              when |-> "NOW"]
Reference(j, reason, k) ==
    [job |-> j, reason |-> reason, wait |-> k, n |-> 0, when |-> "NOW"]

Places == {"idle", "claim", "dispatch", "start", "expiring", "expire",
           "resume", "record", "boundary", "promote", "begin", "execute",
           "checkpoint", "failstep", "fail", "settle", "stop", "requeue",
           "backoff", "release", "giveback"}
Invocation == [pc : Places, msg : Message \cup {NoMessage},
               asked : Waits \cup {NoWait}, at : 1 .. 4,
               why : FailureReasons \cup {None}]
Idle == [pc |-> "idle", msg |-> NoMessage, asked |-> NoWait, at |-> 1,
         why |-> None]

Init ==
    /\ job = [j \in Jobs |-> Absent]
    /\ lease = [j \in Jobs |-> None]
    /\ wait = [j \in Jobs |-> [k \in Waits |-> "NONE"]]
    /\ step = [j \in Jobs |->
                  [s \in StepKeys |-> [state |-> "NONE", attempts |-> 0]]]
    /\ commands = <<>>
    /\ queue = {}
    /\ worker = [w \in Workers |-> Idle]
    /\ spent = [faults |-> 0, outages |-> 0, copies |-> 0]

-----------------------------------------------------------------------------
(* Writes shared by several operations.                                     *)

\* storeBrainCommand: one command per identity, whoever asks again.
Stored(j, type, k) == \E i \in DOMAIN commands :
    commands[i].job = j /\ commands[i].type = type /\ commands[i].wait = k
WithCommand(j, type, k) ==
    IF Stored(j, type, k) THEN commands
    ELSE Append(commands, [job |-> j, type |-> type, wait |-> k, sent |-> FALSE])

\* applyBrainJobTransition closes the question the job stops waiting on, if it
\* is still unanswered, in the transaction of the change that ended the wait.
Unanswered == {"OPEN", "DUE"}
WithAnyClosed(j, status) ==    \* mutant: without the condition on its status
    [wait EXCEPT ![j] = [k \in Waits |->
        IF k = job[j].wait THEN status ELSE wait[j][k]]]
WithNoneClosed(j, status) == wait    \* mutant: the question is left as it is
WithClosed(j, status) ==
    [wait EXCEPT ![j] = [k \in Waits |->
        IF k = job[j].wait /\ wait[j][k] \in Unanswered
        THEN status ELSE wait[j][k]]]

\* A transition, of which brainJobChanges writes the columns: a row that ends
\* gives its lease up in the same write.
Becomes(j, b) ==
    /\ job' = [job EXCEPT ![j] = b]
    /\ lease' = [lease EXCEPT ![j] = IF Terminal(b) THEN None ELSE @]

Fault == spent.faults < MaxFaults /\ spent' = [spent EXCEPT !.faults = @ + 1]
Outage == spent.outages < MaxOutages /\ spent' = [spent EXCEPT !.outages = @ + 1]
Copy == spent.copies < MaxCopies /\ spent' = [spent EXCEPT !.copies = @ + 1]

\* A failed delivery goes back to the queue until it has had its deliveries.  It
\* stays hidden for 720 s, longer than the lease that is running then, if one is
\* (l is the lease after the step).
ReturnedNever(m, l) == {}    \* mutant: a failed delivery is deleted
Returned(m, l) ==
    IF m.n < MaxReceive
    THEN {[m EXCEPT !.when = IF l \in {None, "LAPSED"} THEN "NOW" ELSE "HIDDEN"]}
    ELSE {}

Goes(w, pc) == worker' = [worker EXCEPT ![w].pc = pc]
Breaks(w, pc, why) == worker' = [worker EXCEPT ![w].pc = pc, ![w].why = why]
\* The end of a delivery: "release" deletes its message, "giveback" (the code
\* throws RetryDelivery) leaves it to be delivered again.
Ends(w, pc) == worker' = [worker EXCEPT
    ![w] = [Idle EXCEPT !.pc = pc, !.msg = worker[w].msg]]
NextStep(w) == worker' = [worker EXCEPT ![w].pc = "boundary", ![w].at = @ + 1]

\* The workers whose conditional write of this job's row another write may
\* overtake, between their read of the version and the write, and what each
\* makes of the VERSION_CONFLICT.
FreeAlways(j) == TRUE    \* mutant: without the BUSY branch
Free(j) == lease[j] \in {None, "LAPSED"}
Exposed(j) == {w \in Workers :
    /\ worker[w].msg.job = j
    /\ \/ worker[w].pc = "claim" /\ Free(j)
       \/ worker[w].pc \in {"dispatch", "start", "expire", "resume",
                            "boundary", "promote", "fail", "stop"}
       \/ worker[w].pc = "execute" /\ Plan(j)[worker[w].at] = "dark.clarify"}
Overtaken(w) ==
    CASE worker[w].pc = "claim"   -> Idle
      [] worker[w].pc = "expire"  -> [worker[w] EXCEPT !.pc = "release"]
      [] worker[w].pc = "execute" ->
             [worker[w] EXCEPT !.pc = "failstep", !.why = "INTERNAL"]
      [] OTHER                    -> [worker[w] EXCEPT !.pc = "giveback"]
GivenBack(hit, l) ==
    UNION {Returned(worker[w].msg, l) : w \in {v \in hit : worker[v].pc = "claim"}}

-----------------------------------------------------------------------------
(* People, and the clock.                                                   *)

\* BrainJobRepository.accept: the job and its START command, once.
Submit(j) ==
    /\ \E cls \in {"INTERACTIVE", "DURABLE"} :
          CanAccept(job[j], j, cls) /\ Becomes(j, AfterAccept(job[j], cls))
    /\ commands' = WithCommand(j, "START", NoWait)
    /\ UNCHANGED <<wait, step, queue, worker, spent>>

\* requestCancel for the principal: the transition, the question it closes and
\* the CANCEL command.  A request that only repeats another writes no row.
Cancel(j) ==
    LET after == AfterCancel(job[j], "REQUESTED_BY_PRINCIPAL") IN
    /\ CanCancel(job[j])
    /\ Becomes(j, after)
    /\ wait' = WithClosed(j, "CLOSED")
    /\ commands' = WithCommand(j, "CANCEL", NoWait)
    /\ \E hit \in SUBSET (IF after = job[j] THEN {} ELSE Exposed(j)) :
          /\ worker' = [w \in Workers |->
                           IF w \in hit THEN Overtaken(w) ELSE worker[w]]
          /\ queue' = queue \cup GivenBack(hit, lease'[j])
    /\ UNCHANGED <<step, spent>>

\* BrainWaitRepository.answer: the reply and its RESUME command.  The reply's
\* clock is read before its transaction, and the write asks only that the
\* question is still OPEN: a reply begun in time may be written when it is DUE.
Answer(j) == \E k \in Waits :
    /\ wait[j][k] \in Unanswered
    /\ job[j].state = "WAITING_FOR_USER" /\ job[j].wait = k
    /\ wait' = [wait EXCEPT ![j][k] = "ANSWERED"]
    /\ commands' = WithCommand(j, "RESUME", k)
    /\ UNCHANGED <<job, lease, step, queue, worker, spent>>

QuestionFallsDue(j) == \E k \in Waits :
    /\ wait[j][k] = "OPEN"
    /\ wait' = [wait EXCEPT ![j][k] = "DUE"]
    /\ UNCHANGED <<job, lease, step, commands, queue, worker, spent>>

LeaseLapses(j) ==
    /\ lease[j] = "ORPHAN"
    /\ lease' = [lease EXCEPT ![j] = "LAPSED"]
    /\ UNCHANGED <<job, wait, step, commands, queue, worker, spent>>

-----------------------------------------------------------------------------
(* The dispatcher and the sweeper.                                          *)

\* brainCommandDisposition, for commands stored by the operations above: their
\* issuer is permitted and their generation is the job's.
Disposition(j, type, k) ==
    IF Terminal(job[j]) THEN "ALREADY_DONE"
    ELSE CASE type = "START" ->
                 IF job[j].state = "ACCEPTED" THEN "EXECUTE" ELSE "ALREADY_DONE"
           [] type = "CANCEL" -> "EXECUTE"
           [] type = "RESUME" ->
                 IF job[j].state = "RUNNING" THEN "ALREADY_DONE"
                 ELSE IF /\ job[j].state = "WAITING_FOR_USER"
                         /\ job[j].wait = k
                         /\ wait[j][k] = "ANSWERED" THEN "EXECUTE"
                 ELSE "REFUSE"

\* dispatch: the reference is sent first and recorded second; a dispatcher that
\* dies in between leaves a command that looks undispatched.  A command that is
\* refused or already done is never recorded as dispatched.
Dispatch(i) ==
    LET c == commands[i] IN
    /\ Disposition(c.job, c.type, c.wait) = "EXECUTE"
    /\ queue' = queue \cup {Reference(c.job, c.type, c.wait)}
    /\ UNCHANGED <<job, lease, wait, step, worker>>
Marked(i) == commands' = [commands EXCEPT ![i].sent = TRUE]

\* A ring is best effort: it may be lost, late, or repeated by a repeated
\* request after the command was dispatched.
Ring(i) ==
    /\ Dispatch(i)
    /\ Marked(i)
    /\ IF commands[i].sent THEN Copy ELSE UNCHANGED spent

\* undispatchedCommands: the oldest ones, up to the limit.
Undispatched == {i \in DOMAIN commands : ~commands[i].sent}
Window == {i \in Undispatched :
              Cardinality({h \in Undispatched : h < i}) < SweepLimit}
SweepCommand(i) == i \in Window /\ Dispatch(i) /\ Marked(i) /\ UNCHANGED spent

DispatcherDies(i) ==
    /\ ~commands[i].sent
    /\ Dispatch(i)
    /\ Fault
    /\ UNCHANGED commands

\* The sweeper does not know what is already in the queue: a second reference
\* of the same kind counts as a copy.
Wakes(j, reason) ==
    /\ queue' = queue \cup {Reference(j, reason, NoWait)}
    /\ IF \E m \in queue : m.job = j /\ m.reason = reason
       THEN Copy ELSE UNCHANGED spent
SweepTimer(j) ==
    /\ \E k \in Waits : wait[j][k] = "DUE"
    /\ Wakes(j, "TIMER")
    /\ UNCHANGED <<job, lease, wait, step, commands, worker>>

\* staleLeases: ACCEPTED is included, because a worker leases a job before it
\* moves it.
SweepLease(j) ==
    /\ lease[j] = "LAPSED"
    /\ job[j].state \in {"ACCEPTED", "QUEUED", "RUNNING"}
    /\ Wakes(j, "RECOVERY")
    /\ UNCHANGED <<job, lease, wait, step, commands, worker>>

-----------------------------------------------------------------------------
(* The worker: one delivery of one message (advanceJob, drive, runStep).    *)

\* A delayed message (10 s and more) comes after its sender's last writes, and a
\* hidden one after the lease that ran when its delivery failed.
MessageReappears == \E m \in queue :
    /\ \/ /\ m.when = "LATER"
          /\ \A w \in Workers :
                 ~(worker[w].msg.job = m.job /\ worker[w].pc = "release")
       \/ m.when = "HIDDEN" /\ Free(m.job)
    /\ queue' = (queue \ {m}) \cup {[m EXCEPT !.when = "NOW"]}
    /\ UNCHANGED <<job, lease, wait, step, commands, worker, spent>>

\* A delivery, and the look-up of the command its message names: a refused
\* command drops it.  At least once: the message may stay.
Receive(w) == \E m \in queue :
    /\ worker[w].pc = "idle"
    /\ m.when = "NOW"
    /\ \/ queue' = queue \ {m} /\ UNCHANGED spent
       \/ queue' = queue /\ Copy
    /\ IF /\ m.reason \in CommandTypes
          /\ Disposition(m.job, m.reason, m.wait) = "REFUSE"
       THEN UNCHANGED worker
       ELSE worker' = [worker EXCEPT ![w] =
                [Idle EXCEPT !.pc = "claim", !.msg = [m EXCEPT !.n = @ + 1]]]
    /\ UNCHANGED <<job, lease, wait, step, commands>>

\* Where drive starts, from the row the lease was taken on, unless a kill control
\* names the job.
WaitingEntryBlind(reason) ==    \* mutant: a TIMER is not looked at
    IF reason = "RESUME" THEN "resume" ELSE "release"
WaitingEntry(reason) ==
    CASE reason = "TIMER" -> "expiring"
      [] reason = "RESUME" -> "resume"
      [] OTHER -> "release"
Entry(j, reason) ==
         CASE job[j].state = "RUNNING" ->
                 IF job[j].cancel # None THEN "settle" ELSE "boundary"
           [] job[j].state = "ACCEPTED" -> "dispatch"
           [] job[j].state = "QUEUED" -> "start"
           [] job[j].state = "WAITING_FOR_USER" -> WaitingEntry(reason)
           [] OTHER -> "release"

\* brainLeaseDecision: an ended job and a lease somebody holds consume the
\* delivery.  A free lease is taken with a write conditional on the version,
\* so of the workers that read it free one succeeds.
Claim(w) ==
    LET m == worker[w].msg
        j == m.job IN
    /\ worker[w].pc = "claim"
    /\ IF Terminal(job[j]) \/ ~Free(j)
       THEN /\ worker' = [worker EXCEPT ![w] = Idle]
            /\ UNCHANGED <<lease, queue>>
       ELSE /\ lease' = [lease EXCEPT ![j] = w]
            /\ \E hit \in SUBSET {v \in Exposed(j) \ {w} : worker[v].pc = "claim"},
                  pc \in {Entry(j, m.reason)}
                          \cup (IF j \in MayBeKilled THEN {"stop"} ELSE {}) :
                  /\ worker' = [v \in Workers |->
                        CASE v = w -> [worker[w] EXCEPT !.pc = pc,
                                                        !.asked = job[j].wait]
                          [] v \in hit -> Overtaken(v)
                          [] OTHER -> worker[v]]
                  /\ queue' = queue \cup GivenBack(hit, w)
    /\ UNCHANGED <<job, wait, step, commands, spent>>

\* One transition of the job, refused (RetryDelivery) when the row has moved on.
Move(w, pc, can, after, next) ==
    /\ worker[w].pc = pc
    /\ IF can THEN Becomes(worker[w].msg.job, after) /\ Goes(w, next)
              ELSE Ends(w, "giveback") /\ UNCHANGED <<job, lease>>
    /\ UNCHANGED <<wait, step, commands, queue, spent>>
Row(w) == job[worker[w].msg.job]
DispatchRow(w) == Move(w, "dispatch", CanDispatch(Row(w)), AfterDispatch(Row(w)), "start")
StartRow(w) == Move(w, "start", CanStart(Row(w)), AfterStart(Row(w)), "boundary")
SettleRow(w) == Move(w, "settle", CanSettle(Row(w)), AfterSettle(Row(w)), "release")
PromoteRow(w) == Move(w, "promote", CanPromote(Row(w), worker[w].msg.job),
                      AfterPromote(Row(w)), "requeue")

\* BrainWaitRepository.expire reads the question, then moves the job.
ReadExpiry(w) ==
    LET j == worker[w].msg.job IN
    /\ worker[w].pc = "expiring"
    /\ IF wait[j][worker[w].asked] = "DUE" THEN Goes(w, "expire")
                                           ELSE Ends(w, "release")
    /\ UNCHANGED <<job, lease, wait, step, commands, queue, spent>>
ExpireBlind(w) ==    \* mutant: the row is not read again before it is moved
    LET j == worker[w].msg.job IN
    /\ worker[w].pc = "expire"
    /\ Becomes(j, AfterExpire(job[j])) /\ wait' = WithClosed(j, "EXPIRED")
    /\ Ends(w, "release")
    /\ UNCHANGED <<step, commands, queue, spent>>
Expire(w) ==
    LET j == worker[w].msg.job IN
    /\ worker[w].pc = "expire"
    /\ IF CanExpire(job[j], worker[w].asked)
       THEN Becomes(j, AfterExpire(job[j])) /\ wait' = WithClosed(j, "EXPIRED")
       ELSE UNCHANGED <<job, lease, wait>>
    /\ Ends(w, "release")
    /\ UNCHANGED <<step, commands, queue, spent>>

\* A RESUME asks Loop whether the responder still may, then continues the job
\* if the reply is recorded; the reply becomes the step's result afterwards.
Resume(w) ==
    LET j == worker[w].msg.job
        k == worker[w].asked
        replied == wait[j][k] = "ANSWERED" IN
    /\ worker[w].pc = "resume"
    /\ \/ Outage /\ Ends(w, "giveback") /\ UNCHANGED <<job, lease>>
       \/ Breaks(w, "fail", "ACCESS_WITHDRAWN") /\ UNCHANGED <<job, lease, spent>>
       \/ ~replied /\ Ends(w, "release") /\ UNCHANGED <<job, lease, spent>>
       \/ /\ replied
          /\ IF CanResume(job[j], k, TRUE)
             THEN Becomes(j, AfterResume(job[j])) /\ Goes(w, "record")
             ELSE Ends(w, "giveback") /\ UNCHANGED <<job, lease>>
          /\ UNCHANGED spent
    /\ UNCHANGED <<wait, step, commands, queue>>

Checkpointed(j, s) ==
    step' = [step EXCEPT ![j][s].state = IF @ = "RUNNING" THEN "SUCCEEDED" ELSE @]
RecordAnswerForgotten(w) ==    \* mutant: the reply does not become the result
    /\ worker[w].pc = "record"
    /\ Goes(w, "boundary")
    /\ UNCHANGED <<job, lease, wait, step, commands, queue, spent>>
RecordAnswer(w) ==
    /\ worker[w].pc = "record"
    /\ Checkpointed(worker[w].msg.job, "dark.clarify")
    /\ Goes(w, "boundary")
    /\ UNCHANGED <<job, lease, wait, commands, queue, spent>>

\* A step boundary: the lease is renewed and the row re-read; then a pending
\* cancel, the kill controls and the deadline are looked at, in that order.
Boundary(w) ==
    LET j == worker[w].msg.job IN
    /\ worker[w].pc = "boundary"
    /\ IF job[j].state # "RUNNING" THEN Ends(w, "release")
       ELSE IF job[j].cancel # None THEN Goes(w, "settle")
       ELSE \/ Goes(w, "begin")
            \/ j \in MayBeKilled /\ Goes(w, "stop")
            \/ /\ j \in MayBeLate
               /\ IF job[j].class = "INTERACTIVE" /\ j \in DurableJobs
                  THEN Goes(w, "promote")
                  ELSE Breaks(w, "fail", "DEADLINE_EXCEEDED")
    /\ UNCHANGED <<job, lease, wait, step, commands, queue, spent>>

StepOf(w) == Plan(worker[w].msg.job)[worker[w].at]

\* The policies' limit, as the resume and the retry decision compare it.
ExhaustedLate(row) == row.attempts > MaxAttempts    \* mutant: off by one
Exhausted(row) == row.attempts >= MaxAttempts

\* brainStepResumeDecision and beginAttempt: the checkpoint is consulted
\* before anything else, then the attempts; only a RUNNING job's step is started.
\* A checkpoint that cannot be opened (its key is gone) fails the job.
Begin(w) ==
    LET j == worker[w].msg.job
        s == StepOf(w)
        row == step[j][s] IN
    /\ worker[w].pc = "begin"
    /\ IF row.state = "SUCCEEDED"
       THEN /\ \/ NextStep(w) /\ UNCHANGED spent
               \/ Breaks(w, "fail", "INTERNAL") /\ Outage
            /\ UNCHANGED step
       ELSE IF Exhausted(row)
       THEN Breaks(w, "fail", "RETRIES_EXHAUSTED") /\ UNCHANGED <<step, spent>>
       ELSE IF job[j].state # "RUNNING"
       THEN Ends(w, "release") /\ UNCHANGED <<step, spent>>
       ELSE /\ step' = [step EXCEPT ![j][s] =
                           [state |-> "RUNNING", attempts |-> row.attempts + 1]]
            /\ Goes(w, "execute")
            /\ UNCHANGED spent
    /\ UNCHANGED <<job, lease, wait, commands, queue>>

\* LOAD_CONTEXT and COMMIT_RESULT ask Loop, which may be down (a retryable
\* failure) or refuse; the probe calls nobody; revision 1 never commits.
Execute(w) ==
    LET s == StepOf(w) IN
    /\ worker[w].pc = "execute" /\ s # "dark.clarify"
    /\ \/ s # "commit.result" /\ Goes(w, "checkpoint") /\ UNCHANGED spent
       \/ s = "commit.result" /\ Breaks(w, "failstep", "COMMIT_REFUSED")
                              /\ UNCHANGED spent
       \/ s # "dark.probe" /\ \E why \in Refusals : Breaks(w, "failstep", why)
                           /\ UNCHANGED spent
       \/ s # "dark.probe" /\ Goes(w, "failstep") /\ Outage
    /\ UNCHANGED <<job, lease, wait, step, commands, queue>>

\* REQUEST_USER_INPUT: an interactive job is promoted first, in a transaction of
\* its own; then the question is asked and the delivery ends.  Any refusal fails
\* the step and the job.
Clarify(w) ==
    LET j == worker[w].msg.job IN
    /\ worker[w].pc = "execute" /\ StepOf(w) = "dark.clarify"
    /\ IF CanPromote(job[j], j)
       THEN /\ Becomes(j, AfterPromote(job[j]))
            /\ UNCHANGED <<wait, worker>>
       ELSE IF CanAsk(job[j], j)
       THEN \E k \in Waits :
               /\ wait[j][k] = "NONE" /\ \A i \in Waits : i < k => wait[j][i] # "NONE"
               /\ Becomes(j, AfterAsk(job[j], k))
               /\ wait' = [wait EXCEPT ![j][k] = "OPEN"]
               /\ Ends(w, "release")
       ELSE Breaks(w, "failstep", "INTERNAL") /\ UNCHANGED <<job, lease, wait>>
    /\ UNCHANGED <<step, commands, queue, spent>>

RecordCheckpointForgotten(w) ==    \* mutant: the write is not awaited, and lost
    /\ worker[w].pc = "checkpoint"
    /\ NextStep(w)
    /\ UNCHANGED <<job, lease, wait, step, commands, queue, spent>>
\* The driver started this step, so it is RUNNING.
RecordCheckpoint(w) ==
    /\ worker[w].pc = "checkpoint"
    /\ Checkpointed(worker[w].msg.job, StepOf(w))
    /\ NextStep(w)
    /\ UNCHANGED <<job, lease, wait, commands, queue, spent>>

\* recordFailure, then brainStepRetryDecision: Loop being down is worth another
\* attempt, later, while there are attempts; any other failure ends the job.
RecordFailure(w) ==
    LET j == worker[w].msg.job
        s == StepOf(w) IN
    /\ worker[w].pc = "failstep"
    /\ step' = [step EXCEPT ![j][s].state = IF @ = "RUNNING" THEN "FAILED" ELSE @]
    /\ IF worker[w].why # None THEN Goes(w, "fail")
       ELSE IF Exhausted(step[j][s])
       THEN Breaks(w, "fail", "RETRIES_EXHAUSTED")
       ELSE Goes(w, "backoff")
    /\ UNCHANGED <<job, lease, wait, commands, queue, spent>>

\* The next message of the job: at once after a promotion, delayed after a
\* failed attempt.  A send that fails leaves this delivery to be repeated.
Requeue(w) ==
    LET m == [Reference(worker[w].msg.job, "CONTINUE", NoWait) EXCEPT
                 !.when = IF worker[w].pc = "backoff" THEN "LATER" ELSE "NOW"] IN
    /\ worker[w].pc \in {"requeue", "backoff"}
    /\ \/ queue' = queue \cup {m} /\ Ends(w, "release") /\ UNCHANGED spent
       \/ UNCHANGED queue /\ Ends(w, "giveback") /\ Fault
    /\ UNCHANGED <<job, lease, wait, step, commands>>

\* fail writes as the lease's holder: a job that ended meanwhile has no lease, and
\* the refusal leaves the message to be delivered again.
Fail(w) ==
    LET j == worker[w].msg.job IN
    /\ worker[w].pc = "fail"
    /\ IF CanFail(job[j])
       THEN /\ Becomes(j, AfterFail(job[j], worker[w].why))
            /\ wait' = WithClosed(j, "CLOSED")
            /\ Ends(w, "release")
       ELSE Ends(w, "giveback") /\ UNCHANGED <<job, lease, wait>>
    /\ UNCHANGED <<step, commands, queue, spent>>

\* stopByPolicy is requestCancel with a policy's reason; running work is then
\* settled by the same worker.
Stop(w) ==
    LET j == worker[w].msg.job
        after == AfterCancel(job[j], "KILL_SWITCH") IN
    /\ worker[w].pc = "stop"
    /\ IF CanCancel(job[j])
       THEN /\ Becomes(j, after)
            /\ wait' = WithClosed(j, "CLOSED")
            /\ commands' = WithCommand(j, "CANCEL", NoWait)
            /\ IF Terminal(after) THEN Ends(w, "release") ELSE Goes(w, "settle")
       ELSE Ends(w, "release") /\ UNCHANGED <<job, lease, wait, commands>>
    /\ UNCHANGED <<step, queue, spent>>

\* The end of a delivery: the holder gives the lease back, or the call fails and it
\* is left to lapse; the message is deleted, or left to be delivered again.
Release(w) ==
    LET m == worker[w].msg IN
    /\ worker[w].pc \in {"release", "giveback"}
    /\ \/ lease[m.job] # w /\ UNCHANGED <<lease, spent>>
       \/ /\ lease[m.job] = w
          /\ \/ lease' = [lease EXCEPT ![m.job] = None] /\ UNCHANGED spent
             \/ lease' = [lease EXCEPT ![m.job] = "ORPHAN"] /\ Fault
    /\ queue' = queue \cup (IF worker[w].pc = "giveback" THEN Returned(m, lease'[m.job])
                                                     ELSE {})
    /\ worker' = [worker EXCEPT ![w] = Idle]
    /\ UNCHANGED <<job, wait, step, commands>>

\* The invocation dies or runs out of its time, whatever it was doing.
Crash(w) ==
    LET m == worker[w].msg IN
    /\ worker[w].pc # "idle"
    /\ Fault
    /\ lease' = IF lease[m.job] = w THEN [lease EXCEPT ![m.job] = "ORPHAN"] ELSE lease
    /\ queue' = queue \cup Returned(m, lease'[m.job])
    /\ worker' = [worker EXCEPT ![w] = Idle]
    /\ UNCHANGED <<job, wait, step, commands>>

-----------------------------------------------------------------------------
Work(w) ==
    \/ Claim(w)         \/ DispatchRow(w) \/ StartRow(w)  \/ SettleRow(w)
    \/ PromoteRow(w)    \/ ReadExpiry(w)  \/ Expire(w)    \/ Resume(w)
    \/ RecordAnswer(w)  \/ Boundary(w)    \/ Begin(w)     \/ Execute(w)
    \/ Clarify(w)       \/ RecordCheckpoint(w)            \/ RecordFailure(w)
    \/ Requeue(w)       \/ Fail(w)        \/ Stop(w)      \/ Release(w)

Next ==
    \/ \E j \in Jobs : \/ Submit(j)  \/ Cancel(j)  \/ Answer(j)
                       \/ QuestionFallsDue(j)      \/ LeaseLapses(j)
                       \/ SweepTimer(j)            \/ SweepLease(j)
    \/ \E i \in DOMAIN commands : Ring(i) \/ SweepCommand(i) \/ DispatcherDies(i)
    \/ \E w \in Workers : Receive(w) \/ Work(w) \/ Crash(w)
    \/ MessageReappears

Spec == Init /\ [][Next]_vars

\* The platform runs what it accepted: an invocation keeps going, queued
\* messages are delivered, the sweeper is scheduled, and time passes.  Nothing
\* obliges a person to act, a ring to arrive or a fault to happen.
Fairness ==
    /\ \A w \in Workers : WF_vars(Work(w))
    /\ WF_vars(\E w \in Workers : Receive(w))
    /\ WF_vars(MessageReappears)
    /\ WF_vars(\E i \in DOMAIN commands : SweepCommand(i))
    /\ \A j \in Jobs : /\ WF_vars(SweepTimer(j))  /\ WF_vars(SweepLease(j))
                       /\ WF_vars(LeaseLapses(j)) /\ WF_vars(QuestionFallsDue(j))

FairSpec == Spec /\ Fairness

-----------------------------------------------------------------------------
(* What must hold.                                                          *)

WaitStatus == {"NONE", "OPEN", "DUE", "ANSWERED", "EXPIRED", "CLOSED"}
StepRow == [state : {"NONE", "RUNNING", "SUCCEEDED", "FAILED"},
            attempts : 0 .. MaxAttempts]
Command == [job : Jobs, type : CommandTypes, wait : Waits \cup {NoWait},
            sent : BOOLEAN]

\* The type of every variable.
TypeOK ==
    /\ job \in [Jobs -> JobRecord]
    /\ lease \in [Jobs -> Workers \cup {None, "ORPHAN", "LAPSED"}]
    /\ wait \in [Jobs -> [Waits -> WaitStatus]]
    /\ step \in [Jobs -> [StepKeys -> StepRow]]
    /\ commands \in Seq(Command)
    /\ queue \subseteq Message
    /\ worker \in [Workers -> Invocation]
    /\ spent \in [faults : 0 .. MaxFaults, outages : 0 .. MaxOutages,
                  copies : 0 .. MaxCopies]

Driving(w) == worker[w].pc \notin {"idle", "claim"}

\* However deliveries, retries, takeovers and crashes interleave, a worker that
\* is past its claim holds the lease of its job or the job has ended under it,
\* so no two advance one job; and a job that has ended is leased to nobody (the
\* database's CHECK says so too), so nothing looks for it again.
OneDriver ==
    /\ \A w \in Workers : Driving(w) =>
           LET j == worker[w].msg.job IN lease[j] = w \/ Terminal(job[j])
    /\ \A j \in Jobs : Terminal(job[j]) => lease[j] = None

\* The two rows of a question agree: a question that is unanswered is the one
\* its job waits on, a waiting job waits on a question it asked, an expired
\* question ended its job, and a recorded reply has its RESUME command.
QuestionMatchesJob == \A j \in Jobs :
    /\ \A k \in Waits :
        /\ wait[j][k] \in Unanswered =>
              job[j].state = "WAITING_FOR_USER" /\ job[j].wait = k
        /\ wait[j][k] = "EXPIRED" => job[j].end = "WAIT_EXPIRED"
        /\ wait[j][k] = "ANSWERED" <=> Stored(j, "RESUME", k)
    /\ job[j].state = "WAITING_FOR_USER" =>
          wait[j][job[j].wait] \in Unanswered \cup {"ANSWERED"}

\* Work is repeated only because something failed: a step is attempted again,
\* and a person asked again, at most once for each fault (or, for a step,
\* outage) so far, however many messages, rings and takeovers name the job.
RepeatsAreExplained == \A j \in Jobs :
    /\ \A s \in StepKeys :
          step[j][s].attempts <= 1 + spent.faults + spent.outages
    /\ Cardinality({k \in Waits : wait[j][k] # "NONE"}) <= 1 + spent.faults

\* A step that was reached has results behind it: when a step is started, every
\* earlier step of the plan has its checkpoint, whichever worker recorded it.
StepsInOrder == \A j \in Jobs : \A h, i \in DOMAIN Plan(j) :
    h < i /\ step[j][Plan(j)[i]].attempts > 0 =>
        step[j][Plan(j)[h]].state = "SUCCEEDED"

\* A recorded result and a recorded reply are never run over again or replaced.
RecordsStand == [][\A j \in Jobs :
    /\ \A s \in StepKeys :
          step[j][s].state = "SUCCEEDED" => step'[j][s] = step[j][s]
    /\ \A k \in Waits : wait[j][k] = "ANSWERED" => wait'[j][k] = "ANSWERED"]_vars

\* A job that ended is done: nobody records anything of its steps or questions
\* afterwards, whoever was still working on it when it ended.
EndedWorkStopped == [][\A j \in Jobs :
    Terminal(job[j]) => step'[j] = step[j] /\ wait'[j] = wait[j]]_vars

Contract == INSTANCE BrainJobContract
\* Every component moves a job only as the contract allows.
ImplementsContract == Contract!Spec

\* Whatever crashes, an unfinished job that does not wait for a person has
\* something that will look at it again: a worker, a message, a lease that will
\* be found, or, before it was dispatched, a START that was not.
HasWake == \A j \in Jobs :
    job[j].state \in {"ACCEPTED", "QUEUED", "RUNNING"} =>
        \/ lease[j] # None
        \/ \E m \in queue : m.job = j
        \/ \E w \in Workers : worker[w].msg.job = j
        \/ /\ job[j].state = "ACCEPTED"
           /\ \E i \in Undispatched : commands[i].job = j /\ commands[i].type = "START"

\* Unfinished work ends, or rests on a question a person has answered: work
\* that was cancelled, crashed, lost its ring or was never answered ends.
UnfinishedWorkEnds == \A j \in Jobs :
    Live(job[j]) ~> \/ Terminal(job[j])
                    \/ \E k \in Waits : job[j].wait = k /\ wait[j][k] = "ANSWERED"

\* A recorded reply continues the job (brain-work.service.ts answers the person
\* that it was recorded; the RESUME command exists for it).
AnsweredWorkResumes == \A j \in Jobs : \A k \in Waits :
    (job[j].wait = k /\ wait[j][k] = "ANSWERED") ~> job[j].wait # k

\* "The sweeper will find it.  A lost ring is not a lost job."
LostRingIsNotALostJob == \A j \in Jobs :
    job[j].state = "ACCEPTED" ~> job[j].state # "ACCEPTED"

\* Expiry closes the question: a job that ends because nobody answered has no
\* recorded answer.
ExpiredQuestionWasUnanswered == \A j \in Jobs :
    job[j].end = "WAIT_EXPIRED" => \E k \in Waits : wait[j][k] = "EXPIRED"

\* "The holder will carry the job forward": a promoted job goes on and ends.
PromotedWorkEnds == \A j \in Jobs :
    (job[j].promoted /\ job[j].state = "RUNNING") ~> job[j].state # "RUNNING"
=============================================================================
