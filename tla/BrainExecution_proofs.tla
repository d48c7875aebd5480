------------------------ MODULE BrainExecution_proofs ------------------------
(***************************************************************************)
(* Theorems of BrainExecution, for any jobs, workers and bounds.           *)
(*                                                                         *)
(* TInv is the type invariant made inductive: it adds the shape of a row,  *)
(* that a queued message still has a delivery left, that a worker which    *)
(* fails its job has a reason, and that a worker's place in the plan       *)
(* exists, which needs that the last step (whose attempt never succeeds in *)
(* this revision) is never passed.                                         *)
(***************************************************************************)
EXTENDS BrainExecution, BrainJob_proofs

JobOK == job \in [Jobs -> JobRecord] /\ \A j \in Jobs : Shape(job[j])
LeaseOK == lease \in [Jobs -> Workers \cup {None, "ORPHAN", "LAPSED"}]
WaitOK == wait \in [Jobs -> [Waits -> WaitStatus]]
StepOK ==
    /\ step \in [Jobs -> [StepKeys -> StepRow]]
    /\ \A j \in Jobs : step[j]["commit.result"].state # "SUCCEEDED"
CommandsOK == commands \in Seq(Command)
Deliverable == {m \in Message : m.n < MaxReceive}
QueueOK == queue \subseteq Deliverable
InvocationOK(v) ==
    /\ v.pc # "idle" =>
          v.msg \in Message /\ v.at \in DOMAIN Plan(v.msg.job)
    /\ v.pc = "fail" => v.why # None
    /\ v.pc = "checkpoint" => Plan(v.msg.job)[v.at] # "commit.result"
WorkersOK ==
    /\ worker \in [Workers -> Invocation]
    /\ \A w \in Workers : InvocationOK(worker[w])
SpentOK == spent \in [faults : 0 .. MaxFaults, outages : 0 .. MaxOutages,
                      copies : 0 .. MaxCopies]

TInv == /\ JobOK /\ LeaseOK /\ WaitOK /\ StepOK
        /\ CommandsOK /\ QueueOK /\ WorkersOK /\ SpentOK

\* What TypeOK says of the state is part of TInv.
LEMMA TInvTypes == TInv => TypeOK
BY DEF TInv, TypeOK, JobOK, LeaseOK, WaitOK, StepOK, CommandsOK, QueueOK,
       Deliverable, WorkersOK, SpentOK

-----------------------------------------------------------------------------
(* The operators the actions are built from.                                *)

\* A place in the plan has a step of the plan, and the next place exists after
\* every step but the commit.
LEMMA PlanFacts ==
    ASSUME NEW j \in Jobs, NEW i \in DOMAIN Plan(j)
    PROVE  /\ i \in 1 .. 4
           /\ Plan(j)[i] \in StepKeys
           /\ Plan(j)[i] # "commit.result" => i + 1 \in DOMAIN Plan(j)
           /\ 1 \in DOMAIN Plan(j)
BY DEF Plan, StepKeys

\* A step that writes one variable keeps what is said of the others.
LEMMA Untouched ==
    /\ JobOK /\ UNCHANGED job => JobOK'
    /\ LeaseOK /\ UNCHANGED lease => LeaseOK'
    /\ WaitOK /\ UNCHANGED wait => WaitOK'
    /\ StepOK /\ UNCHANGED step => StepOK'
    /\ CommandsOK /\ UNCHANGED commands => CommandsOK'
    /\ QueueOK /\ UNCHANGED queue => QueueOK'
    /\ WorkersOK /\ UNCHANGED worker => WorkersOK'
    /\ SpentOK /\ UNCHANGED spent => SpentOK'
BY DEF JobOK, LeaseOK, WaitOK, StepOK, CommandsOK, QueueOK, WorkersOK, SpentOK

\* A sound move of one row, with the lease an ended row gives up.
LEMMA BecomesKeeps ==
    ASSUME JobOK, LeaseOK, NEW j \in Jobs, NEW b, SoundMove(job[j], b), Becomes(j, b)
    PROVE  /\ JobOK' /\ LeaseOK'
           /\ job'[j] = b
           /\ \A i \in Jobs : i # j => job'[i] = job[i] /\ lease'[i] = lease[i]
           /\ lease'[j] = IF Terminal(b) THEN None ELSE lease[j]
BY DEF JobOK, LeaseOK, Becomes, SoundMove

\* Storing one more command keeps the list of commands well formed.
LEMMA CommandKept ==
    ASSUME CommandsOK, NEW j \in Jobs, NEW type \in CommandTypes,
           NEW k \in Waits \cup {NoWait}, commands' = WithCommand(j, type, k)
    PROVE  CommandsOK'
<1> DEFINE c == [job |-> j, type |-> type, wait |-> k, sent |-> FALSE]
<1>1. c \in Command
  BY DEF Command
<1>2. Append(commands, c) \in Seq(Command)
  BY <1>1 DEF CommandsOK
<1> QED BY <1>2 DEF CommandsOK, WithCommand

\* Closing a job's questions keeps every question's status a status.
LEMMA ClosingKept ==
    ASSUME WaitOK, NEW j \in Jobs, NEW status \in {"CLOSED", "EXPIRED"},
           wait' = WithClosed(j, status)
    PROVE  WaitOK'
BY DEF WaitOK, WithClosed, WaitStatus

\* A step's row is replaced by another; only the commit may never succeed.
LEMMA StepRowKept ==
    ASSUME StepOK, NEW j \in Jobs, NEW s \in StepKeys, NEW r \in StepRow,
           s = "commit.result" => r.state # "SUCCEEDED",
           step' = [step EXCEPT ![j][s] = r]
    PROVE  StepOK'
BY DEF StepOK, StepKeys

\* A checkpoint turns a step's row into a succeeded one and keeps the rows well formed.
LEMMA CheckpointKept ==
    ASSUME StepOK, NEW j \in Jobs, NEW s \in StepKeys \ {"commit.result"},
           Checkpointed(j, s)
    PROVE  StepOK'
<1> DEFINE r == [step[j][s] EXCEPT !.state = IF @ = "RUNNING" THEN "SUCCEEDED" ELSE @]
<1>1. step[j][s] \in StepRow
  BY DEF StepOK
<1>2. r \in StepRow
  <2>1. CASE step[j][s].state = "RUNNING"
    BY <1>1, <2>1 DEF StepRow
  <2>2. CASE step[j][s].state # "RUNNING"
    BY <1>1, <2>2 DEF StepRow
  <2> QED BY <2>1, <2>2
<1>3. step' = [step EXCEPT ![j][s] = r]
  BY Zenon DEF Checkpointed
<1> QED BY <1>2, <1>3, StepRowKept

\* What is spent of the faults, outages and copies stays within its bound.
LEMMA SpendingKept ==
    ASSUME SpentOK, Fault \/ Outage \/ Copy \/ UNCHANGED spent
    PROVE  SpentOK'
BY BoundsAssumption DEF SpentOK, Fault, Outage, Copy

\* A command or a sweep puts a message on the queue that a worker can receive.
LEMMA ReferenceDeliverable ==
    ASSUME NEW j \in Jobs, NEW reason \in Reasons, NEW k \in Waits \cup {NoWait}
    PROVE  Reference(j, reason, k) \in Deliverable
BY BoundsAssumption DEF Reference, Deliverable, Message

\* So does a worker that does not delete the message it holds.
LEMMA ReturnedDeliverable ==
    ASSUME NEW m \in Message, NEW l
    PROVE  Returned(m, l) \subseteq Deliverable
BY DEF Returned, Deliverable, Message

\* So do all the workers one write of a row overtakes.
LEMMA GivenBackDeliverable ==
    ASSUME WorkersOK, NEW hit \in SUBSET Workers, NEW l
    PROVE  GivenBack(hit, l) \subseteq Deliverable
<1>1. \A w \in hit : worker[w].pc = "claim" =>
          Returned(worker[w].msg, l) \subseteq Deliverable
  BY ReturnedDeliverable DEF WorkersOK, InvocationOK
<1> QED BY <1>1 DEF GivenBack

\* What a worker may become: Idle, and what each continuation makes of it.
LEMMA IdleFits == Idle \in Invocation /\ InvocationOK(Idle)
BY DEF Idle, Invocation, InvocationOK, Places, NoWait, None

\* A worker that becomes a fitting invocation leaves the workers well formed.
LEMMA BecomingKept ==
    ASSUME WorkersOK, NEW w \in Workers, NEW v \in Invocation, InvocationOK(v),
           worker' = [worker EXCEPT ![w] = v]
    PROVE  WorkersOK'
BY DEF WorkersOK

\* A worker may go to any place whose demands on its reason and step it meets.
LEMMA GoesKept ==
    ASSUME WorkersOK, NEW w \in Workers, worker[w].pc # "idle",
           NEW pc \in Places, Goes(w, pc),
           pc = "fail" => worker[w].why # None,
           pc = "checkpoint" => StepOf(w) # "commit.result"
    PROVE  WorkersOK'
BY DEF WorkersOK, InvocationOK, Invocation, Goes, StepOf

\* A worker whose step failed goes on with the reason for it.
LEMMA BreaksKept ==
    ASSUME WorkersOK, NEW w \in Workers, worker[w].pc # "idle",
           NEW pc \in {"fail", "failstep"}, NEW why \in FailureReasons,
           Breaks(w, pc, why)
    PROVE  WorkersOK'
<1>1. why # None
  BY DEF FailureReasons, None
<1>2. pc \in Places
  BY DEF Places
<1> QED BY <1>1, <1>2 DEF WorkersOK, InvocationOK, Invocation, Breaks

\* A worker done with its job keeps only the message it was given.
LEMMA EndsKept ==
    ASSUME WorkersOK, NEW w \in Workers, worker[w].pc # "idle",
           NEW pc \in {"release", "giveback"}, Ends(w, pc)
    PROVE  WorkersOK'
<1> DEFINE v == [Idle EXCEPT !.pc = pc, !.msg = worker[w].msg]
<1>1. worker[w] \in Invocation /\ worker[w].msg \in Message
  BY DEF WorkersOK, InvocationOK
<1>2. worker[w].msg.job \in Jobs
  BY <1>1 DEF Message
<1>3. v \in Invocation
  BY <1>1, IdleFits DEF Invocation, Places
<1>4. 1 \in DOMAIN Plan(worker[w].msg.job)
  BY DEF Plan
<1>5. InvocationOK(v)
  BY <1>1, <1>4 DEF Idle, InvocationOK
<1> QED BY <1>3, <1>5, BecomingKept DEF Ends

\* A worker not at the last step may go on to the next one.
LEMMA NextStepKept ==
    ASSUME WorkersOK, NEW w \in Workers, worker[w].pc # "idle",
           StepOf(w) # "commit.result", NextStep(w)
    PROVE  WorkersOK'
<1>1. /\ worker[w] \in Invocation /\ worker[w].msg \in Message
      /\ worker[w].at \in DOMAIN Plan(worker[w].msg.job)
  BY DEF WorkersOK, InvocationOK
<1>2. worker[w].msg.job \in Jobs
  BY <1>1 DEF Message
<1>3. worker[w].at + 1 \in DOMAIN Plan(worker[w].msg.job)
  BY <1>1, <1>2, PlanFacts DEF StepOf
<1>4. worker[w].at + 1 \in 1 .. 4
  BY <1>2, <1>3, PlanFacts
<1> QED BY <1>1, <1>3, <1>4 DEF WorkersOK, InvocationOK, Invocation, Places, NextStep

\* The workers that a write of their job's row overtakes remain well formed.
LEMMA OvertakenKept ==
    ASSUME WorkersOK, NEW j \in Jobs, NEW hit \in SUBSET Exposed(j),
           worker' = [w \in Workers |-> IF w \in hit THEN Overtaken(w) ELSE worker[w]]
    PROVE  WorkersOK'
<1>1. ASSUME NEW w \in hit
      PROVE  Overtaken(w) \in Invocation /\ InvocationOK(Overtaken(w))
  <2>1. w \in Workers /\ worker[w].pc # "idle"
    BY DEF Exposed
  <2>2. worker[w] \in Invocation /\ InvocationOK(worker[w])
    BY <2>1 DEF WorkersOK
  <2> USE <2>1, <2>2 DEF Overtaken, Invocation, InvocationOK, Places
  <2>3. CASE worker[w].pc = "claim"
    BY <2>3, IdleFits
  <2>4. CASE worker[w].pc = "expire"
    BY <2>4
  <2>5. CASE worker[w].pc = "execute"
    BY <2>5 DEF FailureReasons
  <2>6. CASE worker[w].pc \notin {"claim", "expire", "execute"}
    BY <2>6
  <2> QED BY <2>3, <2>4, <2>5, <2>6
<1>2. hit \subseteq Workers
  BY DEF Exposed
<1> QED BY <1>1, <1>2 DEF WorkersOK

-----------------------------------------------------------------------------
(* TInv is inductive: one step per action.                                  *)

\* Nothing is submitted, queued or received at the start.
LEMMA InitTInv == Init => TInv
<1> SUFFICES ASSUME Init PROVE TInv
  OBVIOUS
<1> USE DEF Init
<1>1. JobOK
  BY DEF JobOK, Absent, JobRecord, States, Shape, QuestionShape, EndingShape, StopShape
<1>2. LeaseOK /\ WaitOK /\ CommandsOK /\ QueueOK
  BY DEF LeaseOK, WaitOK, WaitStatus, CommandsOK, QueueOK
<1>3. StepOK
  BY BoundsAssumption DEF StepOK, StepRow, StepKeys
<1>4. WorkersOK
  BY IdleFits DEF WorkersOK
<1>5. SpentOK
  BY BoundsAssumption DEF SpentOK
<1> QED BY <1>1, <1>2, <1>3, <1>4, <1>5 DEF TInv

\* The steps of the people and of the clock.
LEMMA PeopleKeepTInv ==
    ASSUME TInv, NEW j \in Jobs
    PROVE  /\ Submit(j) => TInv'
           /\ Cancel(j) => TInv'
           /\ Answer(j) => TInv'
           /\ QuestionFallsDue(j) => TInv'
           /\ LeaseLapses(j) => TInv'
<1> USE Untouched DEF TInv
<1>0. job[j] \in JobRecord /\ Shape(job[j])
  BY DEF JobOK
<1>1. ASSUME Submit(j) PROVE TInv'
  <2>1. PICK cls \in {"INTERACTIVE", "DURABLE"} :
            CanAccept(job[j], j, cls) /\ Becomes(j, AfterAccept(job[j], cls))
    BY <1>1 DEF Submit
  <2>2. JobOK' /\ LeaseOK'
    BY <1>0, <2>1, EventsAreSound, BecomesKeeps
  <2>3. CommandsOK'
    BY <1>1, CommandKept DEF Submit, CommandTypes
  <2> QED BY <1>1, <2>2, <2>3 DEF Submit
<1>2. ASSUME Cancel(j) PROVE TInv'
  <2> DEFINE after == AfterCancel(job[j], "REQUESTED_BY_PRINCIPAL")
  <2>1. SoundMove(job[j], after)
    BY <1>0, <1>2, EventsAreSound DEF Cancel, RequestReasons
  <2>2. JobOK' /\ LeaseOK'
    BY <1>2, <2>1, BecomesKeeps DEF Cancel
  <2>3. WaitOK' /\ CommandsOK'
    BY <1>2, ClosingKept, CommandKept DEF Cancel, CommandTypes
  <2>4. PICK hit \in SUBSET Exposed(j) :
            /\ worker' = [w \in Workers |->
                              IF w \in hit THEN Overtaken(w) ELSE worker[w]]
            /\ queue' = queue \cup GivenBack(hit, lease'[j])
    BY <1>2 DEF Cancel
  <2>5. WorkersOK'
    BY <2>4, OvertakenKept
  <2>6. hit \in SUBSET Workers
    BY DEF Exposed
  <2>7. QueueOK'
    BY <2>4, <2>6, GivenBackDeliverable DEF QueueOK
  <2> QED BY <1>2, <2>2, <2>3, <2>5, <2>7 DEF Cancel
<1>3. ASSUME Answer(j) PROVE TInv'
  <2>1. PICK k \in Waits : /\ wait' = [wait EXCEPT ![j][k] = "ANSWERED"]
                           /\ commands' = WithCommand(j, "RESUME", k)
    BY <1>3 DEF Answer
  <2>2. WaitOK'
    BY <2>1 DEF WaitOK, WaitStatus
  <2>3. CommandsOK'
    BY <2>1, CommandKept DEF CommandTypes
  <2> QED BY <1>3, <2>2, <2>3 DEF Answer
<1>4. ASSUME QuestionFallsDue(j) PROVE TInv'
  <2>1. WaitOK'
    BY <1>4 DEF QuestionFallsDue, WaitOK, WaitStatus
  <2> QED BY <1>4, <2>1 DEF QuestionFallsDue
<1>5. ASSUME LeaseLapses(j) PROVE TInv'
  <2>1. LeaseOK'
    BY <1>5 DEF LeaseLapses, LeaseOK
  <2> QED BY <1>5, <2>1 DEF LeaseLapses
<1> QED BY <1>1, <1>2, <1>3, <1>4, <1>5

\* The dispatcher's steps: a command is sent as a reference, and marked.
LEMMA DispatcherKeepsTInv ==
    ASSUME TInv, NEW i \in DOMAIN commands
    PROVE  /\ Ring(i) => TInv'
           /\ SweepCommand(i) => TInv'
           /\ DispatcherDies(i) => TInv'
<1> USE Untouched DEF TInv
<1>1. commands[i] \in Command
  BY DEF CommandsOK
<1>2. ASSUME Dispatch(i) PROVE QueueOK'
  <2>1. Reference(commands[i].job, commands[i].type, commands[i].wait) \in Deliverable
    BY <1>1, ReferenceDeliverable DEF Command, Reasons
  <2> QED BY <1>2, <2>1 DEF Dispatch, QueueOK
<1>3. ASSUME Marked(i) PROVE CommandsOK'
  <2>1. [commands[i] EXCEPT !.sent = TRUE] \in Command
    BY <1>1 DEF Command
  <2>2. commands' = [commands EXCEPT ![i] = [commands[i] EXCEPT !.sent = TRUE]]
    BY <1>3 DEF Marked
  <2> QED BY <2>1, <2>2 DEF CommandsOK
<1>4. ASSUME Ring(i) PROVE TInv'
  BY <1>2, <1>3, <1>4, SpendingKept DEF Ring, Dispatch
<1>5. ASSUME SweepCommand(i) PROVE TInv'
  BY <1>2, <1>3, <1>5 DEF SweepCommand, Dispatch
<1>6. ASSUME DispatcherDies(i) PROVE TInv'
  BY <1>2, <1>6, SpendingKept DEF DispatcherDies, Dispatch
<1> QED BY <1>4, <1>5, <1>6

\* The sweeper's wakeups, and messages that become visible.
LEMMA WakeupsKeepTInv ==
    ASSUME TInv
    PROVE  /\ \A j \in Jobs : SweepTimer(j) \/ SweepLease(j) => TInv'
           /\ MessageReappears => TInv'
<1> USE Untouched DEF TInv
<1>1. ASSUME NEW j \in Jobs, SweepTimer(j) \/ SweepLease(j) PROVE TInv'
  <2>1. /\ Reference(j, "TIMER", NoWait) \in Deliverable
        /\ Reference(j, "RECOVERY", NoWait) \in Deliverable
    BY ReferenceDeliverable DEF Reasons
  <2>2. PICK reason \in {"TIMER", "RECOVERY"} : Wakes(j, reason)
    BY <1>1 DEF SweepTimer, SweepLease
  <2>3. QueueOK' /\ SpentOK'
    BY <2>1, <2>2, SpendingKept DEF Wakes, QueueOK
  <2> QED BY <1>1, <2>3 DEF SweepTimer, SweepLease
<1>2. ASSUME MessageReappears PROVE TInv'
  <2>1. PICK m \in queue : queue' = (queue \ {m}) \cup {[m EXCEPT !.when = "NOW"]}
    BY <1>2 DEF MessageReappears
  <2>2. [m EXCEPT !.when = "NOW"] \in Deliverable
    BY DEF QueueOK, Deliverable, Message
  <2>3. QueueOK'
    BY <2>1, <2>2 DEF QueueOK
  <2> QED BY <1>2, <2>3 DEF MessageReappears
<1> QED BY <1>1, <1>2

\* What TInv says of a busy worker.
LEMMA BusyWorker ==
    ASSUME TInv, NEW w \in Workers, worker[w].pc # "idle"
    PROVE  /\ worker[w] \in Invocation
           /\ worker[w].msg \in Message
           /\ worker[w].msg.job \in Jobs
           /\ Row(w) \in JobRecord /\ Shape(Row(w))
           /\ worker[w].at \in DOMAIN Plan(worker[w].msg.job)
           /\ StepOf(w) \in StepKeys
<1>1. /\ worker[w] \in Invocation /\ worker[w].msg \in Message
      /\ worker[w].at \in DOMAIN Plan(worker[w].msg.job)
  BY DEF TInv, WorkersOK, InvocationOK
<1>2. worker[w].msg.job \in Jobs
  BY <1>1 DEF Message
<1>3. Row(w) \in JobRecord /\ Shape(Row(w))
  BY <1>2 DEF TInv, JobOK, Row
<1>4. StepOf(w) \in StepKeys
  BY <1>1, <1>2, PlanFacts DEF StepOf
<1> QED BY <1>1, <1>2, <1>3, <1>4

\* A delivery begins: Receive and Claim.
LEMMA DeliveryKeepsTInv ==
    ASSUME TInv, NEW w \in Workers
    PROVE  /\ Receive(w) => TInv'
           /\ Claim(w) => TInv'
<1> USE Untouched DEF TInv
<1>1. ASSUME Receive(w) PROVE TInv'
  <2>1. PICK m \in queue :
            /\ \/ queue' = queue \ {m} /\ UNCHANGED spent
               \/ queue' = queue /\ Copy
            /\ \/ UNCHANGED worker
               \/ worker' = [worker EXCEPT ![w] =
                     [Idle EXCEPT !.pc = "claim", !.msg = [m EXCEPT !.n = @ + 1]]]
    BY <1>1 DEF Receive
  <2>2. QueueOK' /\ SpentOK'
    BY <2>1, SpendingKept DEF QueueOK
  <2>3. [m EXCEPT !.n = @ + 1] \in Message
    BY BoundsAssumption DEF QueueOK, Deliverable, Message
  <2> DEFINE v == [Idle EXCEPT !.pc = "claim", !.msg = [m EXCEPT !.n = @ + 1]]
  <2>4. v \in Invocation
    BY <2>3, IdleFits DEF Invocation, Places
  <2>5. v.pc = "claim" /\ v.at = 1 /\ v.msg = [m EXCEPT !.n = @ + 1]
    BY <2>3 DEF Idle
  <2>6. InvocationOK(v)
    BY <2>3, <2>5 DEF InvocationOK, Plan
  <2>7. WorkersOK'
    BY <2>1, <2>4, <2>6, BecomingKept
  <2> QED BY <1>1, <2>2, <2>7 DEF Receive
<1>2. ASSUME Claim(w) PROVE TInv'
  <2> DEFINE j == worker[w].msg.job
  <2>1. worker[w].pc = "claim" /\ j \in Jobs /\ worker[w] \in Invocation
    BY <1>2, BusyWorker DEF Claim
  <2>2. CASE Terminal(job[j]) \/ ~Free(j)
    BY <1>2, <2>2, IdleFits, BecomingKept DEF Claim
  <2>3. CASE ~(Terminal(job[j]) \/ ~Free(j))
    <3>1. LeaseOK'
      BY <1>2, <2>1, <2>3 DEF Claim, LeaseOK
    <3>2. PICK hit \in SUBSET {v \in Exposed(j) \ {w} : worker[v].pc = "claim"},
               pc \in {Entry(j, worker[w].msg.reason)} \cup {"stop"} :
             /\ worker' = [v \in Workers |->
                   CASE v = w -> [worker[w] EXCEPT !.pc = pc, !.asked = job[j].wait]
                     [] v \in hit -> Overtaken(v)
                     [] OTHER -> worker[v]]
             /\ queue' = queue \cup GivenBack(hit, w)
      BY <1>2, <2>3 DEF Claim
    <3>3. hit \in SUBSET Workers /\ \A v \in hit : Overtaken(v) = Idle
      BY DEF Exposed, Overtaken
    <3>4. QueueOK'
      BY <3>2, <3>3, GivenBackDeliverable DEF QueueOK
    <3>5. pc \in Places \ {"fail", "checkpoint", "idle"}
      BY <3>2 DEF Entry, WaitingEntry, Places
    <3> DEFINE v == [worker[w] EXCEPT !.pc = pc, !.asked = job[j].wait]
    <3>6. job[j].wait \in Waits \cup {NoWait}
      BY <2>1 DEF JobOK, JobRecord
    <3>7. v \in Invocation /\ InvocationOK(v)
      BY <2>1, <3>5, <3>6 DEF WorkersOK, InvocationOK, Invocation
    <3>8. WorkersOK'
      BY <3>2, <3>3, <3>7, IdleFits DEF WorkersOK
    <3> QED BY <1>2, <2>3, <3>1, <3>4, <3>8 DEF Claim
  <2> QED BY <2>2, <2>3
<1> QED BY <1>1, <1>2

\* The transitions a worker makes on its way: each is one Move.
LEMMA MoveKeepsTInv ==
    ASSUME TInv, NEW w \in Workers, NEW pc \in Places \ {"idle"}, NEW can, NEW after,
           NEW next \in Places \ {"idle", "fail", "checkpoint"},
           can => SoundMove(Row(w), after),
           Move(w, pc, can, after, next)
    PROVE  TInv'
<1> USE Untouched DEF TInv
<1>1. worker[w].pc # "idle"
  BY DEF Move
<1>2. worker[w].msg.job \in Jobs
  BY <1>1, BusyWorker
<1>3. CASE can
  <2>1. SoundMove(job[worker[w].msg.job], after) /\ Becomes(worker[w].msg.job, after)
    BY <1>3 DEF Move, Row
  <2>2. JobOK' /\ LeaseOK'
    BY <1>2, <2>1, BecomesKeeps
  <2>3. WorkersOK'
    BY <1>1, <1>3, GoesKept DEF Move
  <2> QED BY <2>2, <2>3 DEF Move
<1>4. CASE ~can
  <2>1. WorkersOK'
    BY <1>1, <1>4, EndsKept DEF Move
  <2> QED BY <1>4, <2>1 DEF Move
<1> QED BY <1>3, <1>4

\* The four moves of a row that a delivery begins with.
LEMMA TransitionsKeepTInv ==
    ASSUME TInv, NEW w \in Workers
    PROVE  /\ DispatchRow(w) => TInv'
           /\ StartRow(w) => TInv'
           /\ SettleRow(w) => TInv'
           /\ PromoteRow(w) => TInv'
<1>1. ASSUME worker[w].pc # "idle"
      PROVE  /\ CanDispatch(Row(w)) => SoundMove(Row(w), AfterDispatch(Row(w)))
             /\ CanStart(Row(w)) => SoundMove(Row(w), AfterStart(Row(w)))
             /\ CanSettle(Row(w)) => SoundMove(Row(w), AfterSettle(Row(w)))
             /\ CanPromote(Row(w), worker[w].msg.job) =>
                    SoundMove(Row(w), AfterPromote(Row(w)))
  BY <1>1, BusyWorker, EventsAreSound
<1>2. /\ {"dispatch", "start", "settle", "promote"} \subseteq Places \ {"idle"}
      /\ {"start", "boundary", "release", "requeue"}
            \subseteq Places \ {"idle", "fail", "checkpoint"}
  BY DEF Places
<1>3. ASSUME DispatchRow(w) PROVE TInv'
  <2>1. worker[w].pc # "idle"
    BY <1>3 DEF DispatchRow, Move
  <2> QED BY <1>1, <1>2, <1>3, <2>1, MoveKeepsTInv DEF DispatchRow
<1>4. ASSUME StartRow(w) PROVE TInv'
  <2>1. worker[w].pc # "idle"
    BY <1>4 DEF StartRow, Move
  <2> QED BY <1>1, <1>2, <1>4, <2>1, MoveKeepsTInv DEF StartRow
<1>5. ASSUME SettleRow(w) PROVE TInv'
  <2>1. worker[w].pc # "idle"
    BY <1>5 DEF SettleRow, Move
  <2> QED BY <1>1, <1>2, <1>5, <2>1, MoveKeepsTInv DEF SettleRow
<1>6. ASSUME PromoteRow(w) PROVE TInv'
  <2>1. worker[w].pc # "idle"
    BY <1>6 DEF PromoteRow, Move
  <2> QED BY <1>1, <1>2, <1>6, <2>1, MoveKeepsTInv DEF PromoteRow
<1> QED BY <1>3, <1>4, <1>5, <1>6

\* The question's expiry and its reply.
LEMMA QuestionsKeepTInv ==
    ASSUME TInv, NEW w \in Workers
    PROVE  /\ ReadExpiry(w) => TInv'
           /\ Expire(w) => TInv'
           /\ Resume(w) => TInv'
           /\ RecordAnswer(w) => TInv'
<1> USE Untouched DEF TInv
<1> DEFINE j == worker[w].msg.job
<1>1. /\ {"expire", "record", "boundary"} \subseteq Places \ {"fail", "checkpoint"}
      /\ "ACCESS_WITHDRAWN" \in FailureReasons
  BY DEF Places, FailureReasons
<1>2. ASSUME ReadExpiry(w) PROVE TInv'
  <2>1. worker[w].pc # "idle"
    BY <1>2 DEF ReadExpiry
  <2>2. Goes(w, "expire") \/ Ends(w, "release")
    BY <1>2 DEF ReadExpiry
  <2>3. WorkersOK'
    BY <1>1, <2>1, <2>2, GoesKept, EndsKept
  <2> QED BY <1>2, <2>3 DEF ReadExpiry
<1>3. ASSUME Expire(w) PROVE TInv'
  <2>1. worker[w].pc # "idle" /\ Ends(w, "release")
    BY <1>3 DEF Expire
  <2>2. WorkersOK' /\ j \in Jobs /\ job[j] \in JobRecord /\ Shape(job[j])
    BY <2>1, EndsKept, BusyWorker DEF Row
  <2>3. CASE CanExpire(job[j], worker[w].asked)
    <3>1. SoundMove(job[j], AfterExpire(job[j]))
      BY <2>2, <2>3, EventsAreSound
    <3>2. JobOK' /\ LeaseOK'
      BY <1>3, <2>2, <2>3, <3>1, BecomesKeeps DEF Expire
    <3>3. WaitOK'
      BY <1>3, <2>2, <2>3, ClosingKept DEF Expire
    <3> QED BY <1>3, <2>2, <3>2, <3>3 DEF Expire
  <2>4. CASE ~CanExpire(job[j], worker[w].asked)
    BY <1>3, <2>2, <2>4 DEF Expire
  <2> QED BY <2>3, <2>4
<1>4. ASSUME Resume(w) PROVE TInv'
  <2> DEFINE k == worker[w].asked
  <2>1. worker[w].pc # "idle"
    BY <1>4 DEF Resume
  <2>2. j \in Jobs /\ job[j] \in JobRecord /\ Shape(job[j])
    BY <2>1, BusyWorker DEF Row
  <2>3. CASE Outage /\ Ends(w, "giveback") /\ UNCHANGED <<job, lease>>
    BY <1>4, <2>1, <2>3, EndsKept, SpendingKept DEF Resume
  <2>4. CASE Breaks(w, "fail", "ACCESS_WITHDRAWN") /\ UNCHANGED <<job, lease, spent>>
    BY <1>1, <1>4, <2>1, <2>4, BreaksKept DEF Resume
  <2>5. CASE Ends(w, "release") /\ UNCHANGED <<job, lease, spent>>
    BY <1>4, <2>1, <2>5, EndsKept DEF Resume
  <2>6. CASE /\ CanResume(job[j], k, TRUE) /\ Becomes(j, AfterResume(job[j]))
             /\ Goes(w, "record") /\ UNCHANGED spent
    <3>1. SoundMove(job[j], AfterResume(job[j]))
      BY <2>2, <2>6, EventsAreSound
    <3>2. JobOK' /\ LeaseOK'
      BY <2>2, <2>6, <3>1, BecomesKeeps
    <3>3. WorkersOK'
      BY <1>1, <2>1, <2>6, GoesKept
    <3> QED BY <1>4, <2>6, <3>2, <3>3 DEF Resume
  <2>7. CASE Ends(w, "giveback") /\ UNCHANGED <<job, lease, spent>>
    BY <1>4, <2>1, <2>7, EndsKept DEF Resume
  <2> QED BY <1>4, <2>3, <2>4, <2>5, <2>6, <2>7 DEF Resume
<1>5. ASSUME RecordAnswer(w) PROVE TInv'
  <2>1. worker[w].pc # "idle" /\ Goes(w, "boundary")
    BY <1>5 DEF RecordAnswer
  <2>2. WorkersOK' /\ j \in Jobs
    BY <1>1, <2>1, GoesKept, BusyWorker
  <2>3. StepOK'
    BY <1>5, <2>2, CheckpointKept DEF RecordAnswer, StepKeys
  <2> QED BY <1>5, <2>2, <2>3 DEF RecordAnswer
<1> QED BY <1>2, <1>3, <1>4, <1>5

\* The steps of a plan: the boundary, the attempt, its result or its failure.
LEMMA PlanStepsKeepTInv ==
    ASSUME TInv, NEW w \in Workers
    PROVE  /\ Boundary(w) => TInv'
           /\ Begin(w) => TInv'
           /\ Execute(w) => TInv'
           /\ RecordCheckpoint(w) => TInv'
           /\ RecordFailure(w) => TInv'
<1> USE Untouched DEF TInv
<1> DEFINE j == worker[w].msg.job
           s == StepOf(w)
<1>0. /\ {"settle", "begin", "stop", "promote", "execute", "failstep",
          "backoff", "boundary"} \subseteq Places \ {"fail", "checkpoint"}
      /\ {"checkpoint", "fail"} \subseteq Places
      /\ {"DEADLINE_EXCEEDED", "INTERNAL", "RETRIES_EXHAUSTED", "COMMIT_REFUSED"}
             \subseteq FailureReasons
  BY DEF Places, FailureReasons
<1>1. ASSUME Boundary(w) PROVE TInv'
  <2>1. worker[w].pc # "idle"
    BY <1>1 DEF Boundary
  <2>2. \/ Ends(w, "release")
        \/ \E pc \in {"settle", "begin", "stop", "promote"} : Goes(w, pc)
        \/ Breaks(w, "fail", "DEADLINE_EXCEEDED")
    BY <1>1 DEF Boundary
  <2>3. WorkersOK'
    BY <1>0, <2>1, <2>2, EndsKept, GoesKept, BreaksKept
  <2> QED BY <1>1, <2>3 DEF Boundary
<1>2. ASSUME Begin(w) PROVE TInv'
  <2> DEFINE row == step[j][s]
  <2>1. worker[w].pc # "idle"
    BY <1>2 DEF Begin
  <2>2. j \in Jobs /\ s \in StepKeys
    BY <2>1, BusyWorker
  <2>3. row \in StepRow /\ (s = "commit.result" => row.state # "SUCCEEDED")
    BY <2>2 DEF StepOK
  <2>4. CASE row.state = "SUCCEEDED" /\ NextStep(w) /\ UNCHANGED <<step, spent>>
    BY <1>2, <2>1, <2>3, <2>4, NextStepKept DEF Begin
  <2>5. CASE Breaks(w, "fail", "INTERNAL") /\ Outage /\ UNCHANGED step
    BY <1>0, <1>2, <2>1, <2>5, BreaksKept, SpendingKept DEF Begin
  <2>6. CASE Breaks(w, "fail", "RETRIES_EXHAUSTED") /\ UNCHANGED <<step, spent>>
    BY <1>0, <1>2, <2>1, <2>6, BreaksKept DEF Begin
  <2>7. CASE Ends(w, "release") /\ UNCHANGED <<step, spent>>
    BY <1>2, <2>1, <2>7, EndsKept DEF Begin
  <2>8. CASE /\ ~Exhausted(row)
             /\ step' = [step EXCEPT ![j][s] =
                            [state |-> "RUNNING", attempts |-> row.attempts + 1]]
             /\ Goes(w, "execute") /\ UNCHANGED spent
    <3>1. [state |-> "RUNNING", attempts |-> row.attempts + 1] \in StepRow
      BY <2>3, <2>8, BoundsAssumption DEF Exhausted, StepRow
    <3>2. StepOK'
      BY <2>2, <2>8, <3>1, StepRowKept
    <3>3. WorkersOK'
      BY <1>0, <2>1, <2>8, GoesKept
    <3> QED BY <1>2, <2>8, <3>2, <3>3 DEF Begin
  <2> QED BY <1>2, <2>4, <2>5, <2>6, <2>7, <2>8 DEF Begin
<1>3. ASSUME Execute(w) PROVE TInv'
  <2>1. worker[w].pc # "idle"
    BY <1>3 DEF Execute
  <2>2. \/ s # "commit.result" /\ Goes(w, "checkpoint")
        \/ \E why \in FailureReasons : Breaks(w, "failstep", why)
        \/ Goes(w, "failstep")
    BY <1>0, <1>3, RefusalsAssumption DEF Execute
  <2>3. WorkersOK'
    BY <1>0, <2>1, <2>2, GoesKept, BreaksKept
  <2>4. SpentOK'
    BY <1>3, SpendingKept DEF Execute
  <2> QED BY <1>3, <2>3, <2>4 DEF Execute
<1>4. ASSUME RecordCheckpoint(w) PROVE TInv'
  <2>1. worker[w].pc = "checkpoint" /\ NextStep(w) /\ Checkpointed(j, s)
    BY <1>4 DEF RecordCheckpoint
  <2>2. s # "commit.result"
    BY <2>1 DEF WorkersOK, InvocationOK, StepOf
  <2>3. j \in Jobs /\ s \in StepKeys
    BY <2>1, BusyWorker
  <2>4. WorkersOK'
    BY <2>1, <2>2, NextStepKept
  <2>5. StepOK'
    BY <2>1, <2>2, <2>3, CheckpointKept
  <2> QED BY <1>4, <2>4, <2>5 DEF RecordCheckpoint
<1>5. ASSUME RecordFailure(w) PROVE TInv'
  <2> DEFINE r == [step[j][s] EXCEPT !.state = IF @ = "RUNNING" THEN "FAILED" ELSE @]
  <2>1. worker[w].pc # "idle"
    BY <1>5 DEF RecordFailure
  <2>2. j \in Jobs /\ s \in StepKeys
    BY <2>1, BusyWorker
  <2>3. step[j][s] \in StepRow /\ (s = "commit.result" => step[j][s].state # "SUCCEEDED")
    BY <2>2 DEF StepOK
  <2>4. r \in StepRow /\ (s = "commit.result" => r.state # "SUCCEEDED")
    <3>1. CASE step[j][s].state = "RUNNING"
      BY <2>3, <3>1 DEF StepRow
    <3>2. CASE step[j][s].state # "RUNNING"
      BY <2>3, <3>2 DEF StepRow
    <3> QED BY <3>1, <3>2
  <2>5. step' = [step EXCEPT ![j][s] = r]
    BY <1>5, Zenon DEF RecordFailure
  <2>6. StepOK'
    <3> HIDE DEF r, s
    <3> QED BY <2>2, <2>4, <2>5, StepRowKept
  <2>7. \/ worker[w].why # None /\ Goes(w, "fail")
        \/ Breaks(w, "fail", "RETRIES_EXHAUSTED")
        \/ Goes(w, "backoff")
    BY <1>5 DEF RecordFailure
  <2>8. WorkersOK'
    BY <1>0, <2>1, <2>7, GoesKept, BreaksKept
  <2> QED BY <1>5, <2>6, <2>8 DEF RecordFailure
<1> QED BY <1>1, <1>2, <1>3, <1>4, <1>5

\* The step that asks a person, and the steps that end a job.
LEMMA AskingAndEndingKeepTInv ==
    ASSUME TInv, NEW w \in Workers
    PROVE  /\ Clarify(w) => TInv'
           /\ Fail(w) => TInv'
           /\ Stop(w) => TInv'
<1> USE Untouched DEF TInv
<1> DEFINE j == worker[w].msg.job
<1>0. /\ {"settle", "failstep"} \subseteq Places \ {"fail", "checkpoint"}
      /\ "INTERNAL" \in FailureReasons
  BY DEF Places, FailureReasons
<1>1. ASSUME Clarify(w) PROVE TInv'
  <2>1. worker[w].pc # "idle"
    BY <1>1 DEF Clarify
  <2>2. j \in Jobs /\ job[j] \in JobRecord /\ Shape(job[j])
    BY <2>1, BusyWorker DEF Row
  <2>3. CASE CanPromote(job[j], j)
    <3>1. SoundMove(job[j], AfterPromote(job[j]))
      BY <2>2, <2>3, EventsAreSound
    <3>2. JobOK' /\ LeaseOK'
      BY <1>1, <2>2, <2>3, <3>1, BecomesKeeps DEF Clarify
    <3> QED BY <1>1, <2>3, <3>2 DEF Clarify
  <2>4. CASE ~CanPromote(job[j], j) /\ CanAsk(job[j], j)
    <3>1. PICK k \in Waits : /\ Becomes(j, AfterAsk(job[j], k))
                             /\ wait' = [wait EXCEPT ![j][k] = "OPEN"]
                             /\ Ends(w, "release")
      BY <1>1, <2>4 DEF Clarify
    <3>2. SoundMove(job[j], AfterAsk(job[j], k))
      BY <2>2, <2>4, EventsAreSound
    <3>3. JobOK' /\ LeaseOK'
      BY <2>2, <3>1, <3>2, BecomesKeeps
    <3>4. WaitOK'
      BY <2>2, <3>1 DEF WaitOK, WaitStatus
    <3>5. WorkersOK'
      BY <2>1, <3>1, EndsKept
    <3> QED BY <1>1, <3>3, <3>4, <3>5 DEF Clarify
  <2>5. CASE ~CanPromote(job[j], j) /\ ~CanAsk(job[j], j)
    BY <1>0, <1>1, <2>1, <2>5, BreaksKept DEF Clarify
  <2> QED BY <2>3, <2>4, <2>5
<1>2. ASSUME Fail(w) PROVE TInv'
  <2>1. worker[w].pc = "fail"
    BY <1>2 DEF Fail
  <2>2. /\ j \in Jobs /\ job[j] \in JobRecord /\ Shape(job[j])
        /\ worker[w] \in Invocation
    BY <2>1, BusyWorker DEF Row
  <2>3. worker[w].why \in FailureReasons
    BY <2>1, <2>2 DEF WorkersOK, InvocationOK, Invocation
  <2>4. CASE CanFail(job[j])
    <3>1. SoundMove(job[j], AfterFail(job[j], worker[w].why))
      BY <2>2, <2>3, <2>4, EventsAreSound
    <3>2. JobOK' /\ LeaseOK'
      BY <1>2, <2>2, <2>4, <3>1, BecomesKeeps DEF Fail
    <3>3. WaitOK' /\ WorkersOK'
      BY <1>2, <2>1, <2>2, <2>4, ClosingKept, EndsKept DEF Fail
    <3> QED BY <1>2, <3>2, <3>3 DEF Fail
  <2>5. CASE ~CanFail(job[j])
    BY <1>2, <2>1, <2>5, EndsKept DEF Fail
  <2> QED BY <2>4, <2>5
<1>3. ASSUME Stop(w) PROVE TInv'
  <2> DEFINE after == AfterCancel(job[j], "KILL_SWITCH")
  <2>1. worker[w].pc # "idle"
    BY <1>3 DEF Stop
  <2>2. j \in Jobs /\ job[j] \in JobRecord /\ Shape(job[j])
    BY <2>1, BusyWorker DEF Row
  <2>3. CASE CanCancel(job[j])
    <3>1. SoundMove(job[j], after)
      BY <2>2, <2>3, EventsAreSound DEF RequestReasons
    <3>2. JobOK' /\ LeaseOK'
      BY <1>3, <2>2, <2>3, <3>1, BecomesKeeps DEF Stop
    <3>3. WaitOK' /\ CommandsOK'
      BY <1>3, <2>2, <2>3, ClosingKept, CommandKept DEF Stop, CommandTypes
    <3>4. Ends(w, "release") \/ Goes(w, "settle")
      BY <1>3, <2>3 DEF Stop
    <3>5. WorkersOK'
      BY <1>0, <2>1, <3>4, EndsKept, GoesKept
    <3> QED BY <1>3, <3>2, <3>3, <3>5 DEF Stop
  <2>4. CASE ~CanCancel(job[j])
    BY <1>3, <2>1, <2>4, EndsKept DEF Stop
  <2> QED BY <2>3, <2>4
<1> QED BY <1>1, <1>2, <1>3

\* How a delivery ends: a new message, the lease given back, or a crash.
LEMMA DeliveryEndsKeepTInv ==
    ASSUME TInv, NEW w \in Workers
    PROVE  /\ Requeue(w) => TInv'
           /\ Release(w) => TInv'
           /\ Crash(w) => TInv'
<1> USE Untouched DEF TInv
<1> DEFINE j == worker[w].msg.job
<1>1. ASSUME Requeue(w) PROVE TInv'
  <2> DEFINE m == [Reference(j, "CONTINUE", NoWait) EXCEPT
                      !.when = IF worker[w].pc = "backoff" THEN "LATER" ELSE "NOW"]
  <2>1. worker[w].pc # "idle"
    BY <1>1 DEF Requeue
  <2>2. Reference(j, "CONTINUE", NoWait) \in Deliverable
    BY <2>1, BusyWorker, ReferenceDeliverable DEF Reasons
  <2>3. m \in Deliverable
    BY <2>2 DEF Deliverable, Message
  <2>4. QueueOK' /\ SpentOK'
    BY <1>1, <2>3, SpendingKept DEF Requeue, QueueOK
  <2>5. WorkersOK'
    BY <1>1, <2>1, EndsKept DEF Requeue
  <2> QED BY <1>1, <2>4, <2>5 DEF Requeue
<1>2. ASSUME Release(w) PROVE TInv'
  <2>1. worker[w].pc # "idle"
    BY <1>2 DEF Release
  <2>2. worker[w].msg \in Message /\ j \in Jobs
    BY <2>1, BusyWorker
  <2>3. LeaseOK' /\ SpentOK'
    BY <1>2, <2>2, SpendingKept DEF Release, LeaseOK
  <2>4. QueueOK'
    BY <1>2, <2>2, ReturnedDeliverable DEF Release, QueueOK
  <2>5. WorkersOK'
    BY <1>2, IdleFits, BecomingKept DEF Release
  <2> QED BY <1>2, <2>3, <2>4, <2>5 DEF Release
<1>3. ASSUME Crash(w) PROVE TInv'
  <2>1. worker[w].pc # "idle"
    BY <1>3 DEF Crash
  <2>2. worker[w].msg \in Message /\ j \in Jobs
    BY <2>1, BusyWorker
  <2>3. LeaseOK' /\ SpentOK'
    BY <1>3, <2>2, SpendingKept DEF Crash, LeaseOK
  <2>4. QueueOK'
    BY <1>3, <2>2, ReturnedDeliverable DEF Crash, QueueOK
  <2>5. WorkersOK'
    BY <1>3, IdleFits, BecomingKept DEF Crash
  <2> QED BY <1>3, <2>3, <2>4, <2>5 DEF Crash
<1> QED BY <1>1, <1>2, <1>3

\* Every step of the system keeps TInv.
LEMMA NextTInv == TInv /\ [Next]_vars => TInv'
<1> SUFFICES ASSUME TInv, [Next]_vars PROVE TInv'
  OBVIOUS
<1>1. CASE UNCHANGED vars
  BY <1>1, Untouched DEF TInv, vars
<1>2. CASE \E j \in Jobs : \/ Submit(j) \/ Cancel(j) \/ Answer(j)
                           \/ QuestionFallsDue(j) \/ LeaseLapses(j)
  BY <1>2, PeopleKeepTInv
<1>3. CASE \/ \E j \in Jobs : SweepTimer(j) \/ SweepLease(j)
           \/ MessageReappears
  BY <1>3, WakeupsKeepTInv
<1>4. CASE \E i \in DOMAIN commands : Ring(i) \/ SweepCommand(i) \/ DispatcherDies(i)
  BY <1>4, DispatcherKeepsTInv
<1>5. ASSUME NEW w \in Workers, Receive(w) \/ Work(w) \/ Crash(w) PROVE TInv'
  BY <1>5, DeliveryKeepsTInv, TransitionsKeepTInv, QuestionsKeepTInv,
     PlanStepsKeepTInv, AskingAndEndingKeepTInv, DeliveryEndsKeepTInv DEF Work
<1> QED BY <1>1, <1>2, <1>3, <1>4, <1>5 DEF Next

\* TInv holds in every reachable state.
LEMMA TInvAlways == Spec => []TInv
BY InitTInv, NextTInv, PTL DEF Spec

\* Every variable keeps its type: in particular no step is attempted more often
\* than its policy allows, and no message is delivered more often than the queue
\* allows, for any number of jobs, workers, faults and copies.
THEOREM ExecutionTypes == Spec => []TypeOK
BY TInvAlways, TInvTypes, PTL

-----------------------------------------------------------------------------
(* Every component moves a row only as the contract allows.                 *)

\* An event allowed by this module's operators is a transition of the contract.
LEMMA EventsOfTheContract ==
    ASSUME NEW j \in Jobs
    PROVE  /\ \A cls \in {"INTERACTIVE", "DURABLE"} :
                  CanAccept(job[j], j, cls) /\ Becomes(j, AfterAccept(job[j], cls))
                      => Contract!Transition(j)
           /\ CanDispatch(job[j]) /\ Becomes(j, AfterDispatch(job[j]))
                  => Contract!Transition(j)
           /\ CanStart(job[j]) /\ Becomes(j, AfterStart(job[j]))
                  => Contract!Transition(j)
           /\ CanPromote(job[j], j) /\ Becomes(j, AfterPromote(job[j]))
                  => Contract!Transition(j)
           /\ \A k \in Waits : CanAsk(job[j], j) /\ Becomes(j, AfterAsk(job[j], k))
                  => Contract!Transition(j)
           /\ \A k \in Waits :
                  CanResume(job[j], k, TRUE) /\ Becomes(j, AfterResume(job[j]))
                      => Contract!Transition(j)
           /\ \A k \in Waits : CanExpire(job[j], k) /\ Becomes(j, AfterExpire(job[j]))
                  => Contract!Transition(j)
           /\ \A why \in RequestReasons :
                  CanCancel(job[j]) /\ Becomes(j, AfterCancel(job[j], why))
                      => Contract!Transition(j)
           /\ CanSettle(job[j]) /\ Becomes(j, AfterSettle(job[j]))
                  => Contract!Transition(j)
           /\ \A why \in FailureReasons :
                  CanFail(job[j]) /\ Becomes(j, AfterFail(job[j], why))
                      => Contract!Transition(j)
<1> USE DEF Contract!Transition, Contract!Becomes, Becomes, None, Contract!None,
            NoWait, Contract!NoWait, Waits, Contract!Waits
<1>1. ASSUME NEW cls \in {"INTERACTIVE", "DURABLE"},
             CanAccept(job[j], j, cls), Becomes(j, AfterAccept(job[j], cls))
      PROVE  Contract!Accepted(j)
  BY <1>1 DEF CanAccept, AfterAccept, Contract!Accepted, Contract!CanAccept,
              Contract!AfterAccept
<1>2. CanDispatch(job[j]) /\ Becomes(j, AfterDispatch(job[j])) => Contract!Dispatched(j)
  BY DEF CanDispatch, AfterDispatch, Contract!Dispatched, Contract!CanDispatch,
         Contract!AfterDispatch
<1>3. CanStart(job[j]) /\ Becomes(j, AfterStart(job[j])) => Contract!Started(j)
  BY DEF CanStart, AfterStart, Contract!Started, Contract!CanStart, Contract!AfterStart
<1>4. CanPromote(job[j], j) /\ Becomes(j, AfterPromote(job[j])) => Contract!Promoted(j)
  BY DEF CanPromote, AfterPromote, Contract!Promoted, Contract!CanPromote,
         Contract!AfterPromote
<1>5. ASSUME NEW k \in Waits, CanAsk(job[j], j), Becomes(j, AfterAsk(job[j], k))
      PROVE  Contract!InputRequested(j)
  BY <1>5 DEF CanAsk, AfterAsk, Contract!InputRequested, Contract!CanAsk,
              Contract!AfterAsk
<1>6. ASSUME NEW k \in Waits, CanResume(job[j], k, TRUE),
             Becomes(j, AfterResume(job[j]))
      PROVE  Contract!InputReceived(j)
  BY <1>6 DEF CanResume, AfterResume, Contract!InputReceived, Contract!CanResume,
              Contract!AfterResume
<1>7. ASSUME NEW k \in Waits, CanExpire(job[j], k), Becomes(j, AfterExpire(job[j]))
      PROVE  Contract!WaitExpired(j)
  BY <1>7 DEF CanExpire, AfterExpire, Contract!WaitExpired, Contract!CanExpire,
              Contract!AfterExpire
<1>8. ASSUME NEW why \in RequestReasons, CanCancel(job[j]),
             Becomes(j, AfterCancel(job[j], why))
      PROVE  Contract!CancelRequested(j)
  BY <1>8 DEF CanCancel, AfterCancel, Live, LiveStates, IdleStates, RequestReasons,
              Contract!CancelRequested, Contract!CanCancel, Contract!AfterCancel,
              Contract!Live, Contract!LiveStates, Contract!IdleStates,
              Contract!RequestReasons
<1>9. CanSettle(job[j]) /\ Becomes(j, AfterSettle(job[j])) => Contract!CancelSettled(j)
  BY DEF CanSettle, AfterSettle, Contract!CancelSettled, Contract!CanSettle,
         Contract!AfterSettle
<1>10. ASSUME NEW why \in FailureReasons, CanFail(job[j]),
              Becomes(j, AfterFail(job[j], why))
       PROVE  Contract!Failed(j)
  BY <1>10 DEF CanFail, AfterFail, Live, LiveStates, IdleStates, FailureReasons,
               Contract!Failed, Contract!CanFail, Contract!AfterFail, Contract!Live,
               Contract!LiveStates, Contract!IdleStates, Contract!FailureReasons
<1> HIDE DEF Becomes
<1> QED BY <1>1, <1>2, <1>3, <1>4, <1>5, <1>6, <1>7, <1>8, <1>9, <1>10

\* What one action may do to the row of job j: nothing, or one transition of
\* the contract, which is a sound move.
RowMoves(j) ==
    \/ UNCHANGED <<job, lease>>
    \/ /\ Contract!Transition(j)
       /\ \E b : SoundMove(job[j], b) /\ Becomes(j, b)

\* A submission or a cancel moves one row, by a transition of the contract.
LEMMA PeopleMoveRows ==
    ASSUME TInv, NEW j \in Jobs, Submit(j) \/ Cancel(j)
    PROVE  RowMoves(j)
<1>1. job[j] \in JobRecord /\ Shape(job[j])
  BY DEF TInv, JobOK
<1>2. CASE Submit(j)
  <2>1. PICK cls \in {"INTERACTIVE", "DURABLE"} :
            CanAccept(job[j], j, cls) /\ Becomes(j, AfterAccept(job[j], cls))
    BY <1>2 DEF Submit
  <2> QED BY <1>1, <2>1, EventsAreSound, EventsOfTheContract DEF RowMoves
<1>3. CASE Cancel(j)
  <2>1. /\ CanCancel(job[j])
        /\ Becomes(j, AfterCancel(job[j], "REQUESTED_BY_PRINCIPAL"))
    BY <1>3 DEF Cancel
  <2>2. "REQUESTED_BY_PRINCIPAL" \in RequestReasons
    BY DEF RequestReasons
  <2> QED BY <1>1, <2>1, <2>2, EventsAreSound, EventsOfTheContract DEF RowMoves
<1> QED BY <1>2, <1>3

\* So does each write of a worker, of the row of the job it holds.
LEMMA WorkersMoveRows ==
    ASSUME TInv, NEW w \in Workers, worker[w].pc # "idle",
           \/ DispatchRow(w) \/ StartRow(w) \/ SettleRow(w) \/ PromoteRow(w)
           \/ Expire(w) \/ Resume(w) \/ Clarify(w) \/ Fail(w) \/ Stop(w)
    PROVE  RowMoves(worker[w].msg.job)
<1> DEFINE j == worker[w].msg.job
<1>1. /\ j \in Jobs /\ job[j] \in JobRecord /\ Shape(job[j])
      /\ worker[w] \in Invocation
  BY BusyWorker DEF Row
<1> USE EventsAreSound, EventsOfTheContract DEF RowMoves
<1>2. CASE DispatchRow(w)
  <2>1. \/ UNCHANGED <<job, lease>>
        \/ CanDispatch(job[j]) /\ Becomes(j, AfterDispatch(job[j]))
    BY <1>2 DEF DispatchRow, Move, Row
  <2> QED BY <1>1, <2>1
<1>3. CASE StartRow(w)
  <2>1. \/ UNCHANGED <<job, lease>>
        \/ CanStart(job[j]) /\ Becomes(j, AfterStart(job[j]))
    BY <1>3 DEF StartRow, Move, Row
  <2> QED BY <1>1, <2>1
<1>4. CASE SettleRow(w)
  <2>1. \/ UNCHANGED <<job, lease>>
        \/ CanSettle(job[j]) /\ Becomes(j, AfterSettle(job[j]))
    BY <1>4 DEF SettleRow, Move, Row
  <2> QED BY <1>1, <2>1
<1>5. CASE PromoteRow(w)
  <2>1. \/ UNCHANGED <<job, lease>>
        \/ CanPromote(job[j], j) /\ Becomes(j, AfterPromote(job[j]))
    BY <1>5 DEF PromoteRow, Move, Row
  <2> QED BY <1>1, <2>1
<1>6. job[j].state = "WAITING_FOR_USER" => job[j].wait \in Waits
  BY <1>1 DEF JobRecord, Shape, QuestionShape
<1>7. CASE Expire(w)
  <2> DEFINE k == worker[w].asked
  <2>1. \/ UNCHANGED <<job, lease>>
        \/ CanExpire(job[j], k) /\ Becomes(j, AfterExpire(job[j]))
    BY <1>7 DEF Expire
  <2>2. CanExpire(job[j], k) => k \in Waits
    BY <1>6 DEF CanExpire
  <2> QED BY <1>1, <2>1, <2>2
<1>8. CASE Resume(w)
  <2> DEFINE k == worker[w].asked
  <2>1. \/ UNCHANGED <<job, lease>>
        \/ CanResume(job[j], k, TRUE) /\ Becomes(j, AfterResume(job[j]))
    BY <1>8 DEF Resume
  <2>2. CanResume(job[j], k, TRUE) => k \in Waits
    BY <1>6 DEF CanResume
  <2> QED BY <1>1, <2>1, <2>2
<1>9. CASE Clarify(w)
  <2>1. \/ UNCHANGED <<job, lease>>
        \/ CanPromote(job[j], j) /\ Becomes(j, AfterPromote(job[j]))
        \/ \E k \in Waits : CanAsk(job[j], j) /\ Becomes(j, AfterAsk(job[j], k))
    BY <1>9 DEF Clarify
  <2> QED BY <1>1, <2>1
<1>10. CASE Fail(w)
  <2>1. \/ UNCHANGED <<job, lease>>
        \/ CanFail(job[j]) /\ Becomes(j, AfterFail(job[j], worker[w].why))
    BY <1>10 DEF Fail
  <2>2. worker[w].pc = "fail" /\ InvocationOK(worker[w])
    BY <1>10 DEF Fail, TInv, WorkersOK
  <2>3. worker[w].why \in FailureReasons
    BY <1>1, <2>2 DEF InvocationOK, Invocation
  <2> QED BY <1>1, <2>1, <2>3
<1>11. CASE Stop(w)
  <2>1. \/ UNCHANGED <<job, lease>>
        \/ CanCancel(job[j]) /\ Becomes(j, AfterCancel(job[j], "KILL_SWITCH"))
    BY <1>11 DEF Stop
  <2>2. "KILL_SWITCH" \in RequestReasons
    BY DEF RequestReasons
  <2> QED BY <1>1, <2>1, <2>2
<1> QED BY <1>2, <1>3, <1>4, <1>5, <1>7, <1>8, <1>9, <1>10, <1>11

\* Every other action leaves every row alone.
LEMMA RowsElsewhere ==
    /\ \A j \in Jobs : Answer(j) \/ QuestionFallsDue(j) \/ LeaseLapses(j)
                       \/ SweepTimer(j) \/ SweepLease(j) => UNCHANGED job
    /\ \A i \in DOMAIN commands :
          Ring(i) \/ SweepCommand(i) \/ DispatcherDies(i) => UNCHANGED job
    /\ MessageReappears => UNCHANGED job
    /\ \A w \in Workers :
          Receive(w) \/ Claim(w) \/ ReadExpiry(w) \/ RecordAnswer(w)
          \/ Boundary(w) \/ Begin(w) \/ Execute(w) \/ RecordCheckpoint(w)
          \/ RecordFailure(w) \/ Requeue(w) \/ Release(w) \/ Crash(w) => UNCHANGED job
BY DEF Answer, QuestionFallsDue, LeaseLapses, SweepTimer, SweepLease, Ring,
       SweepCommand, DispatcherDies, Dispatch, MessageReappears, Receive, Claim,
       ReadExpiry, RecordAnswer, Boundary, Begin, Execute, RecordCheckpoint,
       RecordFailure, Requeue, Release, Crash

\* A step of the system moves at most one row, by a transition of the contract.
LEMMA StepMovesOneRow ==
    ASSUME TInv, [Next]_vars
    PROVE  UNCHANGED job \/ \E j \in Jobs : RowMoves(j)
<1>1. CASE UNCHANGED vars
  BY <1>1 DEF vars
<1>2. ASSUME NEW j \in Jobs, Submit(j) \/ Cancel(j)
      PROVE  RowMoves(j)
  BY <1>2, PeopleMoveRows
<1>3. ASSUME NEW w \in Workers,
             \/ DispatchRow(w) \/ StartRow(w) \/ SettleRow(w) \/ PromoteRow(w)
             \/ Expire(w) \/ Resume(w) \/ Clarify(w) \/ Fail(w) \/ Stop(w)
      PROVE  \E j \in Jobs : RowMoves(j)
  <2>1. worker[w].pc # "idle"
    BY <1>3 DEF DispatchRow, StartRow, SettleRow, PromoteRow, Move, Expire, Resume,
                Clarify, Fail, Stop
  <2> QED BY <1>3, <2>1, BusyWorker, WorkersMoveRows
<1> QED BY <1>1, <1>2, <1>3, RowsElsewhere DEF Next, Work

\* The execution implements the contract: whatever the people, the dispatcher, the
\* workers and the sweeper do, in any order and through any crash, each job's row
\* moves only by transitions brainJobTransition allows.
THEOREM ExecutionImplementsContract == Spec => ImplementsContract
<1>1. Init => Contract!Init
  BY DEF Init, Contract!Init, Absent, Contract!Absent, None, Contract!None, NoWait,
         Contract!NoWait
<1>2. TInv /\ [Next]_vars => [Contract!Next]_job
  BY StepMovesOneRow DEF RowMoves, Contract!Next
<1> QED BY <1>1, <1>2, TInvAlways, PTL
           DEF Spec, ImplementsContract, Contract!Spec

-----------------------------------------------------------------------------
(* One driver.                                                              *)

\* The workers past their claim are among those of before, on the same message.
SameDrivers == \A v \in Workers :
    Driving(v)' => Driving(v) /\ worker'[v].msg = worker[v].msg

\* A lease has an owner only among the workers: the other values are no worker.
LEMMA LeaseValues ==
    None \notin Workers /\ "ORPHAN" \notin Workers /\ "LAPSED" \notin Workers
BY WorkersAssumption

\* A worker that goes on with the job it drives remains its only driver.
LEMMA DriverContinues ==
    ASSUME TInv, NEW w \in Workers, Driving(w),
           \/ \E pc : Goes(w, pc) \/ Ends(w, pc)
           \/ \E pc, why : Breaks(w, pc, why)
           \/ NextStep(w)
    PROVE  SameDrivers
<1>1. worker[w].pc # "idle" /\ worker \in [Workers -> Invocation]
  BY DEF Driving, TInv, WorkersOK
<1>2. worker[w] \in Invocation
  BY <1>1
<1>3. ASSUME NEW pc, Goes(w, pc) PROVE SameDrivers
  BY <1>1, <1>2, <1>3 DEF SameDrivers, Driving, Goes, Invocation
<1>4. ASSUME NEW pc, Ends(w, pc) PROVE SameDrivers
  <2>1. [Idle EXCEPT !.pc = pc, !.msg = worker[w].msg].msg = worker[w].msg
    BY DEF Idle
  <2> QED BY <1>1, <1>4, <2>1 DEF SameDrivers, Driving, Ends
<1>5. ASSUME NEW pc, NEW why, Breaks(w, pc, why) PROVE SameDrivers
  BY <1>1, <1>2, <1>5 DEF SameDrivers, Driving, Breaks, Invocation
<1>6. ASSUME NextStep(w) PROVE SameDrivers
  BY <1>1, <1>2, <1>6 DEF SameDrivers, Driving, NextStep, Invocation
<1> QED BY <1>3, <1>4, <1>5, <1>6

\* A step that moves no row and no lease, and lets no new driver in.
LEMMA QuietStepKeepsOneDriver ==
    ASSUME OneDriver, SameDrivers, UNCHANGED <<job, lease>>
    PROVE  OneDriver'
BY DEF OneDriver, SameDrivers

\* A row that moves takes its lease along: an ended row's driver is done.
LEMMA RowMoveKeepsOneDriver ==
    ASSUME TInv, OneDriver, SameDrivers, NEW j \in Jobs, RowMoves(j)
    PROVE  OneDriver'
<1>1. CASE UNCHANGED <<job, lease>>
  BY <1>1, QuietStepKeepsOneDriver
<1>2. CASE \E b : SoundMove(job[j], b) /\ Becomes(j, b)
  <2>1. PICK b : SoundMove(job[j], b) /\ Becomes(j, b)
    BY <1>2
  <2>2. /\ job'[j] = b
        /\ \A i \in Jobs : i # j => job'[i] = job[i] /\ lease'[i] = lease[i]
        /\ lease'[j] = IF Terminal(b) THEN None ELSE lease[j]
    BY <2>1, BecomesKeeps DEF TInv
  <2>3. Terminal(job[j]) => Terminal(b)
    BY <2>1 DEF SoundMove
  <2>4. ASSUME NEW v \in Workers, Driving(v)'
        PROVE  LET i == worker'[v].msg.job IN lease'[i] = v \/ Terminal(job'[i])
    <3>1. /\ Driving(v) /\ worker'[v].msg = worker[v].msg
          /\ worker[v].msg.job \in Jobs
      BY <2>4, BusyWorker DEF SameDrivers, Driving
    <3>2. lease[worker[v].msg.job] = v \/ Terminal(job[worker[v].msg.job])
      BY <3>1 DEF OneDriver
    <3> QED BY <2>2, <2>3, <3>1, <3>2
  <2>5. ASSUME NEW i \in Jobs, Terminal(job'[i]) PROVE lease'[i] = None
    BY <2>2, <2>5 DEF OneDriver
  <2> QED BY <2>4, <2>5 DEF OneDriver, Terminal
<1> QED BY <1>1, <1>2 DEF RowMoves

\* A cancel adds nobody to those who drive a job.
LEMMA CancelSameDrivers ==
    ASSUME TInv, NEW j \in Jobs, Cancel(j)
    PROVE  SameDrivers
<1>1. PICK hit \in SUBSET Exposed(j) :
          worker' = [w \in Workers |-> IF w \in hit THEN Overtaken(w) ELSE worker[w]]
  BY DEF Cancel
<1>2. ASSUME NEW v \in Workers, Driving(v)'
      PROVE  Driving(v) /\ worker'[v].msg = worker[v].msg
  <2>1. CASE v \notin hit
    BY <1>1, <1>2, <2>1 DEF Driving
  <2>2. CASE v \in hit
    <3>1. worker'[v] = Overtaken(v) /\ worker[v].pc # "idle"
      BY <1>1, <2>2 DEF Exposed
    <3>2. worker[v] \in Invocation
      BY DEF TInv, WorkersOK
    <3>3. worker[v].pc # "claim"
      BY <1>2, <3>1 DEF Overtaken, Driving, Idle
    <3> QED BY <3>1, <3>2, <3>3 DEF Overtaken, Driving, Invocation
  <2> QED BY <2>1, <2>2
<1> QED BY <1>2 DEF SameDrivers

\* The lease is taken when it is free, so nobody else is past a claim of the job.
LEMMA ClaimKeepsOneDriver ==
    ASSUME TInv, OneDriver, NEW w \in Workers, Claim(w)
    PROVE  OneDriver'
<1> DEFINE j == worker[w].msg.job
<1>1. worker[w].pc = "claim" /\ j \in Jobs /\ worker[w] \in Invocation
  BY BusyWorker DEF Claim
<1>2. worker \in [Workers -> Invocation]
  BY DEF TInv, WorkersOK
<1>3. CASE Terminal(job[j]) \/ ~Free(j)
  <2>1. worker' = [worker EXCEPT ![w] = Idle] /\ UNCHANGED <<job, lease>>
    BY <1>3 DEF Claim
  <2>2. SameDrivers
    BY <1>2, <2>1 DEF SameDrivers, Driving, Idle
  <2> QED BY <2>1, <2>2, QuietStepKeepsOneDriver
<1>4. CASE ~Terminal(job[j]) /\ Free(j)
  <2>1. lease' = [lease EXCEPT ![j] = w] /\ UNCHANGED job
    BY <1>4 DEF Claim
  <2>2. PICK hit \in SUBSET {v \in Exposed(j) \ {w} : worker[v].pc = "claim"},
             pc \in {Entry(j, worker[w].msg.reason)} \cup {"stop"} :
           worker' = [v \in Workers |->
               CASE v = w -> [worker[w] EXCEPT !.pc = pc, !.asked = job[j].wait]
                 [] v \in hit -> Overtaken(v)
                 [] OTHER -> worker[v]]
    BY <1>4 DEF Claim
  <2>3. worker'[w].msg = worker[w].msg
    BY <1>1, <2>2 DEF Invocation
  <2>4. ASSUME NEW v \in Workers \ {w}, Driving(v)'
        PROVE  worker'[v] = worker[v] /\ Driving(v)
    <3>1. v \notin hit
      BY <2>2, <2>4 DEF Overtaken, Driving, Idle
    <3> QED BY <2>2, <2>4, <3>1 DEF Driving
  <2>5. \A v \in Workers : lease[j] # v
    BY <1>4, LeaseValues DEF Free
  <2>6. lease \in [Jobs -> Workers \cup {None, "ORPHAN", "LAPSED"}]
    BY DEF TInv, LeaseOK
  <2>7. ASSUME NEW v \in Workers, Driving(v)'
        PROVE  LET i == worker'[v].msg.job IN lease'[i] = v \/ Terminal(job'[i])
    <3>1. CASE v = w
      BY <1>1, <2>1, <2>3, <2>6, <3>1
    <3>2. CASE v # w
      <4>1. worker'[v] = worker[v] /\ Driving(v)
        BY <2>4, <2>7, <3>2
      <4>2. LET i == worker[v].msg.job IN lease[i] = v \/ Terminal(job[i])
        BY <4>1 DEF OneDriver
      <4>3. worker[v].msg.job # j
        BY <1>4, <2>5, <4>2
      <4> QED BY <2>1, <2>6, <4>1, <4>2, <4>3
    <3> QED BY <3>1, <3>2
  <2>8. ASSUME NEW i \in Jobs, Terminal(job'[i]) PROVE lease'[i] = None
    BY <1>4, <2>1, <2>6, <2>8 DEF OneDriver
  <2> QED BY <2>7, <2>8 DEF OneDriver, Terminal
<1> QED BY <1>3, <1>4

\* A worker that is done, or dead, gives up only its own lease.
LEMMA LeavingKeepsOneDriver ==
    ASSUME TInv, OneDriver, NEW w \in Workers, Release(w) \/ Crash(w)
    PROVE  OneDriver'
<1> DEFINE j == worker[w].msg.job
<1>1. /\ worker' = [worker EXCEPT ![w] = Idle] /\ UNCHANGED job
      /\ worker[w].pc # "idle"
      /\ \/ UNCHANGED lease
         \/ lease[j] = w /\ lease' = [lease EXCEPT ![j] = None]
         \/ lease[j] = w /\ lease' = [lease EXCEPT ![j] = "ORPHAN"]
  BY DEF Release, Crash
<1>2. /\ j \in Jobs /\ worker \in [Workers -> Invocation]
      /\ lease \in [Jobs -> Workers \cup {None, "ORPHAN", "LAPSED"}]
  BY <1>1, BusyWorker DEF TInv, WorkersOK, LeaseOK
<1>3. ASSUME NEW v \in Workers, Driving(v)'
      PROVE  v # w /\ worker'[v] = worker[v] /\ Driving(v)
  BY <1>1, <1>2, <1>3 DEF Driving, Idle
<1>4. ASSUME NEW v \in Workers, Driving(v)'
      PROVE  LET i == worker'[v].msg.job IN lease'[i] = v \/ Terminal(job'[i])
  <2>1. /\ v # w /\ worker'[v] = worker[v] /\ worker[v].msg.job \in Jobs
        /\ LET i == worker[v].msg.job IN lease[i] = v \/ Terminal(job[i])
    BY <1>3, <1>4, BusyWorker DEF OneDriver, Driving
  <2> QED BY <1>1, <1>2, <2>1
<1>5. ASSUME NEW i \in Jobs, Terminal(job'[i]) PROVE lease'[i] = None
  <2>1. lease[i] = None
    BY <1>1, <1>5 DEF OneDriver
  <2>2. lease[j] = w => i # j
    BY <2>1, LeaseValues
  <2> QED BY <1>1, <1>2, <2>1, <2>2
<1> QED BY <1>4, <1>5 DEF OneDriver, Terminal

\* The actions of a worker that is past its claim.
LEMMA DriverKeepsOneDriver ==
    ASSUME TInv, OneDriver, NEW w \in Workers,
           \/ DispatchRow(w) \/ StartRow(w) \/ SettleRow(w) \/ PromoteRow(w)
           \/ Expire(w) \/ Resume(w) \/ Clarify(w) \/ Fail(w) \/ Stop(w)
           \/ ReadExpiry(w) \/ RecordAnswer(w) \/ Boundary(w) \/ Begin(w)
           \/ Execute(w) \/ RecordCheckpoint(w) \/ RecordFailure(w) \/ Requeue(w)
    PROVE  OneDriver'
<1>1. Driving(w)
  BY DEF DispatchRow, StartRow, SettleRow, PromoteRow, Move, Expire, Resume, Clarify,
         Fail, Stop, ReadExpiry, RecordAnswer, Boundary, Begin, Execute,
         RecordCheckpoint, RecordFailure, Requeue, Driving
<1>2. CASE \/ DispatchRow(w) \/ StartRow(w) \/ SettleRow(w) \/ PromoteRow(w)
           \/ Expire(w) \/ Resume(w) \/ Clarify(w) \/ Fail(w) \/ Stop(w)
  <2>1. RowMoves(worker[w].msg.job) /\ worker[w].msg.job \in Jobs
    BY <1>1, <1>2, WorkersMoveRows, BusyWorker DEF Driving
  <2>2. \/ UNCHANGED worker
        \/ \E pc : Goes(w, pc) \/ Ends(w, pc)
        \/ \E pc, why : Breaks(w, pc, why)
    BY <1>2 DEF DispatchRow, StartRow, SettleRow, PromoteRow, Move, Expire, Resume,
                Clarify, Fail, Stop
  <2>3. SameDrivers
    BY <1>1, <2>2, DriverContinues DEF SameDrivers, Driving
  <2> QED BY <2>1, <2>3, RowMoveKeepsOneDriver
<1>3. CASE \/ ReadExpiry(w) \/ RecordAnswer(w) \/ Boundary(w) \/ Begin(w)
           \/ Execute(w) \/ RecordCheckpoint(w) \/ RecordFailure(w) \/ Requeue(w)
  <2>1. /\ UNCHANGED <<job, lease>>
        /\ \/ \E pc : Goes(w, pc) \/ Ends(w, pc)
           \/ \E pc, why : Breaks(w, pc, why)
           \/ NextStep(w)
    BY <1>3 DEF ReadExpiry, RecordAnswer, Boundary, Begin, Execute, RecordCheckpoint,
                RecordFailure, Requeue
  <2> QED BY <1>1, <2>1, DriverContinues, QuietStepKeepsOneDriver
<1> QED BY <1>2, <1>3

\* Every step of the system leaves a job with one driver at most.
LEMMA NextOneDriver == TInv /\ OneDriver /\ [Next]_vars => OneDriver'
<1> SUFFICES ASSUME TInv, OneDriver, [Next]_vars PROVE OneDriver'
  OBVIOUS
<1>1. CASE UNCHANGED vars
  BY <1>1, QuietStepKeepsOneDriver DEF vars, SameDrivers, Driving
<1>2. ASSUME NEW j \in Jobs, Submit(j) PROVE OneDriver'
  <2>1. SameDrivers
    BY <1>2 DEF Submit, SameDrivers, Driving
  <2> QED BY <1>2, <2>1, PeopleMoveRows, RowMoveKeepsOneDriver
<1>3. ASSUME NEW j \in Jobs, Cancel(j) PROVE OneDriver'
  BY <1>3, CancelSameDrivers, PeopleMoveRows, RowMoveKeepsOneDriver
<1>4. ASSUME NEW j \in Jobs,
             Answer(j) \/ QuestionFallsDue(j) \/ SweepTimer(j) \/ SweepLease(j)
      PROVE  OneDriver'
  <2>1. UNCHANGED <<job, lease, worker>>
    BY <1>4 DEF Answer, QuestionFallsDue, SweepTimer, SweepLease
  <2> QED BY <2>1, QuietStepKeepsOneDriver DEF SameDrivers, Driving
<1>5. ASSUME NEW j \in Jobs, LeaseLapses(j) PROVE OneDriver'
  <2>1. /\ lease[j] = "ORPHAN" /\ lease' = [lease EXCEPT ![j] = "LAPSED"]
        /\ UNCHANGED <<job, worker>>
    BY <1>5 DEF LeaseLapses
  <2>2. lease \in [Jobs -> Workers \cup {None, "ORPHAN", "LAPSED"}]
    BY DEF TInv, LeaseOK
  <2>3. ~Terminal(job[j])
    BY <2>1 DEF OneDriver, None
  <2> QED BY <2>1, <2>2, <2>3, LeaseValues DEF OneDriver, Driving, Terminal
<1>6. ASSUME NEW i \in DOMAIN commands, Ring(i) \/ SweepCommand(i) \/ DispatcherDies(i)
      PROVE  OneDriver'
  <2>1. UNCHANGED <<job, lease, worker>>
    BY <1>6 DEF Ring, SweepCommand, DispatcherDies, Dispatch
  <2> QED BY <2>1, QuietStepKeepsOneDriver DEF SameDrivers, Driving
<1>7. CASE MessageReappears
  <2>1. UNCHANGED <<job, lease, worker>>
    BY <1>7 DEF MessageReappears
  <2> QED BY <2>1, QuietStepKeepsOneDriver DEF SameDrivers, Driving
<1>8. ASSUME NEW w \in Workers, Receive(w) PROVE OneDriver'
  <2> DEFINE v(m) == [Idle EXCEPT !.pc = "claim", !.msg = [m EXCEPT !.n = @ + 1]]
  <2>1. PICK m \in queue :
            /\ UNCHANGED <<job, lease>>
            /\ UNCHANGED worker \/ worker' = [worker EXCEPT ![w] = v(m)]
    BY <1>8 DEF Receive
  <2>3. v(m).pc = "claim"
    BY DEF Idle
  <2>2. worker \in [Workers -> Invocation]
    BY DEF TInv, WorkersOK
  <2>4. SameDrivers
    <3> HIDE DEF v
    <3> QED BY <2>1, <2>2, <2>3 DEF SameDrivers, Driving
  <2> QED BY <2>1, <2>4, QuietStepKeepsOneDriver
<1>9. ASSUME NEW w \in Workers, Work(w) \/ Crash(w) PROVE OneDriver'
  BY <1>9, ClaimKeepsOneDriver, LeavingKeepsOneDriver, DriverKeepsOneDriver DEF Work
<1> QED BY <1>1, <1>2, <1>3, <1>4, <1>5, <1>6, <1>7, <1>8, <1>9 DEF Next

\* However deliveries, retries, takeovers and crashes interleave, at most one worker
\* is past its claim of an unfinished job, and an ended job is leased to nobody.
THEOREM ExecutionOneDriver == Spec => []OneDriver
<1>1. Init => OneDriver
  BY DEF Init, OneDriver, Driving, Idle, Terminal, TerminalStates, Absent
<1> QED BY <1>1, NextOneDriver, TInvAlways, PTL DEF Spec
=============================================================================
