# Formal models of the EMG Loop platform

TLA+ modules, TLC configurations and TLAPS proofs about the parts of this repository that keep
state between processes. The models are written from the source; file and line references are to
this repository, and `PROJECT.json` gives the lines each definition stands for.

Run a check with `tlc -config exec_takeover.cfg MCBrainExecution`, a proof with
`tlapm BrainExecution_proofs.tla`.

## 1. The system

EMG Loop is a multi-tenant operations platform: a Next.js application and API over a Postgres
database (`packages/database`, Prisma), a worker that synchronises external sources
(`apps/connections-worker`), and an executor for long-running AI work, the **Brain**
(`apps/brain-executor`, deployed on Lambda and SQS from `infra/brain`). Pure decisions live in
`packages/shared`; repositories apply them in transactions.

| Component | State | Operations | What is hard | What makes it correct |
|---|---|---|---|---|
| Brain job contract (`shared/src/ai/brain-job.ts`) | state, class, cancel request, open question, result, end reason | the eleven events of `brainJobTransition` and `brainAcceptedJob` | late events, in any order | row shape, ended jobs stay, the first stop stands |
| Brain persistence (`repositories/brain/*`) | `brain_jobs`, its lease and version; waits; steps; commands | accept, transition, requestCancel, lease/release, open/answer/expire/resume, beginAttempt/recordCheckpoint/recordFailure, storeBrainCommand | conditional writes that race, two rows per question | question and job agree, records stand |
| Brain dispatcher, sweeper, worker (`apps/brain-executor/src`) | what an invocation is doing | `dispatch`, `sweep`, `advanceJob` | at-least-once queue, crashes at every await, lease takeover, lost rings | one driver, a wakeup for unfinished work, progress |
| Brain service (`services/brain/brain-work.service.ts`) | none of its own | submit, respond, cancel, ring | rings are best effort | a lost ring is not a lost job |
| AI usage ledger (`services/ai-usage-ledger.service.ts`) | reservations and spend | reserve, reconcile, abandon | concurrent reservations | spend never exceeds the budget |
| Intelligence refresh queue (`repositories/intelligence/intelligence-refresh-queue.repository.ts`) | requests PENDING/CLAIMED/HELD, leases | enqueue, claim, complete, retry, hold, recoverExpired | coalescing against a concurrent claim, expired owners | one pass serves a request; an outdated reading is never current without a request that bars it |
| Cognitive outbox (`repositories/cognitive/delivery.repository.ts`, `services/cognitive/*`) | deliveries and processing attempts | publish, claim, markSucceeded, markFailed, reclaimStale | reclaimed workers that finish late | one pass runs a delivery; a verdict stands; every change is published or visibly given up |
| Mail sending (`services/work-state/mail-send.service.ts`, `repositories/work-state/work-draft.repository.ts`) | draft, send state, attempt | send, recordSent/NotSent/Unknown, reconcile, release | Gmail's answer may be lost after it sent | a reply arrives once, plus once per release by a person |
| Gmail, calendar, CallGrid synchronisation | cursors, checkpoints | sync, advance | failure between persistence and cursor | nothing is skipped |
| Source connections, OAuth, mailboxes, creators | connection records and sealed credentials | connect, refresh, disconnect | provider failures | mostly sequential |
| CRM, import, outreach, cases, work execution, workflows, decisions, headlines | records and their histories | request handlers | single transactions | record-level rules |
| IAM, membership, messaging; providers; analytics packages; web; CDK | | | | |

How they interact: a person submits through `BrainWorkService`, which stores job and START command in
one transaction and *rings* the dispatcher, best effort. The dispatcher reads the command and the
job, and sends a reference to a queue. A worker invocation receives it, takes the job's lease with a
write conditional on the row's version, and drives the job step by step, asking Loop's internal API
for context and access. It may stop to ask a person a question; the reply is stored with a RESUME
command and rung again. The sweeper, on a schedule, finds commands never dispatched, questions
whose time has passed and leases that lapsed, and sends messages for them. The components share
only the database and the queues.

The other three that are modelled do not share state with the Brain or with each other. A person
presses Send in the composer; the request saves the words, claims the draft and calls Gmail, and
later requests look for the message in Sent mail when the answer was lost. The decision engine
writes a row of the outbox with each state change; a pass of the drain, started by a schedule,
matches it with subscriptions and runs a handler for each delivery, and passes may overlap. The
intelligence producers run in the web application and in the worker: each pass enqueues refresh
requests for the targets it discovers, claims one under a lease and reads its target's evidence anew.

The hazards of all of these, each at its line, are in `PROJECT.json` under `hazards`.

## 2. Modules

| Module | Models |
|---|---|
| `BrainJob` | the job record and, per event, `Can<Event>` / `After<Event>` (`brainJobTransition`), and the CHECK `brain_jobs_shape` |
| `BrainJobContract` | the abstract specification: any event, any time, from anybody, as the contract allows |
| `BrainExecution` | the rows, the queue, the dispatcher, the sweeper, the worker invocations, crashes; implements `BrainJobContract` |
| `MailPromise` | the abstract specification: what an employee is promised about one reply |
| `MailSend` | one row of `work_drafts`, the requests that send, check and release it, Gmail; implements `MailPromise` |
| `MailPress` | the composer's Send button (`sendReplyAction`), which saves and then sends, over `MailSend` |
| `OutboxDelivery` | one organization's outbox and deliveries, the passes of `StateChangePublisher.run`, subscriptions |
| `RefreshQueue` | the refresh requests and the stored reading of one target, the passes of the producer loop, the retention sweep |
| `MCBrainJobContract`, `MCBrainExecution`, `MCMailSend`, `MCMailPress`, `MCOutboxDelivery`, `MCRefreshQueue` | the instances TLC checks |
| `BrainJob_proofs`, `BrainJobContract_proofs`, `BrainExecution_proofs`, `BrainRecords_proofs`, `BrainSteps_proofs` | lemmas about the record, theorems about the two specifications; the last two are about what is recorded beside the job's row: questions and replies, and the steps of the plan |
| `MailSend_proofs`, `OutboxDelivery_proofs`, `RefreshQueue_proofs` | inductive invariants and theorems about the module each is named after |

### State and actions of `BrainExecution`

- `job[j]` is the row of `brain_jobs` (without identity fields); `lease[j]` is `leaseHolder` with what
  the comparison of `leaseExpiresAt` with the clock tells: a running worker's name, `None`, `ORPHAN`
  (the named invocation is gone, the lease still runs) or `LAPSED`.
- `wait[j][k]` is the status of the k-th question; `DUE` is `OPEN` past `expiresAt`.
- `step[j][s]` is `brain_job_steps`: state and attempts. `commands` is `brain_commands` in order of
  issue, `sent` being `dispatchedAt`. `queue` holds the advance messages of both SQS queues with
  their number of deliveries; a message is deliverable, delayed, or hidden.
- `worker[w]` is one invocation: `pc` names the next database transaction or call to the queue or to
  Loop that `advanceJob`, `drive` or `runStep` makes, the other fields what it keeps in variables.

One action is one transaction or conditional write, with everything that transaction writes:
`Cancel` is the transition, the closing of the question, and the CANCEL command, as in
`requestCancel`. Between any two, other components act and the invocation may `Crash`.

Where a conditional write can be overtaken (`where: { version }`), the model takes the
read and the write as one step and lets an action that moves the version knock an arbitrary subset
of the workers that could stand between their own read and write (`Exposed`) to where the code goes
with `VERSION_CONFLICT` (`Overtaken`): a retried delivery, a failed step, or an ignored expiry.
The expiry of a question is two steps (`ReadExpiry`, `Expire`), because the reply it races with does
not move the version. The read that follows a successful lease write is part of `Claim`: a
cancel that lands between the two has the effect of one that landed before the claim.

Time is not counted. A lease (150 s) outlives the invocation that holds it (120 s,
`infra/brain/lambda/worker.ts`, `infra/brain/lib/brain-stack.ts`), so only an ended invocation's lease lapses;
the visibility timeout (720 s) outlives the lease, so a failed delivery that left a lease behind comes back
after it lapsed. A delayed CONTINUE (10 s and more) comes after its sender's release, which follows at once.
These three are the only assumptions about durations.

### State and actions of `MailSend`

- `row` is the draft: send state, `words` (body, to and cc, which the claim compares), the attempt and when it
  started, the hash of what was handed to Gmail, and when it was last reconciled. `reply` counts the replies
  begun on the conversation; `released` remembers the attempts a person released.
- `mail[a]` is what became of the message of attempt `a`: `FREE` (nothing was transmitted), on the `WIRE`,
  `IN` Sent mail, or `LOST`. No code can read it but through Gmail's answer or a look at Sent mail.
- `req[p]` is one request: where it stands and what it has read. `now` counts ticks.

One action is one statement of `WorkDraftRepository` or one call of Gmail. `SendDraft` reads the draft,
`ClaimForSend` claims it and compares the words, then `AbandonClaim` or `Transmit`, then `RecordSent`,
`RecordNotSent` or `RecordUnknown`. `Reconcile`, `ReadDraft`, `MarkStaleAttemptUnknown`, `RereadDraft`,
`LookupSent` and `SettleDoubt` are `reconcile` (a second Send on a reply in doubt is the same thing, a `VIEW`).
`ReleaseUnconfirmed` to `ReleaseUnknown` are `releaseUnconfirmed`: a look, and then the row
read again. A request may `Die` between any two. `save` is a read and a write conditional on
the state it read, so it is one step or none.

A `Tick` is allowed only while no request is older than `RequestLife` (the platform ends one at 60 s,
`inFlightMs` is 90 s) and every message on the wire is younger than `Settle` (10 minutes): Gmail has accepted
and shows a message by then or never will. The service rests on both, in its own words.

### State and actions of `OutboxDelivery`

- `outbox[c]` is the status of a change's row, `del[<<c, s>>]` the delivery to a subscription: status,
  attempts, and how long ago `availableAt` and `startedAt` were. Times are ages, because a pass compares what
  is stored with the moment it started itself (`age`), never with a later clock.
- `pass[p]` is one pass: where it stands, the stale claims it has listed, the rows left of its batch, the
  subscriptions it matched, the deliveries left of the row, the delivery it runs.
- `robbed` and `unheard` are not in the code. They record the two events in which its conditions do not say
  what they mean: a reclaim that takes a delivery from a claim newer than the one it read (its condition is
  the status, not the claim), and a success whose write committed and whose answer was lost (`markSucceeded`
  is inside the `try`, so `markFailed` follows it). Properties except these deliveries by name.

One action is one statement or one handler; `markSucceeded` and `markFailed` read and write their own row and
are one step. The order of deliveries is free. `TimingAssumption` says a claim outlives the pass that made it,
and that a delivery cannot spend all its attempts while one pass lives. The code's five-minute lease gives the
first ample room. The second just fits: four back-offs of 30 s against twice the life of a pass, which begins
after its request and ends with it, and so lives less than the 60 s of a request. Where both are equal
`PublishedMeansDelivered` fails.

### State and actions of `RefreshQueue`

- `req` holds the requests of one target: the queue's rules (one `PENDING`, coalescing, folding) are per
  target. `digest` is the stored reading: its status, the evidence it is of, and the newest evidence a verdict
  on it knew.
- `evidence` numbers what a producer would gather now. A fingerprint is that number; that a reading is stored
  under another prompt or model although the evidence is the same is a free choice of `Compare`.
- `pass[p]` is one pass: enqueue (`Discover` to `Standing`), claim (`Recover` to `Claim`), the refresh of one
  claim (`Begin` to `ResolveSuperseded`).
- Three records are not in the code. `late`: the lease ran out while the pass served its request. `robbed`: the
  claim it serves, or the one it is about to fold, was put back although its lease had not run out. `overtaken`:
  a pass has undone the work of one that knew more, or ended a request it had lost to another pass of its lease
  name.

One action is one statement or transaction, or one call of the producer. A lease nobody attends to runs out
freely (`Abandon`), one that is attended to only as a counted fault (`Outlive`), because a pass serves up to
its limit of claims under leases that began together. Passes may share the name they lease under, as two
requests of the web host do (`web:mail-intelligence`,
`apps/web/src/app/api/internal/intelligence/mail/route.ts:170`).

### What is abstracted

In the Brain, content (inputs, questions, replies, sealed checkpoints) is left out; a checkpoint that cannot be
opened is an `Outage` that fails the job. Authorization is an input: Loop may refuse a step
(`Refusals`) or a responder. Events, the transition history, active time and the logs change no
decision and are left out; whether a job is late or killed is a choice made at each boundary.
The executor is revision 1: `COMMIT_RESULT` always ends in `COMMIT_REFUSED`, so no run of
`BrainExecution` reaches SUCCEEDED; `BrainJobContract` has `ResultCommitted` all the same. Nothing in
the code increments a job's generation, so it is not kept.

In mail, failure classes and their wording are left out, and with them `noteNotAttempted`; so are mail
somebody typed by hand in Gmail that looks like the reply, and the `reconciledAt` a release leaves behind. In
the outbox, payloads, the effects of handlers and error texts. `setStatus` of a subscription has no caller in
production; it is modelled because the publisher is written for it. In the refresh queue, due times and
back-off (a request is due whenever a pass looks), request counts and reasons; attempts stop at the limit.
What was gathered before a request was held is written before the retention sweep removes that request, days
later.

## 3. Runs

| Run | Instance | Shows |
|---|---|---|
| `contract` | 2 jobs (one with every capability, one interactive only), 2 questions | `TypeOK`, `RowShape`, `EndedStays`, `FirstStopStands` under any order of events (10 679 states) |
| `exec_questions` | 1 job that may be interactive or durable, may ask, be late, be killed, be refused; 1 invocation at a time; 1 fault, 1 outage | `QuestionMatchesJob`, `RepeatsAreExplained`, `StepsInOrder`, `RecordsStand`, `ImplementsContract`, `UnfinishedWorkEnds` (about 760 000 states) |
| `exec_takeover` | 1 durable job, 2 invocations, 1 fault, 1 duplicate | `OneDriver`, `HasWake`, `EndedWorkStopped`, `UnfinishedWorkEnds` (about 970 000 states) |
| `answered_reply_lost` | 1 job that asks, 1 fault | violates `AnsweredWorkResumes` |
| `promoted_work_stalls` | 1 job that is promoted, 2 invocations, no fault | violates `PromotedWorkEnds` |
| `swept_ring_lost` | 2 jobs, a sweep of 1 command, no fault | violates `LostRingIsNotALostJob` |
| `answered_yet_expired` | 1 job that asks, no fault | violates `ExpiredQuestionWasUnanswered` |
| `mail_send` | 2 requests, 2 attempts, 2 wordings, 2 replies, 3 ticks | `NoStrayMessage`, `SentOnce`, `SenderOwnsTheRow`, `EvidenceIsFrozen`, `KeepsThePromise` (about 1.5 million states) |
| `mail_second_press` | one page pressed twice | violates `PressesAreOneMessage` |
| `outbox_delivery` | 1 change, 1 required subscription that is switched off and on, 2 overlapping passes, 2 faults | `NoDoubleDispatch`, `HandlerHoldsTheDelivery`, `AttemptsAreBounded`, `PublishedMeansDelivered`, `SuccessStands`, `ConclusionStands`, `EveryChangeConcludes` (about 160 000 states) |
| `outbox_stranded` | 1 change, 2 subscriptions, one of them required, 1 pass, 1 fault | violates `ClaimedDeliveryEnds` |
| `refresh_queue` | 2 requests, 2 passes under own or shared lease names, evidence that changes once, 1 fault | `OneClaimer`, `FreshOrBarred`, `HeldIsAnswered` (about 3.2 million states) |

Deadlock is not checked: once every job has ended and the bounds are spent, nothing is left to do;
likewise when mail's clock has reached its bound, and when every change is concluded. `TypeOK` is
checked once per specification.

**Bounds.** `MaxWaits` 2: a second question is asked only when a crash lost the answer to the first, and
one crash can do that once. `MaxAttempts` 2 (the policies say 3): the limit is reached by one fault
and one outage. `MaxFaults` 1 and `MaxOutages` 1 put one crash or failed call at every point of every
behaviour, together with an outage of Loop. `MaxCopies` bounds duplicates. `MaxReceive` is larger
than the faults that can consume deliveries, so no message becomes a dead letter: with a smaller
value `HasWake` fails, because a message whose deliveries all failed leaves a running job without a
lease that the sweeper does not look for. The document's "the job's lease expires; the sweeper
retries" (docs/architecture/brain-execution-infrastructure.md:517) holds only if the last delivery leaves
its lease behind. `SweepLimit` (100 in the code) is larger than the number of commands in the
passing runs and 1 in `swept_ring_lost`, where two jobs stand for a hundred.
Two workers are enough for a race for one lease; jobs do not share state except
the sweep's window and the invocations, and only the former matters to a property.

*Mail.* Two attempts and two requests let a second attempt begin while the first is in doubt, which is what
every property is about; a third would have to do to the second what the second does to the first. Three ticks
are enough for an attempt to grow old, settle, be released and be sent again; the windows are as wide as the
run. Two wordings tell an edit from none, two replies a second use of the row from the first.

*Outbox.* The hazards are between passes over one delivery: two passes, and two faults so that one dies and
the other's answer is lost. `MaxAttempts` 2 with `RetryDelay` 3, `Lease` 2 and `PassLife` 1 keep the
proportions of 5 attempts, 30 s, 5 minutes and a minute that matter. Deliveries of one row meet only in
`reconcileParent`; instances with two subscriptions (1.7 million states, one required and switched, one fault)
and with two changes (170 000 states) were also explored without an error.

*Refresh.* Two rows are a request that is served or held and the one that coalesces behind it. Evidence 1
and 2 are old and new. With one fault one lease is outlived, or one write fails, or one pass dies; an abandoned
lease after a death runs out without another.

**Fairness** (`FairSpec`). In `OutboxDelivery`: the drain is scheduled every five minutes
(`.github/workflows/drain-outbox.yml`), a pass that does not die goes on, and time passes; all weak. Faults,
subscriptions being switched and changes being recorded are under no obligation. No liveness is claimed for
mail, where a doubt ends only if somebody opens the page, or checked for the refresh queue, whose fair graph
is too large. In `BrainExecution`: an invocation keeps taking steps until it ends or crashes; messages that
stay deliverable are delivered and hidden ones reappear; the sweeper runs every five minutes and handles what
it finds (`infra/brain/lib/brain-stack.ts`, the scheduler); time passes, so questions fall due and orphaned
leases lapse. All weak. Nothing obliges a person to submit, answer or cancel, a ring to arrive, or a fault to
occur. The sweeper's fairness for commands is for *some* command of its window, as a sweep does not get past
it.

### Refinement

`BrainExecution` implements `BrainJobContract` (`ImplementsContract`): each row moves only by the events of
the contract. `MailSend` implements `MailPromise` (`KeepsThePromise`): the four standings of a reply stand for
five send states, an attempt is *alive* while a request is about to transmit it or it is on the wire, and the
sets of the promise are those of the row's present reply. Both are checked by TLC and proved.

### Findings

Each is a violation run, with the trace TLC prints.

1. `answered_reply_lost`. The invocation that asked a question dies before it gives the lease back (or the
   call that releases it fails). A reply recorded before the lease lapses rings a RESUME, which is consumed as
   BUSY (`worker.ts:138`). The redelivered message is not a RESUME and is consumed too; the sweeper looks
   neither for answered questions nor for stale leases of waiting jobs. The job stays WAITING_FOR_USER.
   `UnfinishedWorkEnds` therefore excepts a job that waits on an answered question, and says so.
2. `promoted_work_stalls`. A deadline promotion sends its CONTINUE before the lease is released; another
   invocation consumes it as BUSY in between.
3. `swept_ring_lost`. Commands that are refused or already done are never marked dispatched and crowd newer
   ones out of the sweep.
4. `answered_yet_expired`. A reply and the expiry of its question both succeed.
5. `mail_second_press`. `sendReplyAction` saves the form's words before it looks at the draft
   (`mail-actions.ts:124`), and saving over a reply that is `SENT` begins a new one. Pressed again after the
   first press was recorded, the same page sends the same words again.
6. `outbox_stranded`. `reconcileParent` dead-letters the parent as soon as a required delivery is dead
   (`state-change-publisher.ts:303`); no pass looks at the row again, so its other deliveries stay failed or
   claimed.

Observed while modelling, and excepted by name where a property would meet them:

- `releaseUnconfirmed` checks the age of the attempt it first read and releases the one it finds after the
  look (`mail-send.service.ts:278`), which may be younger. `SentOnce` counts it as a release.
- In the window of an attempt, an older message with the same words counts as proof that it was sent
  (`gmail-send-reconcile.ts:110`); a reply repeated word for word may be taken for sent when it was not.
- `robbed` and `unheard` deliveries, above: either may run twice, be tried once more than allowed, or fail
  after it succeeded.
- Two passes may own one refresh request although no lease was outlived, against "two workers can never both own
  a request" (`intelligence-refresh-queue.repository.ts:17-18`), when they share a lease name. A pass dies with a
  request claimed as `web:mail-intelligence` and its lease lapses. Two later passes of that name both list the
  request as expired; one returns it and claims it afresh; the stale return of the other
  (`intelligence-refresh-queue.repository.ts:310`) matches the fresh claim by its name, puts it back, and claims it
  too. A `retry` by a pass that has lost its request does the same. `OneClaimer` excepts what is lost this way by
  name (`robbed`); without the exception TLC finds this trace, of 18 states, in the `refresh_queue` instance.
- A slow pass stores its reading over a newer one, and completes by lease name what another pass of that name
  has claimed (`overtaken`). A recovered request is returned whatever its attempts.
- The fold of `returnToPending` (`intelligence-refresh-queue.repository.ts:317`) knows the claim it deletes by
  lease name as well. With three passes of one name, a pass that has found a newer request pending stops before
  the fold; that newer request is completed, the old one returned by the second pass and claimed by the third;
  the fold then deletes it, and nothing bars the reading any more. No run is large enough to show it: the proof
  of `FreshOrBarred` failed there, and TLC found the trace from a state in the middle of it. `Fold` records it
  (`overtaken`), as it does a completion.

`exec_takeover` uses a durable job, which is never promoted, so finding 2 does not hide in its
liveness check; `exec_questions` promotes with one invocation at a time, where the message cannot be
consumed early.

## 4. Proofs

The theorems hold for every value of the constants that the named assumptions allow; for the Brain, every set of
jobs and workers and every bound (`JobsAssumption`, `WaitsAssumption`, `WorkersAssumption`, `RefusalsAssumption`,
`BoundsAssumption`), which TLC evaluates in every run.

- `BrainJob_proofs`: each `After<Event>` returns a well-typed record, keeps `Shape` under its `Can<Event>`,
  and leaves the stop request as it should.
- `BrainJobContract_proofs`: `ContractTypes`, `ContractShape`, `ContractEndedStays`, `ContractFirstStop`.
  The inductive invariant is `TypeOK /\ RowShape`. `RowShape` is needed for the action properties:
  that a question or a success never overtakes a stop rests on a job with a stop request being
  RUNNING or ended.
- `BrainExecution_proofs`: `ExecutionTypes`, `ExecutionImplementsContract`, `ExecutionOneDriver`.
  `TypeOK` is not inductive: a message's delivery count must stay below its limit to be counted up, a
  worker's place in the plan must exist, and a failing worker must have a reason to write. The
  strengthening `TInv` adds the `Shape` of every row, that a queued message has a delivery left, that a busy
  worker holds a message and a place in its job's plan, and that the last step of the plan, the commit, is
  never recorded as done, so that no worker goes past it. The refinement shows that every action
  leaves `job` alone or moves one row by an event of the contract (`StepMovesOneRow`).
  `OneDriver` is inductive over `TInv`: a claim succeeds only on a free lease, only its
  holder or its end changes a lease from a worker's name, and a transition that ends a job clears
  the lease in the same write.
- `BrainRecords_proofs`: `ExecutionQuestions`, `ExecutionEndedWorkStopped`, `ExecutionRecordsStand`.
  `QuestionMatchesJob` is inductive over `TInv` as it stands; it is proved row by row (`RowsAgree`), once for
  each kind of event: one between states that do not wait, one that asks, one that resumes, one that closes.
  `EndedWorkStopped` needs one more invariant, `RecordsOfRunningWork`: a worker whose next write is to a step
  works on a RUNNING job. It is inductive over `OneDriver`, because only the driver, which is that worker
  itself, takes a job out of RUNNING. `RecordsStand` follows from the guards of each write.
- `BrainSteps_proofs`: `ExecutionStepsInOrder`, `ExecutionRepeatsAreExplained`, `ExecutionHasWake`. For the first, `SInv` adds that
  behind a worker's place in the plan everything is recorded (`PlacesBehind`) and that the row of a step
  somebody carries out is RUNNING (`StartedIsRunning`), which needs `OneDriver`: another driver could have
  taken it over. For the second, `BInv` is a ledger. Attempts exceed the failures by one at most, and by one
  only while the attempt is under way, its result is recorded, its job is ending, or the step is the question
  a person still has (`Excused`); a worker about to begin an attempt finds one paid for (`NextAttemptPaid`).
  A question is asked by an attempt of its step, so questions are paid for by the same failures.
  `HasWake` is proved where it is true: for jobs that neither ask a person nor are promoted, and messages that
  have more deliveries than `MaxFaults + MaxOutages + 1` (`EnoughDeliveries`; TLC finds a job without a wake
  one below that bound). A wake is lost where a message has had all its deliveries, so `WInv` counts them: an
  unfinished job's message has been delivered no more often than there were faults, outages and requests to
  stop the job, one more while it is under way, and one more if it was overtaken by a worker that still drives
  the job and has met none of those (`DeliveriesPaid`). That needs where a driver may stand (`PlacesFit`: none
  of the places of questions and promotions), which jobs a command, message or delivery may name (`NamesFit`),
  and that a delivery consumed before its job is done has sent the next one (`SentOn`). Then each of the four
  wakes hands on to another (`NextAwake`): a START to its reference, a message to a worker or its return, a
  worker to the lease, and a lease, when it is given back, to the message that follows.
- `MailSend_proofs`: `Invariance`, `MailTypes`, `SentOnceHolds`, `NobodyElsesMessage`, `SendersOwn`,
  `EvidenceStays`, `Refinement`, from `NamesAssumption` and `PolicyAssumption` (a request lives no longer than
  `InFlight` and less than `Settle`, and the window covers `Settle`). That nothing stray arrives rests on what
  requests know: the inductive invariant `IInv` adds that every request and every living message is young
  enough (`Clocks`), that a request about to transmit still holds the row, with the words it will send
  (`Holders`), and that whoever looks at an attempt keeps its true start, while nobody can transmit it any
  more, and concludes its absence only when it is absent (`Lookers`). Most steps touch neither mail nor clock
  and write the row in one of five ways; they are proved once (`RowOfAQuietStep`). `SentOnce` follows by
  counting: all that has arrived is the row's attempt or released.
- `OutboxDelivery_proofs`: `Invariance`, `Types`, `NoDoubleDispatchHolds`, `HandlerHolds`, `AttemptsBounded`,
  `SuccessStandsHolds`, `Conclusions`, `PublishedMeansDeliveredHolds`, `ConclusionStandsHolds`, for all changes,
  subscriptions and passes, from `ChangesAssumption`, `SubsAssumption`, `OptionsAssumption`, `TimingAssumption`.
  `RInv` adds that a running delivery has been held for exactly as long as its pass has lived, or succeeded
  unheard (`RunsHold`), that a claim listed as stale is no longer anybody's unless it was robbed (`StaleIsOver`:
  a lease is as long as two passes, so no living pass's claim can look abandoned to another), and that what is
  claimed has attempts left (`AttemptsAreLeft`). `CInv` adds what the parent rests on. `reconcileParent` reads
  and writes in two steps, and a subscription switched on in between gets a delivery the verdict has not seen.
  Such a delivery was created no earlier than the life of a pass before the reading, and each attempt but the
  first waits for a back-off or for a lease to run out, so it is still far from its last attempt while the reader
  lives (`VerdictOK`, `Within`), and afterwards no pass that still has the row in its batch can spend the last
  one (`PublishedOK`, `Harmless`). Both halves of `TimingAssumption` are used, the second through `Waits`, the
  product of attempts and delay. With that, a row published has no required refusal and a row given up has one,
  and two verdicts agree.
- `RefreshQueue_proofs`: `Invariance`, `Types`, `OneClaimerHolds`, `HeldIsAnsweredHolds`, `FreshOrBarredHolds`,
  for all rows, passes and lease names, from `NoneAssumption`, `LeasesAssumption`, `BoundsAssumption`. `QInv`
  adds that a pass neither late nor robbed serves a request that names it, or none that is still claimed
  (`ServedIsClaimed`). What takes a request from a pass is a recovery or a retry: what a recovery has listed had
  run out (`PlaceOK`), and a request whose lease has run out is served by a late pass (`RanOutIsLate`), so it
  takes a claim in time only where it acts on an earlier claim of the same name; and a retry puts back another's
  claim only for a pass that had lost it. TLC finds `OneClaimer` violated as soon as the expiry test, the
  claim's compare-and-set or the comparison of the lease's name is left out. `QInv` adds too that the requests a
  pass may resolve were held at evidence no newer than it gathered (`OlderIsKnown`, `HeldSince`); requests are
  not reused while anyone remembers them. `FInv` follows what was asked until the reading is judged by as much.
  Meanwhile a request bars it (`BarredOK`): one that is pending, one held since then, or one served by a pass
  that has yet to gather, has gathered that much, or will put it back; or the reading is not CURRENT and no pass
  can make it so from less. A pass judges the reading by what it gathered (`JudgedOK`, `SawOK`), a request it
  folds was lost if it is pending again (`FoldOK`), and the sweep purges a held request only when nobody can
  revive the reading from before it (`PurgeOK`).

Left to TLC: everything about liveness (`UnfinishedWorkEnds`, `EveryChangeConcludes`, the findings that are
temporal), which this prover does not reach, as it does not reach ENABLED or induction over data; and `HasWake`
outside the hypotheses of its theorem, where it fails: promoted jobs lose their wake (finding 2), and of a job
that asks a person TLC finds the RESUME message used up without as many failures, because workers that deliver
TIMERs of the question overtake its deliveries before their claim (one fault, one outage, one cancel and five
deliveries; there the CANCEL command, not dispatched yet, is all that looks at the job). Every invariant and
safety property of the passing runs is a theorem. No module here uses RECURSIVE.

## 5. Plan

Built: the Brain's contract and execution (first because it is the one protocol of the repository with four
concurrent components, leases, an at-least-once queue and crash recovery); mail, where a mistake reaches
somebody's inbox; the outbox and the refresh queue, the two leased queues that everything else feeds.

Next, in this order:

1. `UsageLedger`: reservations in serializable transactions, reconciliation, abandoned calls. One run; theorem
   that spend stays within the budget.
2. `PollCheckpoint` and the cursors of Gmail and calendar: a cursor moves only after what it passes is stored.
3. Cognitive event processing, a lease per event and stage; AI controls.

## 6. Not modelled, and why

The doorbell's token checks and the internal API's authorization (cryptography and permission tables; their
outcomes are inputs). Paid model calls and `COMMIT_RESULT` with a result (no caller in revision 1). Analytics,
decision and headline computations (pure functions over stored facts). CRM, cases, creators, messaging, IAM
(single-transaction record keeping). Providers, the web application, deployment (I/O and configuration). The
usage ledger, poll checkpoints, Gmail's cursors, cognitive event processing and the AI controls are in the
plan. By lines most of the repository is user interface, pure computation over stored facts and record keeping
in single transactions, where a state machine would say nothing a unit test does not. The list with reasons is
under `components` in `PROJECT.json`.
