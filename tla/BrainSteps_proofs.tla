------------------------- MODULE BrainSteps_proofs --------------------------
(***************************************************************************)
(* Three theorems about how a job is carried forward: a step is started    *)
(* only behind the results of all steps before it (StepsInOrder), a step   *)
(* is attempted again, or a person asked again, only for a failure         *)
(* (RepeatsAreExplained), and work that waits for nobody always has        *)
(* something that looks at it again (HasWake; the last part, from Plain).  *)
(*                                                                         *)
(* None is inductive.  The first needs what a worker's place in the plan   *)
(* says of the rows behind it (PlacesBehind), and that the row of the step *)
(* a worker is carrying out is RUNNING (StartedIsRunning), which holds     *)
(* because that worker drives the job alone.  The second needs a ledger:   *)
(* an attempt that the failures so far do not pay for is still             *)
(* under way, or its job is ending, or a person has the question, or its   *)
(* result is recorded (Excused).  The third needs another, of deliveries   *)
(* (DeliveriesPaid), so that no message is used up while its job goes on.  *)
(***************************************************************************)
EXTENDS BrainRecords_proofs, FiniteSetTheorems

-----------------------------------------------------------------------------
(* Who moves a worker.                                                      *)

\* Whatever happens, a worker moves by a step of its own or because a write of
\* its job's row overtook its own.
LEMMA WhoMoves ==
    ASSUME TInv, [Next]_vars, NEW v \in Workers
    PROVE  \/ worker'[v] = worker[v]
           \/ Receive(v) \/ Work(v) \/ Crash(v)
           \/ worker[v].pc = "claim" /\ worker'[v] = Idle
           \/ \E j \in Jobs : Cancel(j) /\ v \in Exposed(j) /\ worker'[v] = Overtaken(v)
<1> USE DEF TInv, WorkersOK
<1>1. CASE UNCHANGED worker
  BY <1>1
<1>2. ASSUME NEW j \in Jobs, Cancel(j)
      PROVE  \/ worker'[v] = worker[v]
             \/ v \in Exposed(j) /\ worker'[v] = Overtaken(v)
  <2>1. PICK hit \in SUBSET Exposed(j) :
            worker' = [u \in Workers |-> IF u \in hit THEN Overtaken(u) ELSE worker[u]]
    <3> DEFINE C == IF AfterCancel(job[j], "REQUESTED_BY_PRINCIPAL") = job[j]
                    THEN {} ELSE Exposed(j)
    <3>1. \E hit \in SUBSET C :
            worker' = [u \in Workers |-> IF u \in hit THEN Overtaken(u) ELSE worker[u]]
      BY <1>2 DEF Cancel
    <3>2. C \subseteq Exposed(j)
      OBVIOUS
    <3> HIDE DEF C
    <3> QED BY <3>1, <3>2
  <2> QED BY <2>1
<1>3. ASSUME NEW w \in Workers, w # v, Receive(w) \/ Work(w) \/ Crash(w)
      PROVE  \/ worker'[v] = worker[v]
             \/ worker[v].pc = "claim" /\ worker'[v] = Idle
  <2>1. CASE Claim(w) /\ worker' # [worker EXCEPT ![w] = Idle]
    <3> DEFINE j == worker[w].msg.job
    <3>1. PICK hit \in SUBSET {u \in Exposed(j) \ {w} : worker[u].pc = "claim"} : \E pc :
             worker' = [u \in Workers |->
                 CASE u = w -> [worker[w] EXCEPT !.pc = pc, !.asked = job[j].wait]
                   [] u \in hit -> Overtaken(u)
                   [] OTHER -> worker[u]]
      BY <2>1 DEF Claim
    <3> QED BY <1>3, <3>1 DEF Overtaken
  <2>2. CASE Claim(w) /\ worker' = [worker EXCEPT ![w] = Idle]
    BY <1>3, <2>2
  <2>3. CASE Receive(w) \/ Release(w) \/ Crash(w)
    <3>1. UNCHANGED worker \/ \E a : worker' = [worker EXCEPT ![w] = a]
      BY <2>3 DEF Receive, Release, Crash
    <3> QED BY <1>3, <3>1
  <2>4. CASE ~(Claim(w) \/ Receive(w) \/ Release(w) \/ Crash(w))
    <3>1. \/ UNCHANGED worker
          \/ \E pc : Goes(w, pc) \/ Ends(w, pc) \/ (\E why : Breaks(w, pc, why))
          \/ NextStep(w)
      BY <1>3, <2>4
         DEF Work, DispatchRow, StartRow, SettleRow, PromoteRow, Move, ReadExpiry,
             Expire, Resume, RecordAnswer, Boundary, Begin, Execute, Clarify,
             RecordCheckpoint, RecordFailure, Requeue, Fail, Stop
    <3> QED BY <1>3, <3>1, OwnStep
  <2> QED BY <2>1, <2>2, <2>3, <2>4
<1>4. ASSUME NEW j \in Jobs, \/ Submit(j) \/ Answer(j) \/ QuestionFallsDue(j)
                             \/ LeaseLapses(j) \/ SweepTimer(j) \/ SweepLease(j)
      PROVE  UNCHANGED worker
  BY <1>4 DEF Submit, Answer, QuestionFallsDue, LeaseLapses, SweepTimer, SweepLease
<1>5. ASSUME NEW i \in DOMAIN commands, Ring(i) \/ SweepCommand(i) \/ DispatcherDies(i)
      PROVE  UNCHANGED worker
  BY <1>5 DEF Ring, SweepCommand, DispatcherDies, Dispatch
<1>6. MessageReappears => UNCHANGED worker
  BY DEF MessageReappears
<1>7. UNCHANGED vars => UNCHANGED worker
  BY DEF vars
<1> QED BY <1>1, <1>2, <1>3, <1>4, <1>5, <1>6, <1>7 DEF Next

\* Where a worker's own step leaves its place in the plan, and its reason.
LEMMA OwnPlace ==
    ASSUME TInv, NEW w \in Workers
    PROVE  /\ \A pc : Goes(w, pc) => worker'[w].at = worker[w].at
                                     /\ worker'[w].why = worker[w].why
           /\ \A pc, why : Breaks(w, pc, why) => worker'[w].at = worker[w].at
                                                 /\ worker'[w].why = why
           /\ \A pc : Ends(w, pc) => worker'[w].at = 1
           /\ NextStep(w) => worker'[w].at = worker[w].at + 1
<1>1. worker \in [Workers -> Invocation] /\ worker[w] \in Invocation
  BY DEF TInv, WorkersOK
<1>2. ASSUME NEW pc, Goes(w, pc)
      PROVE  worker'[w].at = worker[w].at /\ worker'[w].why = worker[w].why
  BY <1>1, <1>2 DEF Goes, Invocation
<1>3. ASSUME NEW pc, NEW why, Breaks(w, pc, why)
      PROVE  worker'[w].at = worker[w].at /\ worker'[w].why = why
  BY <1>1, <1>3 DEF Breaks, Invocation
<1>4. ASSUME NEW pc, Ends(w, pc) PROVE worker'[w].at = 1
  <2> DEFINE a == [Idle EXCEPT !.pc = pc, !.msg = worker[w].msg]
  <2>1. a.at = 1 /\ worker' = [worker EXCEPT ![w] = a]
    BY <1>4 DEF Ends, Idle
  <2> HIDE DEF a
  <2> QED BY <1>1, <2>1
<1>5. NextStep(w) => worker'[w].at = worker[w].at + 1
  BY <1>1 DEF NextStep, Invocation
<1> QED BY <1>2, <1>3, <1>4, <1>5

\* The row of a step is written by a worker at its step, of a running job it holds
\* the lease of; nothing else moves with it but that worker.
Writes(w) ==
    /\ RecordAnswer(w) \/ Begin(w) \/ RecordCheckpoint(w) \/ RecordFailure(w)
    /\ Row(w).state = "RUNNING" /\ lease[worker[w].msg.job] = w
    /\ \A i \in Jobs : i # worker[w].msg.job => step'[i] = step[i]

\* Each change of a step's row is such a write.
LEMMA WhoWrites ==
    ASSUME TInv, OneDriver, RecordsOfRunningWork, [Next]_vars
    PROVE  UNCHANGED step \/ \E w \in Workers : Writes(w)
<1>1. ASSUME NEW w \in Workers,
             RecordAnswer(w) \/ Begin(w) \/ RecordCheckpoint(w) \/ RecordFailure(w)
      PROVE  UNCHANGED step \/ Writes(w)
  <2>1. StepOK /\ worker[w].pc # "idle" /\ Driving(w)
    BY <1>1 DEF TInv, RecordAnswer, Begin, RecordCheckpoint, RecordFailure, Driving
  <2>2. worker[w].msg.job \in Jobs /\ Row(w) \in JobRecord
    BY <2>1, BusyWorker
  <2>3. CASE step' # step
    <3>1. Row(w).state = "RUNNING"
      BY <1>1, <2>3 DEF RecordAnswer, Begin, RecordCheckpoint, RecordFailure,
                        RecordsOfRunningWork, Recording, Row
    <3>2. \A i \in Jobs : i # worker[w].msg.job => step'[i] = step[i]
      BY <1>1, <2>1 DEF RecordAnswer, Begin, RecordCheckpoint, RecordFailure,
                        Checkpointed, StepOK
    <3>3. lease[worker[w].msg.job] = w
      BY <2>1, <3>1 DEF OneDriver, Row, Terminal, TerminalStates
    <3> QED BY <1>1, <3>1, <3>2, <3>3 DEF Writes
  <2> QED BY <2>3
<1>2. ASSUME NEW w \in Workers, Expire(w) \/ Clarify(w) \/ Fail(w) \/ Stop(w)
      PROVE  UNCHANGED step
  BY <1>2 DEF Expire, Clarify, Fail, Stop
<1>3. ASSUME NEW j \in Jobs, Cancel(j) \/ Answer(j) \/ QuestionFallsDue(j)
      PROVE  UNCHANGED step
  BY <1>3 DEF Cancel, Answer, QuestionFallsDue
<1>4. UNCHANGED vars => UNCHANGED step
  BY DEF vars
<1> QED BY <1>1, <1>2, <1>3, <1>4, NoWriteElsewhere DEF Next, Work

\* While a job runs, the worker that drives it is the only one that writes its steps.
LEMMA OnlyTheDriverWrites ==
    ASSUME TInv, OneDriver, NEW v \in Workers, Driving(v), Row(v).state = "RUNNING",
           NEW w \in Workers, Writes(w), w # v
    PROVE  step'[worker[v].msg.job] = step[worker[v].msg.job]
<1>1. worker[v].msg.job \in Jobs
  BY BusyWorker DEF Driving
<1>2. lease[worker[v].msg.job] = v
  BY DEF OneDriver, Row, Terminal, TerminalStates
<1> QED BY <1>1, <1>2 DEF Writes

-----------------------------------------------------------------------------
(* StepsInOrder.                                                            *)

CarryingOut(w) == worker[w].pc \in {"execute", "checkpoint", "failstep"}
\* Every step before a worker's place has its result.
PlacesBehind == \A w \in Workers : worker[w].pc # "idle" =>
    \A h \in DOMAIN Plan(worker[w].msg.job) : h < worker[w].at =>
        step[worker[w].msg.job][Plan(worker[w].msg.job)[h]].state = "SUCCEEDED"
\* The step a worker carries out was started and has no outcome yet.
StartedIsRunning == \A w \in Workers : CarryingOut(w) =>
    step[worker[w].msg.job][StepOf(w)].state = "RUNNING"

SInv == PlacesBehind /\ StartedIsRunning /\ StepsInOrder

\* A plan names a step once.
LEMMA PlanIsInjective ==
    ASSUME NEW j \in Jobs, NEW h \in DOMAIN Plan(j), NEW i \in DOMAIN Plan(j),
           Plan(j)[h] = Plan(j)[i]
    PROVE  h = i
BY DEF Plan

\* Where a delivery begins: at the place Entry names for the job's row, or stopped.
EntryPlaces == {"settle", "boundary", "dispatch", "start", "expiring", "resume",
                "release", "stop"}

\* What receiving, claiming, releasing and crashing make of a worker.
LEMMA DeliveryLeaves ==
    ASSUME TInv, NEW v \in Workers,
           Receive(v) \/ Claim(v) \/ Release(v) \/ Crash(v)
    PROVE  \/ worker'[v] = worker[v]
           \/ worker'[v].pc = "idle"
           \/ worker'[v].pc = "claim" /\ worker'[v].at = 1
           \/ /\ worker[v].pc = "claim" /\ worker'[v].pc \in EntryPlaces
              /\ worker'[v].msg = worker[v].msg /\ worker'[v].at = worker[v].at
<1>1. worker \in [Workers -> Invocation] /\ worker[v] \in Invocation
  BY DEF TInv, WorkersOK
<1>2. CASE worker' = [worker EXCEPT ![v] = Idle]
  BY <1>1, <1>2 DEF Idle
<1>3. CASE Receive(v)
  <2> DEFINE a(m) == [Idle EXCEPT !.pc = "claim", !.msg = [m EXCEPT !.n = @ + 1]]
  <2>1. PICK m \in queue : UNCHANGED worker \/ worker' = [worker EXCEPT ![v] = a(m)]
    BY <1>3 DEF Receive
  <2>2. a(m).pc = "claim" /\ a(m).at = 1
    BY DEF Idle
  <2> HIDE DEF a
  <2> QED BY <1>1, <2>1, <2>2
<1>4. CASE Claim(v) /\ worker' # [worker EXCEPT ![v] = Idle]
  <2> DEFINE j == worker[v].msg.job
  <2>1. PICK hit \in SUBSET {u \in Exposed(j) \ {v} : worker[u].pc = "claim"},
             pc \in {Entry(j, worker[v].msg.reason)} \cup {"stop"} :
           worker' = [u \in Workers |->
               CASE u = v -> [worker[v] EXCEPT !.pc = pc, !.asked = job[j].wait]
                 [] u \in hit -> Overtaken(u)
                 [] OTHER -> worker[u]]
    BY <1>4 DEF Claim
  <2>2. pc \in EntryPlaces
    BY <2>1 DEF Entry, WaitingEntry, EntryPlaces
  <2>3. /\ worker'[v].pc = pc /\ worker'[v].msg = worker[v].msg
        /\ worker'[v].at = worker[v].at
    BY <1>1, <2>1 DEF Invocation
  <2> QED BY <1>4, <2>2, <2>3 DEF Claim
<1> QED BY <1>2, <1>3, <1>4 DEF Release, Crash

\* A worker comes to carry out a step by starting it, and stays at it until it has an
\* outcome.
LEMMA WhoCarriesOut ==
    ASSUME TInv, [Next]_vars, NEW v \in Workers, CarryingOut(v)'
    PROVE  /\ worker[v].pc # "idle"
           /\ worker'[v].msg = worker[v].msg /\ worker'[v].at = worker[v].at
           /\ CarryingOut(v) \/ (Begin(v) /\ Goes(v, "execute"))
<1> USE DEF CarryingOut
<1>1. CASE worker'[v] = worker[v] \/ worker'[v] = Idle
  BY <1>1 DEF Idle
<1>2. ASSUME NEW j \in Jobs, v \in Exposed(j), worker'[v] = Overtaken(v)
      PROVE  /\ CarryingOut(v) /\ worker'[v].msg = worker[v].msg
             /\ worker'[v].at = worker[v].at
  <2>1. worker[v] \in Invocation
    BY DEF TInv, WorkersOK
  <2> QED BY <1>2, <2>1 DEF Overtaken, Idle, Invocation
<1>3. CASE Receive(v) \/ Claim(v) \/ Release(v) \/ Crash(v)
  BY <1>1, <1>3, DeliveryLeaves DEF EntryPlaces
<1>4. CASE Begin(v)
  <2>1. \/ Goes(v, "execute") \/ NextStep(v) \/ Ends(v, "release")
        \/ \E why : Breaks(v, "fail", why)
    BY <1>4 DEF Begin
  <2>2. Goes(v, "execute")
    BY <2>1, OwnStep
  <2> QED BY <1>4, <2>2, OwnStep, OwnPlace DEF Begin
<1>5. CASE Execute(v) \/ Clarify(v)
  <2>1. CarryingOut(v)
    BY <1>5 DEF Execute, Clarify
  <2>2. \/ \E pc : Goes(v, pc) \/ (\E why : Breaks(v, pc, why))
        \/ Ends(v, "release") \/ UNCHANGED worker
    BY <1>5 DEF Execute, Clarify
  <2> QED BY <2>1, <2>2, OwnStep, OwnPlace
<1>6. CASE Work(v) /\ ~(Claim(v) \/ Release(v) \/ Begin(v) \/ Execute(v) \/ Clarify(v))
  <2>1. \/ \E pc \in Places \ {"execute", "checkpoint", "failstep"} :
               Goes(v, pc) \/ Ends(v, pc) \/ (\E why : Breaks(v, pc, why))
        \/ NextStep(v)
    BY <1>6 DEF Work, DispatchRow, StartRow, SettleRow, PromoteRow, Move, ReadExpiry,
                Expire, Resume, RecordAnswer, Boundary, RecordCheckpoint,
                RecordFailure, Requeue, Fail, Stop, Places
  <2> QED BY <2>1, OwnStep
<1> QED BY <1>1, <1>2, <1>3, <1>4, <1>5, <1>6, WhoMoves

\* What the four writes make of the row.
LEMMA WhatIsWritten ==
    ASSUME TInv, NEW w \in Workers
    PROVE  LET j == worker[w].msg.job IN
           /\ Begin(w) /\ Goes(w, "execute") =>
                 /\ step[j][StepOf(w)].state # "SUCCEEDED" /\ job[j].state = "RUNNING"
                 /\ step' = [step EXCEPT ![j][StepOf(w)] =
                       [state |-> "RUNNING", attempts |-> step[j][StepOf(w)].attempts + 1]]
           /\ Begin(w) /\ ~Goes(w, "execute") => UNCHANGED step
           /\ RecordCheckpoint(w) => worker[w].pc = "checkpoint" /\ NextStep(w)
           /\ RecordAnswer(w) => worker[w].pc = "record" /\ Goes(w, "boundary")
<1>1. ASSUME Begin(w), Goes(w, "execute")
      PROVE  ~NextStep(w) /\ ~Ends(w, "release") /\ \A why : ~Breaks(w, "fail", why)
  BY <1>1, OwnStep
<1> QED BY <1>1 DEF Begin, RecordCheckpoint, RecordAnswer

\* A step that is carried out stays RUNNING, because its worker drives alone.
LEMMA NextStarted ==
    ASSUME TInv, OneDriver, RecordsOfRunningWork, StartedIsRunning, [Next]_vars
    PROVE  StartedIsRunning'
<1> SUFFICES ASSUME NEW v \in Workers, CarryingOut(v)'
             PROVE  step'[worker'[v].msg.job][StepOf(v)'].state = "RUNNING"
  BY DEF StartedIsRunning
<1> DEFINE j == worker[v].msg.job
<1>1. /\ worker[v].pc # "idle" /\ worker'[v].msg = worker[v].msg /\ StepOf(v)' = StepOf(v)
      /\ CarryingOut(v) \/ (Begin(v) /\ Goes(v, "execute"))
  BY WhoCarriesOut DEF StepOf, Plan
<1>2. j \in Jobs /\ StepOf(v) \in StepKeys /\ StepOK
  BY <1>1, BusyWorker DEF TInv
<1>3. CASE Begin(v) /\ Goes(v, "execute")
  <2>1. \E n : step' = [step EXCEPT ![j][StepOf(v)] = [state |-> "RUNNING", attempts |-> n]]
    BY <1>3, WhatIsWritten
  <2>2. step'[j][StepOf(v)].state = "RUNNING"
    BY <1>2, <2>1 DEF StepOK
  <2> QED BY <1>1, <2>2
<1>4. CASE CarryingOut(v)
  <2>1. step[j][StepOf(v)].state = "RUNNING"
    BY <1>4 DEF StartedIsRunning
  <2>2. Driving(v) /\ Row(v).state = "RUNNING"
    BY <1>4 DEF CarryingOut, Driving, RecordsOfRunningWork, Recording
  <2>3. ASSUME NEW w \in Workers, Writes(w) PROVE w # v
    <3>1. ~RecordAnswer(v) /\ ~Begin(v)
      BY <1>4 DEF CarryingOut, RecordAnswer, Begin
    <3>2. ~RecordCheckpoint(v)
      BY OwnStep DEF CarryingOut, RecordCheckpoint
    <3>3. ~RecordFailure(v)
      <4>1. RecordFailure(v) => \E pc \in {"fail", "backoff"} :
                Goes(v, pc) \/ (\E why : Breaks(v, pc, why))
        BY DEF RecordFailure
      <4>2. ASSUME NEW pc \in {"fail", "backoff"},
                   Goes(v, pc) \/ (\E why : Breaks(v, pc, why))
            PROVE  ~CarryingOut(v)'
        BY <4>2, OwnStep DEF CarryingOut
      <4> QED BY <4>1, <4>2
    <3> QED BY <2>3, <3>1, <3>2, <3>3 DEF Writes
  <2>4. step'[j] = step[j]
    BY <2>2, <2>3, WhoWrites, OnlyTheDriverWrites
  <2> QED BY <1>1, <2>1, <2>4
<1> QED BY <1>1, <1>3, <1>4

\* A worker passes a step only when its result is recorded.
LEMMA PlaceMoves ==
    ASSUME TInv, StartedIsRunning, [Next]_vars, NEW v \in Workers,
           worker'[v].pc # "idle"
    PROVE  \/ worker'[v].at = 1
           \/ /\ worker[v].pc # "idle" /\ worker'[v].msg = worker[v].msg
              /\ \/ worker'[v].at = worker[v].at
                 \/ /\ worker'[v].at = worker[v].at + 1
                    /\ step'[worker[v].msg.job][StepOf(v)].state = "SUCCEEDED"
<1> DEFINE j == worker[v].msg.job
           Stays == /\ worker[v].pc # "idle" /\ worker'[v].msg = worker[v].msg
                    /\ worker'[v].at = worker[v].at
<1>1. CASE worker'[v] = worker[v] \/ worker'[v] = Idle
  BY <1>1 DEF Idle
<1>2. ASSUME NEW i \in Jobs, v \in Exposed(i), worker'[v] = Overtaken(v)
      PROVE  Stays \/ worker'[v].at = 1
  <2>1. worker[v] \in Invocation
    BY DEF TInv, WorkersOK
  <2>2. worker[v].pc # "idle"
    BY <1>2 DEF Exposed
  <2> QED BY <1>2, <2>1, <2>2 DEF Overtaken, Idle, Invocation
<1>3. CASE Receive(v) \/ Claim(v) \/ Release(v) \/ Crash(v)
  BY <1>1, <1>3, DeliveryLeaves
<1>4. CASE NextStep(v) /\ (Begin(v) \/ RecordCheckpoint(v))
  <2>1. worker[v].pc # "idle"
    BY <1>4 DEF Begin, RecordCheckpoint
  <2>2. j \in Jobs /\ StepOf(v) \in StepKeys /\ StepOK
    BY <2>1, BusyWorker DEF TInv
  <2>3. step'[j][StepOf(v)].state = "SUCCEEDED"
    <3>1. CASE Begin(v)
      <4>1. worker'[v].pc = "boundary"
        BY <1>4, OwnStep
      <4>2. ASSUME NEW why, Breaks(v, "fail", why) PROVE FALSE
        BY <4>1, <4>2, OwnStep
      <4>3. ~Goes(v, "execute") /\ ~Ends(v, "release")
        BY <4>1, OwnStep
      <4> QED BY <3>1, <4>2, <4>3 DEF Begin
    <3>2. CASE RecordCheckpoint(v)
      <4>1. step[j][StepOf(v)].state = "RUNNING" /\ step[j][StepOf(v)] \in StepRow
        BY <2>2, <3>2 DEF RecordCheckpoint, StartedIsRunning, CarryingOut, StepOK
      <4>2. step' = [step EXCEPT ![j][StepOf(v)].state = "SUCCEEDED"]
        BY <3>2, <4>1 DEF RecordCheckpoint, Checkpointed
      <4> QED BY <2>2, <4>1, <4>2 DEF StepOK, StepRow
    <3> QED BY <1>4, <3>1, <3>2
  <2> QED BY <1>4, <2>1, <2>3, OwnStep, OwnPlace
<1>5. CASE Begin(v) /\ ~NextStep(v)
  <2>1. \E pc : Goes(v, pc) \/ Ends(v, pc) \/ (\E why : Breaks(v, pc, why))
    BY <1>5 DEF Begin
  <2> QED BY <1>5, <2>1, OwnStep, OwnPlace DEF Begin
<1>6. CASE /\ Work(v)
           /\ ~(Claim(v) \/ Release(v) \/ Begin(v) \/ RecordCheckpoint(v))
  <2> USE DEF Work, DispatchRow, StartRow, SettleRow, PromoteRow, Move, ReadExpiry,
              Expire, Resume, RecordAnswer, Boundary, Execute, Clarify, RecordFailure,
              Requeue, Fail, Stop
  <2>1. worker[v].pc # "idle"
    BY <1>6
  <2>2. UNCHANGED worker
        \/ \E pc : Goes(v, pc) \/ Ends(v, pc) \/ (\E why : Breaks(v, pc, why))
    BY <1>6
  <2> QED BY <2>1, <2>2, OwnStep, OwnPlace
<1>7. RecordCheckpoint(v) => NextStep(v)
  BY DEF RecordCheckpoint
<1> QED BY <1>1, <1>2, <1>3, <1>4, <1>5, <1>6, <1>7, WhoMoves

\* Every step of the system keeps the results behind a worker's place.
LEMMA NextPlaces ==
    ASSUME TInv, StartedIsRunning, PlacesBehind, [Next]_vars
    PROVE  PlacesBehind'
<1> SUFFICES ASSUME NEW v \in Workers, worker'[v].pc # "idle",
                    NEW h \in DOMAIN Plan(worker'[v].msg.job), h < worker'[v].at
             PROVE  step'[worker'[v].msg.job][Plan(worker'[v].msg.job)[h]].state
                        = "SUCCEEDED"
  BY DEF PlacesBehind, Plan
<1> DEFINE j == worker[v].msg.job
<1>1. worker'[v].msg.job \in Jobs
  <2>1. InvocationOK(worker'[v]) /\ worker'[v] \in Invocation
    BY NextTInv DEF TInv, WorkersOK, InvocationOK, Plan
  <2> QED BY <2>1 DEF InvocationOK, Message
<1>2. h \in 1 .. 4 /\ Plan(worker'[v].msg.job)[h] \in StepKeys
  BY <1>1, PlanFacts
<1>3. worker'[v].at # 1
  BY <1>2
<1>4. /\ worker[v].pc # "idle" /\ worker'[v].msg = worker[v].msg
      /\ \/ worker'[v].at = worker[v].at
         \/ /\ worker'[v].at = worker[v].at + 1
            /\ step'[worker[v].msg.job][StepOf(v)].state = "SUCCEEDED"
  BY <1>3, PlaceMoves
<1>5. CASE h < worker[v].at
  <2>1. step[j][Plan(j)[h]].state = "SUCCEEDED"
    BY <1>4, <1>5 DEF PlacesBehind
  <2> QED BY <1>1, <1>2, <1>4, <2>1, ResultsStayLemma DEF ResultsStay
<1>6. CASE ~(h < worker[v].at)
  <2>1. worker[v].at \in 1 .. 4
    BY <1>4, BusyWorker DEF Invocation
  <2>2. h = worker[v].at /\ step'[j][StepOf(v)].state = "SUCCEEDED"
    BY <1>2, <1>4, <1>6, <2>1
  <2> QED BY <1>4, <2>2 DEF StepOf
<1> QED BY <1>5, <1>6

\* Only the start of a step counts an attempt.
Counts(w, j, s) ==
    /\ Begin(w) /\ Goes(w, "execute")
    /\ worker[w].msg.job = j /\ StepOf(w) = s /\ job[j].state = "RUNNING"
    /\ step[j][s].state # "SUCCEEDED"
    /\ step'[j][s] = [state |-> "RUNNING", attempts |-> step[j][s].attempts + 1]

\* An attempt is counted by the worker that begins it, and by nothing else.
LEMMA AttemptsRise ==
    ASSUME TInv, [Next]_vars, NEW j \in Jobs, NEW s \in StepKeys,
           step'[j][s].attempts # step[j][s].attempts
    PROVE  \E w \in Workers : Counts(w, j, s)
<1>1. StepOK /\ step[j][s] \in StepRow
  BY DEF TInv, StepOK
<1>2. ASSUME NEW i \in Jobs, NEW r \in StepKeys, NEW status,
             step' = [step EXCEPT ![i][r].state = IF @ = "RUNNING" THEN status ELSE @]
      PROVE  step'[j][s].attempts = step[j][s].attempts
  <2> DEFINE st == IF step[i][r].state = "RUNNING" THEN status ELSE step[i][r].state
  <2>1. step' = [step EXCEPT ![i][r].state = st]
    BY <1>2
  <2> HIDE DEF st
  <2> QED BY <1>1, <2>1 DEF StepOK, StepRow
<1>3. ASSUME NEW w \in Workers, RecordAnswer(w) \/ RecordCheckpoint(w) \/ RecordFailure(w)
      PROVE  step'[j][s].attempts = step[j][s].attempts
  <2>1. worker[w].msg.job \in Jobs /\ StepOf(w) \in StepKeys /\ "dark.clarify" \in StepKeys
    BY <1>3, BusyWorker DEF RecordAnswer, RecordCheckpoint, RecordFailure, StepKeys
  <2> QED BY <1>2, <1>3, <2>1
             DEF RecordAnswer, RecordCheckpoint, RecordFailure, Checkpointed
<1>4. ASSUME NEW w \in Workers, Expire(w) \/ Clarify(w) \/ Fail(w) \/ Stop(w)
      PROVE  UNCHANGED step
  BY <1>4 DEF Expire, Clarify, Fail, Stop
<1>5. ASSUME NEW i \in Jobs, Cancel(i) \/ Answer(i) \/ QuestionFallsDue(i)
      PROVE  UNCHANGED step
  BY <1>5 DEF Cancel, Answer, QuestionFallsDue
<1>6. UNCHANGED vars => UNCHANGED step
  BY DEF vars
<1>7. PICK w \in Workers : Begin(w)
  BY <1>3, <1>4, <1>5, <1>6, NoWriteElsewhere DEF Next, Work
<1>8. worker[w].msg.job \in Jobs /\ StepOf(w) \in StepKeys
  BY <1>7, BusyWorker DEF Begin
<1>9. Goes(w, "execute")
  BY <1>7, WhatIsWritten
<1>10. /\ step[worker[w].msg.job][StepOf(w)].state # "SUCCEEDED"
       /\ job[worker[w].msg.job].state = "RUNNING"
       /\ step' = [step EXCEPT ![worker[w].msg.job][StepOf(w)] =
             [state |-> "RUNNING",
              attempts |-> step[worker[w].msg.job][StepOf(w)].attempts + 1]]
  BY <1>7, <1>9, WhatIsWritten
<1>11. worker[w].msg.job = j /\ StepOf(w) = s
  BY <1>1, <1>8, <1>10 DEF StepOK
<1> QED BY <1>1, <1>7, <1>9, <1>10, <1>11 DEF StepOK, Counts

\* Every step of the system keeps the steps of a plan in order.
LEMMA NextInOrder ==
    ASSUME TInv, PlacesBehind, StepsInOrder, [Next]_vars
    PROVE  StepsInOrder'
<1> SUFFICES ASSUME NEW j \in Jobs, NEW h \in DOMAIN Plan(j), NEW i \in DOMAIN Plan(j),
                    h < i, step'[j][Plan(j)[i]].attempts > 0
             PROVE  step'[j][Plan(j)[h]].state = "SUCCEEDED"
  BY DEF StepsInOrder, Plan
<1>1. Plan(j)[h] \in StepKeys /\ Plan(j)[i] \in StepKeys
  BY PlanFacts
<1>2. step[j][Plan(j)[h]].state = "SUCCEEDED"
  <2>1. CASE step'[j][Plan(j)[i]].attempts = step[j][Plan(j)[i]].attempts
    BY <2>1 DEF StepsInOrder
  <2>2. CASE step'[j][Plan(j)[i]].attempts # step[j][Plan(j)[i]].attempts
    <3> DEFINE s == Plan(j)[i]
    <3>1. s \in StepKeys /\ step'[j][s].attempts # step[j][s].attempts
      BY <1>1, <2>2
    <3> HIDE DEF s
    <3>2. PICK w \in Workers : Counts(w, j, s)
      BY <3>1, AttemptsRise
    <3>3. worker[w].at = i
      BY <3>2, BusyWorker, PlanIsInjective DEF Counts, Begin, StepOf, s
    <3> QED BY <3>2, <3>3 DEF Counts, Begin, PlacesBehind
  <2> QED BY <2>1, <2>2
<1> QED BY <1>1, <1>2, ResultsStayLemma DEF ResultsStay

\* The invariant of the steps' order holds in every reachable state.
LEMMA SInvAlways == Spec => []SInv
<1>1. Init => SInv
  BY PlanFacts DEF Init, SInv, PlacesBehind, StartedIsRunning, CarryingOut, StepsInOrder,
                   Idle
<1>2. TInv /\ OneDriver /\ RecordsOfRunningWork /\ SInv /\ [Next]_vars => SInv'
  BY NextStarted, NextPlaces, NextInOrder DEF SInv
<1> QED BY <1>1, <1>2, TInvAlways, ExecutionOneDriver, RecordsAlways, PTL DEF Spec

\* When a step is started, every earlier step of the plan has its checkpoint, whichever
\* worker recorded it, however often the job changed hands in between.
THEOREM ExecutionStepsInOrder == Spec => []StepsInOrder
<1>1. SInv => StepsInOrder
  BY DEF SInv
<1> QED BY <1>1, SInvAlways, PTL

-----------------------------------------------------------------------------
(* RepeatsAreExplained: what stands for a repeat that no failure paid for.  *)

Failures == spent.faults + spent.outages
\* A reply is being made the result of the question's step.
Taking(j) == \E w \in Workers : worker[w].msg.job = j /\ worker[w].pc = "record"
WithPerson(j) == job[j].state = "WAITING_FOR_USER" \/ Taking(j)
\* The job has ended, or will not run a step again before it ends.
Over(j) == Terminal(job[j]) \/ job[j].cancel # None
\* An attempt that is under way, or whose failure is about to end its job.
Carries(w, j, s) ==
    /\ worker[w].msg.job = j
    /\ \/ worker[w].pc = "fail" /\ Live(job[j])
       \/ /\ StepOf(w) = s
          /\ \/ worker[w].pc \in {"execute", "checkpoint"}
             \/ worker[w].pc = "failstep" /\ worker[w].why # None
Excused(j, s) ==
    \/ step[j][s].state = "SUCCEEDED"
    \/ Over(j)
    \/ \E w \in Workers : Carries(w, j, s)
    \/ s = "dark.clarify" /\ WithPerson(j)

\* A question a person has belongs to a step that was started.
QuestionStarted == \A j \in Jobs :
    WithPerson(j) => step[j]["dark.clarify"].state = "RUNNING"
AttemptsPaid == \A j \in Jobs, s \in StepKeys :
    /\ step[j][s].attempts <= 1 + Failures
    /\ step[j][s].attempts > Failures => Excused(j, s)
\* A worker that is about to start a step may count another attempt.
NextAttemptPaid == \A w \in Workers : worker[w].pc = "begin" =>
    \/ step[worker[w].msg.job][StepOf(w)].state = "SUCCEEDED"
    \/ step[worker[w].msg.job][StepOf(w)].attempts <= Failures
    \/ Terminal(Row(w))
Asked(j) == {k \in Waits : wait[j][k] # "NONE"}
QuestionsPaid == \A j \in Jobs :
    /\ Cardinality(Asked(j)) <= 1 + spent.faults
    /\ Cardinality(Asked(j)) > spent.faults =>
          \/ step[j]["dark.clarify"].state = "SUCCEEDED"
          \/ Terminal(job[j])
          \/ WithPerson(j)

-----------------------------------------------------------------------------
(* How a job's row leaves what it stood for.                                *)

\* A job that has ended, or is to be cancelled, stays so.
LEMMA OverStays ==
    ASSUME TInv, [Next]_vars, NEW j \in Jobs
    PROVE  /\ Terminal(job[j]) => Terminal(job'[j])
           /\ Over(j) => Over(j)'
<1>1. CASE UNCHANGED job
  BY <1>1 DEF Over, Terminal
<1>2. ASSUME NEW i \in Jobs, NEW b, SoundMove(job[i], b), Becomes(i, b)
      PROVE  /\ Terminal(job[j]) => Terminal(job'[j])
             /\ Over(j) => Over(j)'
  <2>1. job'[j] = job[j] \/ (job'[j] = b /\ SoundMove(job[j], b))
    BY <1>2 DEF TInv, JobOK, Becomes
  <2> QED BY <2>1 DEF SoundMove, Over, Terminal
<1> QED BY <1>1, <1>2, StepMovesOneRow DEF RowMoves

\* The ways a job's state moves, and who moves it when a person is concerned.
StateMoves(j) ==
    \/ job'[j].state = job[j].state
    \/ Terminal(job'[j])
    \/ job[j].state = "ABSENT" /\ job'[j].state = "ACCEPTED"
    \/ job[j].state \in {"ACCEPTED", "QUEUED"} /\ job'[j].state \in {"QUEUED", "RUNNING"}
    \/ /\ job[j].state = "RUNNING" /\ job'[j].state = "WAITING_FOR_USER"
       /\ \E w \in Workers : Clarify(w) /\ worker[w].msg.job = j
    \/ /\ job[j].state = "WAITING_FOR_USER" /\ job'[j].state = "RUNNING"
       /\ \E w \in Workers : Resume(w) /\ Goes(w, "record") /\ worker[w].msg.job = j

\* Every step of the system moves a job's state in one of these ways.
LEMMA StatesMove ==
    ASSUME TInv, [Next]_vars, NEW j \in Jobs
    PROVE  StateMoves(j)
<1>1. job \in [Jobs -> JobRecord] /\ job[j] \in JobRecord
  BY DEF TInv, JobOK
<1>2. CASE UNCHANGED job
  BY <1>2 DEF StateMoves
<1>3. ASSUME NEW i \in Jobs, NEW b, Becomes(i, b)
      PROVE  job'[j].state = job[j].state \/ (i = j /\ job'[j] = b)
  BY <1>1, <1>3 DEF Becomes
<1> USE DEF StateMoves, Terminal, TerminalStates
<1>4. ASSUME NEW i \in Jobs, Submit(i) PROVE StateMoves(j)
  <2>1. PICK cls : CanAccept(job[i], i, cls) /\ Becomes(i, AfterAccept(job[i], cls))
    BY <1>4 DEF Submit
  <2> QED BY <1>1, <1>3, <2>1, EventsReach DEF CanAccept
<1>5. ASSUME NEW i \in Jobs, NEW why, CanCancel(job[i]), Becomes(i, AfterCancel(job[i], why))
      PROVE  StateMoves(j)
  BY <1>1, <1>3, <1>5, EventsReach
<1>6. ASSUME NEW i \in Jobs, Cancel(i) PROVE StateMoves(j)
  BY <1>5, <1>6 DEF Cancel
<1>7. ASSUME NEW w \in Workers,
             DispatchRow(w) \/ StartRow(w) \/ SettleRow(w) \/ PromoteRow(w)
      PROVE  StateMoves(j)
  <2> DEFINE i == worker[w].msg.job
  <2>1. i \in Jobs
    BY <1>7, BusyWorker DEF DispatchRow, StartRow, SettleRow, PromoteRow, Move
  <2>2. \/ UNCHANGED job
        \/ CanDispatch(job[i]) /\ Becomes(i, AfterDispatch(job[i]))
        \/ CanStart(job[i]) /\ Becomes(i, AfterStart(job[i]))
        \/ Becomes(i, AfterSettle(job[i])) \/ Becomes(i, AfterPromote(job[i]))
    BY <1>7 DEF DispatchRow, StartRow, SettleRow, PromoteRow, Move, Row
  <2> QED BY <1>1, <1>2, <1>3, <2>1, <2>2, EventsReach DEF CanDispatch, CanStart
<1>8. ASSUME NEW w \in Workers, Expire(w) \/ Fail(w) \/ Stop(w)
      PROVE  StateMoves(j)
  <2> DEFINE i == worker[w].msg.job
  <2>1. i \in Jobs
    BY <1>8, BusyWorker DEF Expire, Fail, Stop
  <2>2. \/ UNCHANGED job
        \/ Becomes(i, AfterExpire(job[i]))
        \/ \E why : \/ Becomes(i, AfterFail(job[i], why))
                    \/ CanCancel(job[i]) /\ Becomes(i, AfterCancel(job[i], why))
    BY <1>8 DEF Expire, Fail, Stop
  <2> QED BY <1>1, <1>2, <1>3, <1>5, <2>1, <2>2, EventsReach
<1>9. ASSUME NEW w \in Workers, Resume(w)
      PROVE  StateMoves(j)
  <2> DEFINE i == worker[w].msg.job
  <2>1. i \in Jobs
    BY <1>9, BusyWorker DEF Resume
  <2>2. \/ UNCHANGED job
        \/ /\ job[i].state = "WAITING_FOR_USER" /\ Goes(w, "record")
           /\ Becomes(i, AfterResume(job[i]))
    BY <1>9 DEF Resume, CanResume
  <2> QED BY <1>1, <1>2, <1>3, <1>9, <2>1, <2>2, EventsReach
<1>10. ASSUME NEW w \in Workers, Clarify(w)
       PROVE  StateMoves(j)
  <2> DEFINE i == worker[w].msg.job
  <2>1. i \in Jobs
    BY <1>10, BusyWorker DEF Clarify
  <2>2. \/ UNCHANGED job
        \/ Becomes(i, AfterPromote(job[i]))
        \/ \E k : job[i].state = "RUNNING" /\ Becomes(i, AfterAsk(job[i], k))
    BY <1>10 DEF Clarify, CanAsk
  <2> QED BY <1>1, <1>2, <1>3, <1>10, <2>1, <2>2, EventsReach
<1>11. UNCHANGED vars => UNCHANGED job
  BY DEF vars
<1> QED BY <1>2, <1>4, <1>6, <1>7, <1>8, <1>9, <1>10, <1>11, RowsElsewhere DEF Next, Work

\* An unfinished job stays unfinished or ends.
LEMMA LiveEnds ==
    ASSUME TInv, [Next]_vars, NEW j \in Jobs, Live(job[j])
    PROVE  Live(job'[j]) \/ Terminal(job'[j])
BY StatesMove DEF StateMoves, Live, LiveStates, IdleStates

\* A waiting job goes on by a reply, whose worker then records it, or it ends.
LEMMA WaitingLeaves ==
    ASSUME TInv, [Next]_vars, NEW j \in Jobs, job[j].state = "WAITING_FOR_USER"
    PROVE  job'[j].state = "WAITING_FOR_USER" \/ Terminal(job'[j]) \/ Taking(j)'
BY StatesMove, OwnStep DEF StateMoves, Taking

\* A question is asked by the step of the plan, of a running job.
Asks(w, j, k) ==
    /\ Clarify(w) /\ worker[w].msg.job = j /\ CanAsk(job[j], j)
    /\ k \in Waits /\ wait[j][k] = "NONE"
    /\ wait' = [wait EXCEPT ![j][k] = "OPEN"]
    /\ job'[j].state = "WAITING_FOR_USER"

\* A worker that asks a person opens one question of its job, or none.
LEMMA WhatClarifyAsks ==
    ASSUME TInv, NEW w \in Workers, Clarify(w)
    PROVE  UNCHANGED wait \/ \E k \in Waits : Asks(w, worker[w].msg.job, k)
<1> DEFINE j == worker[w].msg.job
<1>1. j \in Jobs /\ job \in [Jobs -> JobRecord] /\ job[j] \in JobRecord
  BY BusyWorker DEF Clarify, TInv, JobOK
<1>2. ASSUME NEW k \in Waits, Becomes(j, AfterAsk(job[j], k))
      PROVE  job'[j].state = "WAITING_FOR_USER"
  BY <1>1, <1>2, EventsReach DEF Becomes
<1> QED BY <1>2 DEF Clarify, Asks

-----------------------------------------------------------------------------
(* What failures pay for.                                                   *)

\* What was spent is never given back, and a failure that is counted writes neither a
\* step nor, when it is a fault, a question.
LEMMA FailuresOnlyGrow ==
    ASSUME TInv, [Next]_vars
    PROVE  /\ spent.faults \in Nat /\ spent.outages \in Nat
           /\ spent'.faults \in Nat /\ spent'.outages \in Nat
           /\ spent.faults <= spent'.faults /\ spent.outages <= spent'.outages
           /\ Failures' > Failures => UNCHANGED step
           /\ spent'.faults > spent.faults => UNCHANGED wait
<1>1. SpentOK /\ MaxFaults \in Nat /\ MaxOutages \in Nat
  BY BoundsAssumption DEF TInv
<1>2. spent.faults \in Nat /\ spent.outages \in Nat
  BY <1>1 DEF SpentOK
<1> DEFINE Spends == \/ UNCHANGED spent \/ Copy
                     \/ Fault /\ UNCHANGED <<step, wait>>
                     \/ Outage /\ UNCHANGED step
<1>3. Spends
  <2>1. ASSUME NEW j \in Jobs, \/ Submit(j) \/ Cancel(j) \/ Answer(j)
                               \/ QuestionFallsDue(j) \/ LeaseLapses(j)
                               \/ SweepTimer(j) \/ SweepLease(j)
        PROVE  Spends
    BY <2>1 DEF Submit, Cancel, Answer, QuestionFallsDue, LeaseLapses, SweepTimer,
                SweepLease, Wakes
  <2>2. ASSUME NEW i \in DOMAIN commands, Ring(i) \/ SweepCommand(i) \/ DispatcherDies(i)
        PROVE  Spends
    BY <2>2, NoWriteElsewhere DEF Ring, SweepCommand, DispatcherDies
  <2>3. ASSUME NEW w \in Workers, \/ Receive(w) \/ Claim(w) \/ Requeue(w) \/ Release(w)
                                  \/ Crash(w) \/ Execute(w) \/ Resume(w) \/ Begin(w)
        PROVE  Spends
    BY <2>3 DEF Receive, Claim, Requeue, Release, Crash, Execute, Resume, Begin
  <2>4. ASSUME NEW w \in Workers,
               \/ DispatchRow(w) \/ StartRow(w) \/ SettleRow(w) \/ PromoteRow(w)
               \/ ReadExpiry(w) \/ Expire(w) \/ RecordAnswer(w) \/ Boundary(w)
               \/ Clarify(w) \/ RecordCheckpoint(w) \/ RecordFailure(w) \/ Fail(w)
               \/ Stop(w)
        PROVE  UNCHANGED spent
    BY <2>4 DEF DispatchRow, StartRow, SettleRow, PromoteRow, Move, ReadExpiry, Expire,
                RecordAnswer, Boundary, Clarify, RecordCheckpoint, RecordFailure, Fail,
                Stop
  <2>5. UNCHANGED vars \/ MessageReappears => UNCHANGED spent
    BY DEF vars, MessageReappears
  <2> QED BY <2>1, <2>2, <2>3, <2>4, <2>5 DEF Next, Work
<1>4. CASE UNCHANGED spent
  BY <1>2, <1>4 DEF Failures
<1>5. CASE Copy
  BY <1>1, <1>2, <1>5 DEF Copy, SpentOK, Failures
<1>6. CASE Fault /\ UNCHANGED <<step, wait>>
  BY <1>1, <1>2, <1>6 DEF Fault, SpentOK, Failures
<1>7. CASE Outage /\ UNCHANGED step
  BY <1>1, <1>2, <1>7 DEF Outage, SpentOK, Failures
<1> QED BY <1>3, <1>4, <1>5, <1>6, <1>7

\* Failures are only ever added, one or more at a time, and by steps that write no row.
LEMMA PaidByFailures ==
    ASSUME TInv, [Next]_vars
    PROVE  /\ Failures \in Nat /\ Failures' \in Nat /\ Failures <= Failures'
           /\ Failures' # Failures => Failures' >= 1 + Failures /\ UNCHANGED step
           /\ Failures' = Failures => spent'.faults = spent.faults
BY FailuresOnlyGrow DEF Failures

\* A fault or an outage that a worker meets is counted.
LEMMA FailureCounts ==
    ASSUME TInv, [Next]_vars, Fault \/ Outage
    PROVE  Failures' # Failures /\ (Fault => spent'.faults > spent.faults)
BY FailuresOnlyGrow DEF Fault, Outage, Failures, TInv, SpentOK

\* A step that fails for a reason stays at its place, with that reason.
LEMMA BrokenStep ==
    ASSUME TInv, NEW w \in Workers, NEW why \in FailureReasons,
           Breaks(w, "failstep", why)
    PROVE  /\ worker'[w].pc = "failstep" /\ worker'[w].why # None
           /\ worker'[w].msg = worker[w].msg /\ worker'[w].at = worker[w].at
<1>1. worker'[w].why = why /\ worker'[w].at = worker[w].at
  BY OwnPlace
<1>2. worker'[w].pc = "failstep" /\ worker'[w].msg = worker[w].msg
  BY OwnStep
<1> QED BY <1>1, <1>2 DEF FailureReasons, None

\* An attempt that is under way goes on, is recorded, gives the question to a person,
\* or fails for a reason that ends its job, or for a failure that pays for the next.
LEMMA CarriedStays ==
    ASSUME TInv, RecordsOfRunningWork, StartedIsRunning, [Next]_vars,
           NEW j \in Jobs, NEW s \in StepKeys, NEW w \in Workers, Carries(w, j, s),
           Failures' = Failures
    PROVE  Excused(j, s)'
<1> DEFINE Same == StepOf(w)' = StepOf(w) /\ worker'[w].msg.job = j
<1>0. /\ worker[w].pc \in {"fail", "execute", "checkpoint", "failstep"}
      /\ worker[w].pc # "fail" => StepOf(w) = s
      /\ worker[w].msg.job = j
  BY DEF Carries
<1>1. job[j].state = "RUNNING" \/ worker[w].pc = "fail"
  BY <1>0 DEF RecordsOfRunningWork, Recording, Row
<1>2. Live(job[j])
  BY <1>1 DEF Carries, Live, LiveStates
<1>3. Live(job'[j]) \/ Excused(j, s)'
  BY <1>2, LiveEnds DEF Excused, Over, Terminal
<1>4. CASE worker'[w] = worker[w]
  <2>1. StepOf(w)' = StepOf(w)
    BY <1>4 DEF StepOf, Plan
  <2> QED BY <1>3, <1>4, <2>1 DEF Carries, Excused, Live
<1>5. ASSUME NEW i \in Jobs, Cancel(i), w \in Exposed(i)
      PROVE  Over(j)'
  <2>1. i = j
    BY <1>0, <1>5 DEF Exposed
  <2>2. CanCancel(job[j]) /\ job'[j] = AfterCancel(job[j], "REQUESTED_BY_PRINCIPAL")
    BY <1>5, <2>1 DEF Cancel, Becomes, TInv, JobOK
  <2>3. job'[j].cancel # None
    BY <2>2 DEF AfterCancel, TInv, JobOK, JobRecord, None
  <2> QED BY <2>3 DEF Over
<1>6. CASE Crash(w) \/ Receive(w)
  BY <1>0, <1>6, FailureCounts DEF Crash, Receive
<1>7. CASE Fail(w)
  <2>1. job'[j] = AfterFail(job[j], worker[w].why) /\ job[j] \in JobRecord
    BY <1>0, <1>2, <1>7 DEF Fail, CanFail, Becomes, TInv, JobOK
  <2> QED BY <2>1, EventsReach DEF Excused, Over, Terminal, TerminalStates
<1>8. CASE Execute(w)
  <2>1. \/ Goes(w, "checkpoint")
        \/ \E why \in FailureReasons : Breaks(w, "failstep", why)
    BY <1>8, FailureCounts, RefusalsAssumption DEF Execute, FailureReasons
  <2>2. \/ worker'[w].pc = "checkpoint"
        \/ worker'[w].pc = "failstep" /\ worker'[w].why # None
    BY <2>1, OwnStep, BrokenStep
  <2>3. Same
    BY <1>0, <2>1, OwnStep, OwnPlace DEF StepOf, Plan
  <2>4. StepOf(w) = s
    BY <1>0, <1>8 DEF Execute
  <2> QED BY <2>2, <2>3, <2>4 DEF Carries, Excused
<1>9. CASE Clarify(w)
  <2>1. StepOf(w) = s /\ s = "dark.clarify"
    BY <1>0, <1>9 DEF Clarify
  <2>2. \/ UNCHANGED worker
        \/ job'[j].state = "WAITING_FOR_USER"
        \/ Breaks(w, "failstep", "INTERNAL")
    BY <1>0, <1>9, EventsReach DEF Clarify, Becomes, TInv, JobOK
  <2>3. CASE Breaks(w, "failstep", "INTERNAL")
    <3>1. /\ worker'[w].pc = "failstep" /\ worker'[w].why # None
          /\ worker'[w].msg = worker[w].msg /\ worker'[w].at = worker[w].at
      BY <2>3, BrokenStep DEF FailureReasons
    <3>2. Same
      BY <1>0, <3>1 DEF StepOf, Plan
    <3> QED BY <2>1, <3>1, <3>2 DEF Carries, Excused
  <2> QED BY <1>4, <2>1, <2>2, <2>3 DEF Excused, WithPerson
<1>10. CASE RecordCheckpoint(w)
  <2>1. StepOf(w) = s /\ step[j][s].state = "RUNNING" /\ Checkpointed(j, s)
    BY <1>0, <1>10 DEF RecordCheckpoint, StartedIsRunning, CarryingOut
  <2>2. step'[j][s].state = "SUCCEEDED"
    BY <2>1 DEF Checkpointed, TInv, StepOK, StepRow
  <2> QED BY <2>2 DEF Excused
<1>11. CASE RecordFailure(w)
  <2>1. worker[w].why # None /\ Goes(w, "fail")
    BY <1>11 DEF Carries, RecordFailure
  <2>2. worker'[w].pc = "fail" /\ worker'[w].msg.job = j
    BY <1>0, <2>1, OwnStep
  <2> QED BY <1>3, <2>2 DEF Carries, Excused, Live
<1>12. ~(worker[w].pc = "claim")
  BY <1>0
<1>13. Work(w) => Fail(w) \/ Execute(w) \/ Clarify(w) \/ RecordCheckpoint(w)
                  \/ RecordFailure(w)
  BY <1>0 DEF Work, Claim, DispatchRow, StartRow, SettleRow, PromoteRow, Move,
              ReadExpiry, Expire, Resume, RecordAnswer, Boundary, Begin, Requeue, Stop,
              Release
<1> QED BY <1>4, <1>5, <1>6, <1>7, <1>8, <1>9, <1>10, <1>11, <1>12, <1>13, WhoMoves
        DEF Excused

\* A question that a person has is answered and made a result, or its job ends, or a
\* fault is counted.
LEMMA PersonStays ==
    ASSUME TInv, QuestionStarted, [Next]_vars, NEW j \in Jobs, WithPerson(j)
    PROVE  \/ WithPerson(j)' \/ Terminal(job'[j])
           \/ step'[j]["dark.clarify"].state = "SUCCEEDED"
           \/ spent'.faults > spent.faults
<1>1. CASE job[j].state = "WAITING_FOR_USER"
  BY <1>1, WaitingLeaves DEF WithPerson
<1>2. ASSUME NEW w \in Workers, worker[w].msg.job = j, worker[w].pc = "record"
      PROVE  \/ Taking(j)' \/ step'[j]["dark.clarify"].state = "SUCCEEDED"
             \/ spent'.faults > spent.faults
  <2>1. CASE worker'[w] = worker[w]
    BY <1>2, <2>1 DEF Taking
  <2>2. CASE Crash(w)
    BY <2>2, FailureCounts DEF Crash
  <2>3. CASE RecordAnswer(w)
    <3>1. step[j]["dark.clarify"].state = "RUNNING" /\ "dark.clarify" \in StepKeys
      BY <1>2 DEF QuestionStarted, WithPerson, Taking, StepKeys
    <3> QED BY <1>2, <2>3, <3>1 DEF RecordAnswer, Checkpointed, TInv, StepOK, StepRow
  <2>4. ~Receive(w) /\ \A i : w \notin Exposed(i)
    BY <1>2 DEF Receive, Exposed
  <2>5. Work(w) => RecordAnswer(w)
    BY <1>2 DEF Work, Claim, DispatchRow, StartRow, SettleRow, PromoteRow, Move,
                ReadExpiry, Expire, Resume, Boundary, Begin, Execute, Clarify,
                RecordCheckpoint, RecordFailure, Requeue, Fail, Stop, Release
  <2> QED BY <1>2, <2>1, <2>2, <2>3, <2>4, <2>5, WhoMoves
<1> QED BY <1>1, <1>2 DEF WithPerson, Taking

\* The places "begin" and "record" are reached from a boundary and by a reply.
LEMMA WhoReaches ==
    ASSUME TInv, [Next]_vars, NEW v \in Workers
    PROVE  /\ worker'[v].pc = "begin" =>
                 worker'[v] = worker[v] \/ (Boundary(v) /\ Goes(v, "begin"))
           /\ worker'[v].pc = "record" =>
                 worker'[v] = worker[v] \/ (Resume(v) /\ Goes(v, "record"))
<1> SUFFICES ASSUME worker'[v].pc \in {"begin", "record"}, worker'[v] # worker[v]
             PROVE  \/ Boundary(v) /\ Goes(v, "begin")
                    \/ Resume(v) /\ Goes(v, "record") /\ worker'[v].pc = "record"
  BY OwnStep
<1>1. worker'[v] # Idle
  BY DEF Idle
<1>2. \A i : ~(v \in Exposed(i) /\ worker'[v] = Overtaken(v))
  <2> SUFFICES ASSUME NEW i, v \in Exposed(i), worker'[v] = Overtaken(v) PROVE FALSE
    OBVIOUS
  <2>1. worker[v] \in Invocation /\ worker[v].pc \notin {"begin", "record"}
    BY DEF TInv, WorkersOK, Exposed
  <2> QED BY <2>1 DEF Overtaken, Idle, Invocation
<1>3. ~(Receive(v) \/ Claim(v) \/ Release(v) \/ Crash(v))
  BY DeliveryLeaves DEF EntryPlaces
<1>4. CASE Boundary(v)
  <2>1. \/ Goes(v, "begin")
        \/ \E pc \in {"release", "settle", "stop", "promote", "fail"} :
               Goes(v, pc) \/ Ends(v, pc) \/ (\E why : Breaks(v, pc, why))
    BY <1>4 DEF Boundary
  <2> QED BY <1>4, <2>1, OwnStep
<1>5. CASE Resume(v)
  <2>1. \/ Goes(v, "record")
        \/ \E pc \in {"release", "giveback", "fail"} :
               Ends(v, pc) \/ (\E why : Breaks(v, pc, why))
    BY <1>5 DEF Resume
  <2> QED BY <1>5, <2>1, OwnStep
<1>6. CASE /\ Work(v)
           /\ ~(Claim(v) \/ Release(v) \/ Boundary(v) \/ Resume(v))
  <2>1. \/ UNCHANGED worker \/ NextStep(v)
        \/ \E pc \in Places \ {"begin", "record"} :
               Goes(v, pc) \/ Ends(v, pc) \/ (\E why : Breaks(v, pc, why))
    BY <1>6 DEF Work, DispatchRow, StartRow, SettleRow, PromoteRow, Move, ReadExpiry,
                Expire, RecordAnswer, Begin, Execute, Clarify, RecordCheckpoint,
                RecordFailure, Requeue, Fail, Stop, Places
  <2> QED BY <2>1, OwnStep
<1> QED BY <1>1, <1>2, <1>3, <1>4, <1>5, <1>6, WhoMoves

\* Two workers that may write a running job's row are one.
LEMMA OneAtWork ==
    ASSUME TInv, OneDriver, NEW v \in Workers, NEW w \in Workers,
           Driving(v), Driving(w), worker[w].msg.job = worker[v].msg.job,
           ~Terminal(Row(v))
    PROVE  w = v
BY DEF OneDriver, Row

\* A step that may be started again has been paid for: nothing that excuses an unpaid
\* attempt is left when its only driver comes to a boundary and no request stops it.
LEMMA NextNextAttempt ==
    ASSUME TInv, OneDriver, RecordsOfRunningWork, AttemptsPaid, NextAttemptPaid,
           [Next]_vars
    PROVE  NextAttemptPaid'
<1> SUFFICES ASSUME NEW v \in Workers, worker'[v].pc = "begin"
             PROVE  \/ step'[worker'[v].msg.job][StepOf(v)'].state = "SUCCEEDED"
                    \/ step'[worker'[v].msg.job][StepOf(v)'].attempts <= Failures'
                    \/ Terminal(job'[worker'[v].msg.job])
  BY DEF NextAttemptPaid, Terminal, Row
<1> DEFINE j == worker[v].msg.job
           s == StepOf(v)
<1>1. /\ worker[v].pc \in {"begin", "boundary"} /\ worker'[v].msg = worker[v].msg
      /\ StepOf(v)' = s
      /\ worker[v].pc = "begin" \/ (Boundary(v) /\ Goes(v, "begin"))
  BY WhoReaches, OwnStep, OwnPlace DEF StepOf, Plan, Boundary
<1>2. j \in Jobs /\ s \in StepKeys /\ Driving(v)
  BY <1>1, BusyWorker DEF Driving
<1>3. step[j][s] \in StepRow /\ step[j][s].attempts \in Nat
  BY <1>2, BoundsAssumption DEF TInv, StepOK, StepRow
<1>4. CASE worker[v].pc = "begin"
  <2>1. step'[j][s].attempts = step[j][s].attempts \/ Terminal(job[j])
    <3> SUFFICES ASSUME NEW w \in Workers, Counts(w, j, s), ~Terminal(job[j]) PROVE FALSE
      BY <1>2, AttemptsRise
    <3>1. w = v
      BY <1>2, OneAtWork DEF Counts, Begin, Driving, Row
    <3>2. worker'[v].pc = "execute"
      BY <3>1, OwnStep DEF Counts
    <3> QED BY <3>2
  <2>2. step[j][s].state = "SUCCEEDED" => step'[j][s].state = "SUCCEEDED"
    BY <1>2, ResultsStayLemma DEF ResultsStay
  <2>3. Terminal(job[j]) => Terminal(job'[j])
    BY <1>2, OverStays
  <2>4. \/ step[j][s].state = "SUCCEEDED" \/ step[j][s].attempts <= Failures
        \/ Terminal(job[j])
    BY <1>4 DEF NextAttemptPaid, Row
  <2> QED BY <1>1, <1>3, <2>1, <2>2, <2>3, <2>4, PaidByFailures
<1>5. CASE Boundary(v) /\ Goes(v, "begin")
  <2>1. job[j].state = "RUNNING" /\ job[j].cancel = None /\ UNCHANGED <<step, spent>>
    <3>1. /\ \A pc \in {"release", "settle"} : ~Ends(v, pc)
          /\ ~Goes(v, "settle")
      BY OwnStep
    <3> QED BY <1>5, <3>1 DEF Boundary
  <2>2. ~Over(j)
    BY <2>1 DEF Over, Terminal, TerminalStates
  <2>3. \A w \in Workers : worker[w].msg.job = j =>
            worker[w].pc \notin {"fail", "execute", "checkpoint", "failstep", "record"}
    <3> SUFFICES ASSUME NEW w \in Workers, worker[w].msg.job = j,
                        worker[w].pc \in {"fail", "execute", "checkpoint", "failstep",
                                          "record"}
                 PROVE  FALSE
      OBVIOUS
    <3>1. w = v
      BY <1>2, <2>2, OneAtWork DEF Driving, Row, Over
    <3> QED BY <1>5, <3>1 DEF Boundary
  <2>4. ~WithPerson(j)
    BY <2>1, <2>3 DEF WithPerson, Taking
  <2>5. \A w \in Workers : ~Carries(w, j, s)
    BY <2>3 DEF Carries
  <2>6. step[j][s].state = "SUCCEEDED" \/ ~(step[j][s].attempts > Failures)
    BY <1>2, <2>2, <2>4, <2>5 DEF AttemptsPaid, Excused
  <2>7. Failures \in Nat /\ Failures' = Failures
    BY <2>1, PaidByFailures DEF Failures
  <2> QED BY <1>1, <1>3, <2>1, <2>6, <2>7
<1> QED BY <1>1, <1>4, <1>5

\* Every step of the system keeps the attempts paid for.
LEMMA NextAttempts ==
    ASSUME TInv, RecordsOfRunningWork, StartedIsRunning, QuestionStarted, AttemptsPaid,
           NextAttemptPaid, [Next]_vars
    PROVE  AttemptsPaid'
<1> SUFFICES ASSUME NEW j \in Jobs, NEW s \in StepKeys
             PROVE  /\ step'[j][s].attempts <= 1 + Failures'
                    /\ step'[j][s].attempts > Failures' => Excused(j, s)'
  BY DEF AttemptsPaid
<1>1. step[j][s].attempts \in Nat
  BY BoundsAssumption DEF TInv, StepOK, StepRow
<1>2. /\ step[j][s].attempts <= 1 + Failures
      /\ step[j][s].attempts > Failures => Excused(j, s)
  BY DEF AttemptsPaid
<1>3. CASE Failures' # Failures
  BY <1>1, <1>2, <1>3, PaidByFailures
<1>4. CASE Failures' = Failures /\ step'[j][s].attempts # step[j][s].attempts
  <2>1. PICK w \in Workers : Counts(w, j, s)
    BY <1>4, AttemptsRise
  <2>2. step[j][s].attempts <= Failures
    BY <2>1 DEF Counts, Begin, NextAttemptPaid, Row, Terminal, TerminalStates
  <2>3. step'[j][s].attempts = step[j][s].attempts + 1
    BY <2>1 DEF Counts
  <2>4. /\ worker'[w].pc = "execute" /\ worker'[w].msg = worker[w].msg
        /\ worker'[w].at = worker[w].at
    BY <2>1, OwnStep, OwnPlace DEF Counts
  <2>5. StepOf(w)' = s /\ worker'[w].msg.job = j
    BY <2>1, <2>4 DEF Counts, StepOf, Plan
  <2>6. Excused(j, s)'
    BY <2>4, <2>5 DEF Excused, Carries
  <2> QED BY <1>1, <1>4, <2>2, <2>3, <2>6, PaidByFailures
<1>5. CASE Failures' = Failures /\ step'[j][s].attempts = step[j][s].attempts
  <2>1. ASSUME Excused(j, s) PROVE Excused(j, s)'
    <3>1. CASE step[j][s].state = "SUCCEEDED"
      BY <3>1, ResultsStayLemma DEF ResultsStay, Excused
    <3>2. CASE Over(j)
      BY <3>2, OverStays DEF Excused
    <3>3. CASE \E w \in Workers : Carries(w, j, s)
      BY <1>5, <3>3, CarriedStays
    <3>4. CASE s = "dark.clarify" /\ WithPerson(j)
      <4>1. \/ WithPerson(j)' \/ Terminal(job'[j])
            \/ step'[j]["dark.clarify"].state = "SUCCEEDED"
        BY <1>5, <3>4, PersonStays, PaidByFailures, FailuresOnlyGrow
      <4> QED BY <3>4, <4>1 DEF Excused, Over, Terminal
    <3> QED BY <2>1, <3>1, <3>2, <3>3, <3>4 DEF Excused
  <2> QED BY <1>2, <1>5, <2>1
<1> QED BY <1>3, <1>4, <1>5

\* While a person has the question its step is RUNNING: nobody writes a step of a job
\* that waits, and a reply is recorded by the only worker that drives the job.
LEMMA NextQuestion ==
    ASSUME TInv, OneDriver, RecordsOfRunningWork, StartedIsRunning, QuestionStarted,
           [Next]_vars
    PROVE  QuestionStarted'
<1> SUFFICES ASSUME NEW j \in Jobs, WithPerson(j)'
             PROVE  step'[j]["dark.clarify"].state = "RUNNING"
  BY DEF QuestionStarted, WithPerson, Taking
<1>1. CASE WithPerson(j) /\ step'[j] = step[j]
  BY <1>1 DEF QuestionStarted
<1>2. CASE job[j].state = "WAITING_FOR_USER"
  <2>1. \A w \in Workers : Writes(w) => worker[w].msg.job # j
    BY <1>2 DEF Writes, Row
  <2>2. step'[j] = step[j]
    BY <2>1, WhoWrites DEF Writes
  <2> QED BY <1>1, <1>2, <2>2 DEF WithPerson
<1>3. CASE job[j].state # "WAITING_FOR_USER" /\ job'[j].state = "WAITING_FOR_USER"
  <2>1. PICK w \in Workers : Clarify(w) /\ worker[w].msg.job = j
    BY <1>3, StatesMove DEF StateMoves, Terminal, TerminalStates
  <2>2. UNCHANGED step /\ CarryingOut(w) /\ StepOf(w) = "dark.clarify"
    BY <2>1 DEF Clarify, CarryingOut
  <2> QED BY <2>1, <2>2 DEF StartedIsRunning
<1>4. ASSUME NEW v \in Workers, worker'[v].msg.job = j, worker'[v].pc = "record",
             job[j].state # "WAITING_FOR_USER"
      PROVE  step'[j]["dark.clarify"].state = "RUNNING"
  <2>1. CASE worker'[v] = worker[v]
    <3>1. WithPerson(j)
      BY <1>4, <2>1 DEF WithPerson, Taking
    <3>2. Driving(v) /\ Row(v).state = "RUNNING"
      BY <1>4, <2>1 DEF Driving, RecordsOfRunningWork, Recording
    <3>3. ~Writes(v)
      <4>1. ~RecordAnswer(v)
        BY <1>4, OwnStep DEF RecordAnswer
      <4> QED BY <1>4, <2>1, <4>1 DEF Writes, Begin, RecordCheckpoint, RecordFailure
    <3>4. step'[j] = step[j]
      BY <1>4, <2>1, <3>2, <3>3, WhoWrites, OnlyTheDriverWrites
    <3> QED BY <1>1, <3>1, <3>4
  <2>2. CASE Resume(v) /\ Goes(v, "record")
    <3>1. worker[v].msg.job = j
      BY <1>4, <2>2, OwnStep
    <3>2. job[j].state = "WAITING_FOR_USER"
      <4>1. \A pc : ~Ends(v, "giveback") /\ ~Ends(v, "release")
                    /\ ~Breaks(v, "fail", "ACCESS_WITHDRAWN")
        BY <1>4, OwnStep
      <4> QED BY <2>2, <3>1, <4>1 DEF Resume, CanResume
    <3> QED BY <1>4, <3>2
  <2> QED BY <1>4, <2>1, <2>2, WhoReaches
<1> QED BY <1>2, <1>3, <1>4 DEF WithPerson, Taking

\* Asking is the only write that makes a question.
LEMMA WhoAsks ==
    ASSUME TInv, [Next]_vars, NEW j \in Jobs
    PROVE  \/ Asked(j)' = Asked(j)
           \/ \E w \in Workers, k \in Waits : Asks(w, j, k)
<1> USE DEF TInv, WaitOK
<1>1. ASSUME UNCHANGED wait
      PROVE  Asked(j)' = Asked(j)
  BY <1>1 DEF Asked
<1>2. ASSUME NEW i \in Jobs, NEW status \in {"CLOSED", "EXPIRED"},
             wait' = WithClosed(i, status)
      PROVE  Asked(j)' = Asked(j)
  BY <1>2 DEF WithClosed, Asked, Unanswered
<1>3. ASSUME NEW i \in Jobs, NEW k \in Waits, NEW status \in {"ANSWERED", "DUE"},
             wait' = [wait EXCEPT ![i][k] = status], wait[i][k] \in Unanswered
      PROVE  Asked(j)' = Asked(j)
  BY <1>3 DEF Asked, Unanswered
<1>4. ASSUME NEW i \in Jobs, Cancel(i) \/ Answer(i) \/ QuestionFallsDue(i)
      PROVE  Asked(j)' = Asked(j)
  BY <1>2, <1>3, <1>4 DEF Cancel, Answer, QuestionFallsDue, Unanswered
<1>5. ASSUME NEW w \in Workers, Expire(w) \/ Fail(w) \/ Stop(w)
      PROVE  Asked(j)' = Asked(j)
  <2>1. worker[w].msg.job \in Jobs
    BY <1>5, BusyWorker DEF Expire, Fail, Stop
  <2>2. \/ UNCHANGED wait
        \/ \E status \in {"CLOSED", "EXPIRED"} :
              wait' = WithClosed(worker[w].msg.job, status)
    BY <1>5 DEF Expire, Fail, Stop
  <2> QED BY <1>1, <1>2, <2>1, <2>2
<1>6. ASSUME NEW w \in Workers, Clarify(w)
      PROVE  Asked(j)' = Asked(j) \/ \E k \in Waits : Asks(w, j, k)
  <2>1. worker[w].msg.job \in Jobs
    BY <1>6, BusyWorker DEF Clarify
  <2>2. ASSUME NEW k \in Waits, Asks(w, worker[w].msg.job, k), worker[w].msg.job # j
        PROVE  Asked(j)' = Asked(j)
    BY <2>1, <2>2 DEF Asks, Asked
  <2>3. CASE worker[w].msg.job = j
    BY <1>1, <1>6, <2>3, WhatClarifyAsks
  <2>4. CASE worker[w].msg.job # j
    BY <1>1, <1>6, <2>2, <2>4, WhatClarifyAsks
  <2> QED BY <2>3, <2>4
<1>7. ASSUME NEW w \in Workers,
             RecordAnswer(w) \/ Begin(w) \/ RecordCheckpoint(w) \/ RecordFailure(w)
      PROVE  UNCHANGED wait
  BY <1>7 DEF RecordAnswer, Begin, RecordCheckpoint, RecordFailure
<1>8. UNCHANGED vars => UNCHANGED wait
  BY DEF vars
<1> QED BY <1>1, <1>4, <1>5, <1>6, <1>7, <1>8, NoWriteElsewhere DEF Next, Work

\* One more question makes the set of questions one larger.
LEMMA AskedCount ==
    ASSUME TInv, NEW j \in Jobs
    PROVE  /\ Cardinality(Asked(j)) \in Nat
           /\ \A w, k : Asks(w, j, k) =>
                 Cardinality(Asked(j))' = Cardinality(Asked(j)) + 1
<1>1. IsFiniteSet(Asked(j))
  <2>1. IsFiniteSet(1 .. MaxWaits)
    BY FS_Interval, WaitsAssumption
  <2>2. Asked(j) \in SUBSET (1 .. MaxWaits)
    BY DEF Asked, Waits
  <2> QED BY <2>1, <2>2, FS_Subset
<1>2. ASSUME NEW w, NEW k, Asks(w, j, k)
      PROVE  Asked(j)' = Asked(j) \cup {k} /\ k \notin Asked(j)
  BY <1>2 DEF Asks, Asked, TInv, WaitOK
<1> QED BY <1>1, <1>2, FS_CardinalityType, FS_AddElement

\* Every step of the system keeps the questions paid for.
LEMMA NextQuestions ==
    ASSUME TInv, OneDriver, RecordsOfRunningWork, StartedIsRunning, QuestionStarted,
           QuestionsPaid, [Next]_vars
    PROVE  QuestionsPaid'
<1> DEFINE Settled(j) == \/ step[j]["dark.clarify"].state = "SUCCEEDED"
                         \/ Terminal(job[j]) \/ WithPerson(j)
<1> SUFFICES ASSUME NEW j \in Jobs
             PROVE  /\ Cardinality(Asked(j))' <= 1 + spent'.faults
                    /\ Cardinality(Asked(j))' > spent'.faults => Settled(j)'
  BY DEF QuestionsPaid
<1>1. /\ Cardinality(Asked(j)) \in Nat
      /\ Cardinality(Asked(j)) <= 1 + spent.faults
      /\ Cardinality(Asked(j)) > spent.faults => Settled(j)
  BY AskedCount DEF QuestionsPaid
<1>2. /\ spent.faults \in Nat /\ spent'.faults \in Nat /\ spent.faults <= spent'.faults
      /\ spent'.faults > spent.faults => UNCHANGED wait
  BY FailuresOnlyGrow
<1>3. CASE Asked(j)' = Asked(j) /\ spent'.faults > spent.faults
  BY <1>1, <1>2, <1>3
<1>4. CASE Asked(j)' = Asked(j) /\ spent'.faults = spent.faults
  <2>1. ASSUME Settled(j) PROVE Settled(j)'
    <3>1. CASE step[j]["dark.clarify"].state = "SUCCEEDED"
      BY <3>1, ResultsStayLemma DEF ResultsStay, StepKeys
    <3>2. CASE Terminal(job[j])
      BY <3>2, OverStays DEF Terminal
    <3>3. CASE WithPerson(j)
      BY <1>2, <1>4, <3>3, PersonStays DEF Terminal
    <3> QED BY <2>1, <3>1, <3>2, <3>3
  <2> HIDE DEF Settled
  <2> QED BY <1>1, <1>4, <2>1
<1>5. ASSUME NEW w \in Workers, NEW k \in Waits, Asks(w, j, k)
      PROVE  /\ Cardinality(Asked(j))' <= 1 + spent'.faults
             /\ Settled(j)'
  <2>1. /\ worker[w].msg.job = j /\ worker[w].pc = "execute"
        /\ StepOf(w) = "dark.clarify" /\ job[j].state = "RUNNING"
    BY <1>5 DEF Asks, Clarify, CanAsk
  <2>2. step[j]["dark.clarify"].state = "RUNNING"
    BY <2>1 DEF StartedIsRunning, CarryingOut
  <2>3. ~Taking(j)
    <3> SUFFICES ASSUME NEW v \in Workers, worker[v].msg.job = j, worker[v].pc = "record"
                 PROVE  FALSE
      BY DEF Taking
    <3>1. v = w
      BY <2>1, OneAtWork DEF Driving, Row, Terminal, TerminalStates
    <3> QED BY <2>1, <3>1
  <2>4. ~Settled(j)
    BY <2>1, <2>2, <2>3 DEF WithPerson, Terminal, TerminalStates
  <2>5. Cardinality(Asked(j))' = Cardinality(Asked(j)) + 1
    BY <1>5, AskedCount
  <2>6. Settled(j)'
    BY <1>5 DEF Asks, WithPerson
  <2> HIDE DEF Settled
  <2> QED BY <1>1, <1>2, <2>4, <2>5, <2>6
<1> QED BY <1>2, <1>3, <1>4, <1>5, WhoAsks

BInv == QuestionStarted /\ AttemptsPaid /\ NextAttemptPaid /\ QuestionsPaid

\* The ledger of attempts and questions balances in every reachable state.
LEMMA BInvAlways == Spec => []BInv
<1>1. Init => BInv
  <2> SUFFICES ASSUME Init PROVE BInv
    OBVIOUS
  <2>1. /\ \A w \in Workers : worker[w].pc = "idle"
        /\ \A j \in Jobs : job[j].state = "ABSENT"
        /\ \A j \in Jobs, s \in StepKeys : step[j][s].attempts = 0
        /\ spent.faults = 0 /\ Failures = 0
    BY DEF Init, Idle, Absent, Failures
  <2>2. \A j \in Jobs : Asked(j) = {}
    BY DEF Init, Asked
  <2>3. \A j \in Jobs : Cardinality(Asked(j)) = 0
    BY <2>2, FS_EmptySet
  <2> QED BY <2>1, <2>3 DEF BInv, QuestionStarted, AttemptsPaid, NextAttemptPaid,
                            QuestionsPaid, WithPerson, Taking
<1>2. TInv /\ OneDriver /\ RecordsOfRunningWork /\ SInv /\ BInv /\ [Next]_vars => BInv'
  BY NextQuestion, NextAttempts, NextNextAttempt, NextQuestions DEF SInv, BInv
<1> QED BY <1>1, <1>2, SInvAlways, TInvAlways, ExecutionOneDriver, RecordsAlways, PTL
           DEF Spec

\* However many messages, rings, takeovers and sweeps name a job, a step is attempted at
\* most once for each failure and once more, and a person asked at most once for each
\* fault and once more.
THEOREM ExecutionRepeatsAreExplained == Spec => []RepeatsAreExplained
<1>1. TInv /\ BInv => RepeatsAreExplained
  <2> SUFFICES ASSUME TInv, BInv, NEW j \in Jobs
               PROVE  /\ \A s \in StepKeys : step[j][s].attempts
                                                <= 1 + spent.faults + spent.outages
                      /\ Cardinality(Asked(j)) <= 1 + spent.faults
    BY DEF RepeatsAreExplained, Asked
  <2>1. spent.faults \in Nat /\ spent.outages \in Nat
    BY BoundsAssumption DEF TInv, SpentOK
  <2> QED BY <2>1 DEF BInv, AttemptsPaid, QuestionsPaid, Failures
<1> QED BY <1>1, TInvAlways, BInvAlways, PTL

-----------------------------------------------------------------------------
(***************************************************************************)
(* Work that nobody waits for keeps a wakeup (HasWake).                    *)
(*                                                                         *)
(* A wakeup is lost where a message had all its deliveries, so the proof   *)
(* counts them: a delivery that leaves its job unfinished is paid for by a *)
(* fault, an outage or the one request to stop the job (DeliveriesPaid).   *)
(* Each message is then delivered at most once more than that.  The count  *)
(* holds for the jobs that neither ask a person nor are promoted, whose    *)
(* deliveries may end, at no cost, before their job does.                  *)
(***************************************************************************)
Plain == {j \in Jobs \ WaitingJobs :
             j \notin MayBeLate \cap InteractiveJobs \cap DurableJobs}
Active(j) == job[j].state \in {"ACCEPTED", "QUEUED", "RUNNING"}

\* A job has the class it was accepted in, or is durable; only a job that may ask a
\* person ever waits for one.
RowsFit == \A j \in Jobs :
    /\ job[j].state # "ABSENT" /\ job[j].class = "INTERACTIVE" => j \in InteractiveJobs
    /\ job[j].state = "WAITING_FOR_USER" => j \in WaitingJobs

\* What a step may make of a row.
LEMMA RowSteps ==
    ASSUME TInv, [Next]_vars, NEW j \in Jobs
    PROVE  /\ job'[j].state = "ABSENT" => job[j].state = "ABSENT"
           /\ job'[j].class \in {job[j].class, "DURABLE"} \/ job[j].state = "ABSENT"
           /\ job[j].state = "ABSENT" /\ job'[j].state # "ABSENT" =>
                 /\ job'[j].state = "ACCEPTED"
                 /\ job'[j].class = "INTERACTIVE" => j \in InteractiveJobs
           /\ job'[j].state = "WAITING_FOR_USER" =>
                 job[j].state = "WAITING_FOR_USER" \/ j \in WaitingJobs
           /\ job[j].cancel # None => job'[j].cancel = job[j].cancel
           /\ Active(j)' => Active(j) \/ job[j].state \in {"ABSENT", "WAITING_FOR_USER"}
<1>1. job \in [Jobs -> JobRecord] /\ job[j] \in JobRecord
  BY DEF TInv, JobOK
<1>2. CASE job'[j] = job[j]
  BY <1>2 DEF Active
<1>3. ASSUME NEW i \in Jobs, RowMoves(i), job'[j] # job[j]
      PROVE  i = j /\ Contract!Transition(j) /\ SoundMove(job[j], job'[j])
  BY <1>1, <1>3 DEF RowMoves, Becomes
<1>4. CASE Contract!Transition(j) /\ SoundMove(job[j], job'[j])
  <2> USE DEF Contract!Becomes, JobRecord, Active
  <2>1. job[j].cancel # None => job'[j].cancel = job[j].cancel
    BY <1>4 DEF SoundMove
  <2>2. CASE Contract!Accepted(j)
    BY <1>1, <2>1, <2>2 DEF Contract!Accepted, Contract!CanAccept, Contract!AfterAccept
  <2>3. CASE Contract!InputRequested(j)
    BY <1>1, <2>1, <2>3 DEF Contract!InputRequested, Contract!CanAsk, Contract!AfterAsk
  <2>4. CASE Contract!Dispatched(j)
    BY <1>1, <2>1, <2>4
       DEF Contract!Dispatched, Contract!CanDispatch, Contract!AfterDispatch
  <2>11. CASE Contract!Started(j)
    BY <1>1, <2>1, <2>11
       DEF Contract!Started, Contract!CanStart, Contract!AfterStart
  <2>12. CASE Contract!Promoted(j)
    BY <1>1, <2>1, <2>12
       DEF Contract!Promoted, Contract!CanPromote, Contract!AfterPromote
  <2>5. CASE Contract!InputReceived(j)
    BY <1>1, <2>1, <2>5
       DEF Contract!InputReceived, Contract!CanResume, Contract!AfterResume
  <2>6. CASE Contract!WaitExpired(j)
    BY <1>1, <2>1, <2>6
       DEF Contract!WaitExpired, Contract!CanExpire, Contract!AfterExpire
  <2>7. CASE Contract!Failed(j)
    <3>1. PICK why : Contract!CanFail(job[j]) /\ job'[j] = Contract!AfterFail(job[j], why)
      BY <1>1, <2>7 DEF Contract!Failed
    <3>2. job[j].state # "ABSENT"
      BY <3>1 DEF Contract!CanFail, Contract!Live, Contract!LiveStates,
                  Contract!IdleStates
    <3>3. job'[j].state = "FAILED" /\ job'[j].class = job[j].class
      BY <1>1, <3>1 DEF Contract!AfterFail
    <3> QED BY <2>1, <3>2, <3>3
  <2>8. CASE Contract!CancelRequested(j)
    <3>1. PICK why : Contract!CanCancel(job[j])
                     /\ job'[j] = Contract!AfterCancel(job[j], why)
      BY <1>1, <2>8 DEF Contract!CancelRequested
    <3>2. job[j].state # "ABSENT"
      BY <3>1 DEF Contract!CanCancel, Contract!Live, Contract!LiveStates,
                  Contract!IdleStates
    <3>3. /\ job'[j].class = job[j].class
          /\ job'[j].state \in {job[j].state, "CANCELLED"}
      BY <1>1, <3>1 DEF Contract!AfterCancel
    <3> QED BY <2>1, <3>2, <3>3
  <2>9. CASE Contract!CancelSettled(j)
    BY <1>1, <2>1, <2>9
       DEF Contract!CancelSettled, Contract!CanSettle, Contract!AfterSettle
  <2>10. CASE Contract!ResultCommitted(j)
    BY <1>1, <2>1, <2>10
       DEF Contract!ResultCommitted, Contract!CanCommit, Contract!AfterCommit
  <2> QED BY <1>4, <2>2, <2>3, <2>4, <2>5, <2>6, <2>7, <2>8, <2>9, <2>10,
             <2>11, <2>12 DEF Contract!Transition
<1> QED BY <1>2, <1>3, <1>4, StepMovesOneRow

\* Every step of the system keeps the rows fitting their jobs.
LEMMA NextRowsFit == TInv /\ RowsFit /\ [Next]_vars => RowsFit'
BY RowSteps DEF RowsFit

-----------------------------------------------------------------------------
(* Where messages come from.                                                *)

\* A delivery that failed names its job for the same reason, and is counted.
LEMMA WhatIsReturned ==
    ASSUME NEW x \in Message, NEW l, NEW m \in Returned(x, l)
    PROVE  /\ m.job = x.job /\ m.reason = x.reason /\ m.n = x.n
           /\ l \notin {None, "LAPSED"} => m.when = "HIDDEN"
BY DEF Returned, Message

\* The message of worker w is returned: w died, could not go on, or was overtaken
\* before its lease by a cancel or by a worker that got the lease.
Fails(w, m) ==
    /\ worker[w].pc # "idle"
    /\ m.job = worker[w].msg.job /\ m.reason = worker[w].msg.reason
    /\ m.n = worker[w].msg.n
    /\ \/ Crash(w)
       \/ Release(w) /\ worker[w].pc = "giveback"
       \/ /\ worker[w].pc = "claim" /\ Cancel(m.job)
          /\ job[m.job] # AfterCancel(job[m.job], "REQUESTED_BY_PRINCIPAL")
       \/ /\ worker[w].pc = "claim" /\ m.when = "HIDDEN"
          /\ \E v \in Workers : /\ Claim(v) /\ worker[v].msg.job = m.job
                                /\ ~Terminal(job[m.job]) /\ Free(m.job)
\* A message is new: a command's, a sweep's, or the next one of a worker's job.
Fresh(m) ==
    /\ m.n = 0
    /\ \/ \E i \in DOMAIN commands : /\ m.job = commands[i].job
                                     /\ m.reason = commands[i].type
       \/ m.job \in Jobs /\ m.reason = "TIMER" /\ SweepTimer(m.job)
       \/ m.job \in Jobs /\ m.reason = "RECOVERY" /\ SweepLease(m.job)
       \/ \E w \in Workers : /\ Requeue(w) /\ worker[w].msg.job = m.job
                             /\ m.reason = "CONTINUE"
Reappeared(m) == \E n \in queue :
    /\ m.job = n.job /\ m.reason = n.reason /\ m.n = n.n
    /\ n.when = "HIDDEN" => Free(n.job)

\* A message that was not in the queue is one of these.
LEMMA WhatIsQueued ==
    ASSUME TInv, [Next]_vars, NEW m \in queue', m \notin queue
    PROVE  Fresh(m) \/ Reappeared(m) \/ \E w \in Workers : Fails(w, m)
<1> DEFINE Same == UNCHANGED queue
<1>1. \A x \in queue : x \in Message
  BY DEF TInv, QueueOK, Deliverable
<1>2. ASSUME MessageReappears PROVE Reappeared(m)
  <2>1. PICK n \in queue : /\ queue' = (queue \ {n}) \cup {[n EXCEPT !.when = "NOW"]}
                           /\ n.when = "HIDDEN" => Free(n.job)
    BY <1>2 DEF MessageReappears
  <2>2. m = [n EXCEPT !.when = "NOW"]
    BY <2>1
  <2> QED BY <1>1, <2>1, <2>2 DEF Reappeared, Message
<1>3. ASSUME NEW i \in DOMAIN commands, Dispatch(i) PROVE Fresh(m)
  BY <1>3 DEF Dispatch, Fresh, Reference
<1>4. ASSUME NEW j \in Jobs, SweepTimer(j) \/ SweepLease(j) PROVE Fresh(m)
  BY <1>4 DEF SweepTimer, SweepLease, Wakes, Fresh, Reference
<1>5. ASSUME NEW w \in Workers, Requeue(w) PROVE Fresh(m)
  <2> DEFINE r == Reference(worker[w].msg.job, "CONTINUE", NoWait)
  <2>1. \E when : m = [r EXCEPT !.when = when]
    BY <1>5 DEF Requeue
  <2>2. m.job = worker[w].msg.job /\ m.reason = "CONTINUE" /\ m.n = 0
    BY <2>1 DEF Reference
  <2> QED BY <1>5, <2>2 DEF Fresh
<1>6. ASSUME NEW w \in Workers, Crash(w) \/ Release(w) PROVE Fails(w, m)
  <2>1. /\ worker[w].pc # "idle"
        /\ \E l : m \in Returned(worker[w].msg, l)
        /\ Release(w) => worker[w].pc = "giveback"
    BY <1>6 DEF Crash, Release
  <2> QED BY <1>6, <2>1, BusyWorker, WhatIsReturned DEF Fails
<1>7. ASSUME NEW j \in Jobs, Cancel(j) PROVE \E w \in Workers : Fails(w, m)
  <2> DEFINE after == AfterCancel(job[j], "REQUESTED_BY_PRINCIPAL")
             C == IF after = job[j] THEN {} ELSE Exposed(j)
  <2>1. \E hit \in SUBSET C : queue' = queue \cup GivenBack(hit, lease'[j])
    BY <1>7 DEF Cancel
  <2>2. PICK w \in C : worker[w].pc = "claim" /\ m \in Returned(worker[w].msg, lease'[j])
    BY <2>1 DEF GivenBack
  <2>3. after # job[j] /\ w \in Workers /\ worker[w].msg.job = j
    BY <2>2 DEF Exposed
  <2> HIDE DEF C
  <2> QED BY <1>7, <2>2, <2>3, BusyWorker, WhatIsReturned DEF Fails
<1>8. ASSUME NEW v \in Workers, Claim(v) PROVE \E w \in Workers : Fails(w, m)
  <2> DEFINE j == worker[v].msg.job
  <2>1. ~Terminal(job[j]) /\ Free(j)
    BY <1>8 DEF Claim
  <2>2. PICK hit \in SUBSET {u \in Exposed(j) \ {v} : worker[u].pc = "claim"} :
            queue' = queue \cup GivenBack(hit, v)
    BY <1>8, <2>1 DEF Claim
  <2>3. PICK w \in hit : worker[w].pc = "claim" /\ m \in Returned(worker[w].msg, v)
    BY <2>2 DEF GivenBack
  <2>4. w \in Workers /\ worker[w].msg.job = j
    BY <2>3 DEF Exposed
  <2>5. v \notin {None, "LAPSED"}
    BY LeaseValues
  <2> QED BY <1>8, <2>1, <2>3, <2>4, <2>5, BusyWorker, WhatIsReturned DEF Fails
<1>9. ASSUME NEW w \in Workers, Receive(w) PROVE FALSE
  BY <1>9 DEF Receive
<1>10. ASSUME NEW w \in Workers, Work(w), ~Claim(w), ~Requeue(w), ~Release(w) PROVE FALSE
  BY <1>10 DEF Work, DispatchRow, StartRow, SettleRow, PromoteRow, Move, ReadExpiry, Expire,
               Resume, RecordAnswer, Boundary, Begin, Execute, Clarify, RecordCheckpoint,
               RecordFailure, Fail, Stop
<1>11. ASSUME NEW j \in Jobs, Submit(j) \/ Answer(j) \/ QuestionFallsDue(j) \/ LeaseLapses(j)
       PROVE FALSE
  BY <1>11 DEF Submit, Answer, QuestionFallsDue, LeaseLapses
<1>12. UNCHANGED vars => FALSE
  BY DEF vars
<1>13. ASSUME NEW i \in DOMAIN commands, Ring(i) \/ SweepCommand(i) \/ DispatcherDies(i)
       PROVE  Fresh(m)
  BY <1>3, <1>13 DEF Ring, SweepCommand, DispatcherDies
<1> QED BY <1>2, <1>4, <1>5, <1>6, <1>7, <1>8, <1>9, <1>10, <1>11, <1>12, <1>13 DEF Next

-----------------------------------------------------------------------------
(* What names a job.                                                        *)

\* Commands, messages and deliveries name jobs that were submitted, and a reply's
\* those that may ask for one.
Rightful(j, reason) ==
    j \in Jobs /\ job[j].state # "ABSENT" /\ (reason = "RESUME" => j \in WaitingJobs)
NamesFit ==
    /\ \A i \in DOMAIN commands : Rightful(commands[i].job, commands[i].type)
    /\ \A m \in queue : Rightful(m.job, m.reason)
    /\ \A w \in Workers : worker[w].pc # "idle" =>
          Rightful(worker[w].msg.job, worker[w].msg.reason)

\* Storing a command appends it, not yet dispatched, or leaves the commands as they are.
LEMMA CommandAdded ==
    ASSUME CommandsOK, NEW j, NEW type, NEW k, commands' = WithCommand(j, type, k)
    PROVE  /\ \A i \in DOMAIN commands : i \in DOMAIN commands' /\ commands'[i] = commands[i]
           /\ \A i \in DOMAIN commands' \ DOMAIN commands :
                 commands'[i] = [job |-> j, type |-> type, wait |-> k, sent |-> FALSE]
           /\ Stored(j, type, k) \/ \E i \in DOMAIN commands' : i \notin DOMAIN commands
<1> DEFINE c == [job |-> j, type |-> type, wait |-> k, sent |-> FALSE]
<1>2. CASE Stored(j, type, k)
  BY <1>2 DEF WithCommand
<1>3. CASE ~Stored(j, type, k)
  <2>1. commands' = Append(commands, c)
    BY <1>3 DEF WithCommand
  <2> HIDE DEF c
  <2>2. /\ Len(commands) \in Nat /\ DOMAIN commands = 1 .. Len(commands)
        /\ DOMAIN commands' = 1 .. Len(commands) + 1
        /\ \A n \in 1 .. Len(commands) : commands'[n] = commands[n]
        /\ commands'[Len(commands) + 1] = c
    BY <2>1 DEF CommandsOK
  <2>3. \A i \in DOMAIN commands' \ DOMAIN commands : commands'[i] = c
    BY <2>2
  <2>4. /\ Len(commands) + 1 \in DOMAIN commands'
        /\ Len(commands) + 1 \notin DOMAIN commands
    BY <2>2
  <2>5. \A i \in DOMAIN commands : i \in DOMAIN commands' /\ commands'[i] = commands[i]
    BY <2>2
  <2> QED BY <2>3, <2>4, <2>5 DEF c
<1> QED BY <1>2, <1>3

\* A command stays, and is marked as sent only with its reference; a new one is rightful.
LEMMA CommandSteps ==
    ASSUME TInv, RowsFit, [Next]_vars
    PROVE  /\ \A i \in DOMAIN commands :
                 /\ i \in DOMAIN commands'
                 /\ commands'[i].job = commands[i].job /\ commands'[i].type = commands[i].type
                 /\ commands'[i] = commands[i] \/ Dispatch(i)
           /\ \A i \in DOMAIN commands' \ DOMAIN commands :
                 Rightful(commands[i].job, commands[i].type)'
<1> DEFINE Done == /\ \A i \in DOMAIN commands :
                         /\ i \in DOMAIN commands'
                         /\ /\ commands'[i].job = commands[i].job
                            /\ commands'[i].type = commands[i].type
                         /\ commands'[i] = commands[i] \/ Dispatch(i)
                   /\ \A i \in DOMAIN commands' \ DOMAIN commands :
                         Rightful(commands[i].job, commands[i].type)'
<1>1. CASE UNCHANGED commands
  BY <1>1
<1>2. ASSUME NEW i \in DOMAIN commands, Dispatch(i), Marked(i) PROVE Done
  <2>1. /\ DOMAIN commands' = DOMAIN commands
        /\ \A n \in DOMAIN commands : commands[n] \in Command
    BY <1>2 DEF TInv, CommandsOK, Marked
  <2> QED BY <1>2, <2>1 DEF Marked, Command
<1>3. ASSUME NEW j \in Jobs, NEW type, NEW k, commands' = WithCommand(j, type, k),
             job[j].state # "ABSENT" \/ job'[j].state # "ABSENT",
             type = "RESUME" => j \in WaitingJobs
      PROVE  Done
  <2>1. Rightful(j, type)'
    BY <1>3, RowSteps DEF Rightful
  <2>2. \A i \in DOMAIN commands : i \in DOMAIN commands' /\ commands'[i] = commands[i]
    BY <1>3, CommandAdded DEF TInv
  <2>3. ASSUME NEW i \in DOMAIN commands' \ DOMAIN commands
        PROVE  Rightful(commands[i].job, commands[i].type)'
    <3>1. commands'[i].job = j /\ commands'[i].type = type
      BY <1>3, CommandAdded DEF TInv
    <3> QED BY <2>1, <3>1 DEF Rightful
  <2> QED BY <2>2, <2>3
<1>4. ASSUME NEW j \in Jobs, Submit(j) PROVE Done
  <2>1. PICK cls : Becomes(j, AfterAccept(job[j], cls))
    BY <1>4 DEF Submit
  <2>2. job'[j].state # "ABSENT"
    BY <2>1, EventsReach DEF Becomes, TInv, JobOK
  <2> QED BY <1>3, <1>4, <2>2 DEF Submit
<1>5. ASSUME NEW j \in Jobs, Cancel(j) PROVE Done
  BY <1>3, <1>5 DEF Cancel, CanCancel, Live, LiveStates, IdleStates
<1>6. ASSUME NEW j \in Jobs, Answer(j) PROVE Done
  <2>1. PICK k \in Waits : job[j].state = "WAITING_FOR_USER"
                          /\ commands' = WithCommand(j, "RESUME", k)
    BY <1>6 DEF Answer
  <2> QED BY <1>3, <2>1 DEF RowsFit
<1>7. ASSUME NEW w \in Workers, Stop(w) PROVE Done
  <2>1. worker[w].msg.job \in Jobs
    BY <1>7, BusyWorker DEF Stop
  <2> QED BY <1>1, <1>3, <1>7, <2>1 DEF Stop, CanCancel, Live, LiveStates, IdleStates
<1>8. ASSUME NEW w \in Workers, Receive(w) \/ Crash(w) \/ (Work(w) /\ ~Stop(w))
      PROVE  UNCHANGED commands
  BY <1>8 DEF Receive, Crash, Work, Claim, DispatchRow, StartRow, SettleRow, PromoteRow, Move,
              ReadExpiry, Expire, Resume, RecordAnswer, Boundary, Begin, Execute, Clarify,
              RecordCheckpoint, RecordFailure, Requeue, Fail, Release
<1>9. ASSUME NEW j \in Jobs,
             QuestionFallsDue(j) \/ LeaseLapses(j) \/ SweepTimer(j) \/ SweepLease(j)
      PROVE  UNCHANGED commands
  BY <1>9 DEF QuestionFallsDue, LeaseLapses, SweepTimer, SweepLease
<1>10. UNCHANGED vars \/ MessageReappears => UNCHANGED commands
  BY DEF vars, MessageReappears
<1>11. ASSUME NEW i \in DOMAIN commands, Ring(i) \/ SweepCommand(i) \/ DispatcherDies(i)
       PROVE  Done
  BY <1>1, <1>2, <1>11 DEF Ring, SweepCommand, DispatcherDies
<1> QED BY <1>1, <1>4, <1>5, <1>6, <1>7, <1>8, <1>9, <1>10, <1>11 DEF Next

\* What worker v received: a message of the queue, delivered once more.
Takes(v) == \E m \in queue :
    /\ m.when = "NOW" /\ worker[v].pc = "idle" /\ worker'[v].pc = "claim"
    /\ worker'[v].msg.job = m.job /\ worker'[v].msg.reason = m.reason
    /\ worker'[v].msg.n = m.n + 1

\* A busy worker keeps its message.
LEMMA WhoHolds ==
    ASSUME TInv, [Next]_vars, NEW v \in Workers, worker'[v].pc # "idle"
    PROVE  \/ worker[v].pc # "idle" /\ worker'[v].msg = worker[v].msg
           \/ Receive(v) /\ Takes(v)
<1>1. worker \in [Workers -> Invocation] /\ worker[v] \in Invocation
  BY DEF TInv, WorkersOK
<1>2. CASE worker'[v] = worker[v]
  BY <1>2
<1>3. CASE Receive(v) /\ worker'[v] # worker[v]
  <2>1. PICK m \in queue :
            /\ m.when = "NOW" /\ worker[v].pc = "idle"
            /\ worker' = [worker EXCEPT ![v] =
                   [Idle EXCEPT !.pc = "claim", !.msg = [m EXCEPT !.n = @ + 1]]]
    BY <1>3 DEF Receive
  <2>2. m \in Message
    BY DEF TInv, QueueOK, Deliverable
  <2>3. /\ worker'[v].pc = "claim"
        /\ worker'[v].msg = [m EXCEPT !.n = @ + 1]
    BY <1>1, <2>1 DEF Idle
  <2>4. /\ worker'[v].msg.job = m.job /\ worker'[v].msg.reason = m.reason
        /\ worker'[v].msg.n = m.n + 1
    BY <2>2, <2>3 DEF Message
  <2> QED BY <1>3, <2>1, <2>3, <2>4 DEF Takes
<1>4. CASE worker'[v] = Idle \/ Crash(v)
  BY <1>1, <1>4 DEF Crash, Idle
<1>5. ASSUME NEW j \in Jobs, v \in Exposed(j), worker'[v] = Overtaken(v)
      PROVE  worker[v].pc # "idle" /\ worker'[v].msg = worker[v].msg
  BY <1>1, <1>5 DEF Exposed, Overtaken, Idle, Invocation
<1>6. CASE Claim(v) \/ Release(v)
  <2>1. CASE worker' = [worker EXCEPT ![v] = Idle]
    BY <1>1, <2>1 DEF Idle
  <2>2. CASE Claim(v) /\ worker' # [worker EXCEPT ![v] = Idle]
    <3>1. PICK pc : worker'[v] = [worker[v] EXCEPT !.pc = pc,
                                                   !.asked = job[worker[v].msg.job].wait]
      BY <2>2 DEF Claim
    <3> QED BY <1>1, <2>2, <3>1 DEF Claim, Invocation
  <2> QED BY <1>6, <2>1, <2>2 DEF Release
<1>7. CASE Work(v) /\ ~Claim(v) /\ ~Release(v)
  <2>1. worker[v].pc # "idle"
    BY <1>7 DEF Work, DispatchRow, StartRow, SettleRow, PromoteRow, Move, ReadExpiry, Expire,
                Resume, RecordAnswer, Boundary, Begin, Execute, Clarify, RecordCheckpoint,
                RecordFailure, Requeue, Fail, Stop
  <2>2. \/ UNCHANGED worker \/ NextStep(v)
        \/ \E pc : Goes(v, pc) \/ Ends(v, pc) \/ (\E why : Breaks(v, pc, why))
    BY <1>7 DEF Work, DispatchRow, StartRow, SettleRow, PromoteRow, Move, ReadExpiry, Expire,
                Resume, RecordAnswer, Boundary, Begin, Execute, Clarify, RecordCheckpoint,
                RecordFailure, Requeue, Fail, Stop
  <2> QED BY <1>2, <2>1, <2>2, OwnStep
<1> QED BY <1>2, <1>3, <1>4, <1>5, <1>6, <1>7, WhoMoves

\* Every step of the system keeps the names fitting.
LEMMA NextNamesFit ==
    ASSUME TInv, QuestionMatchesJob, RowsFit, NamesFit, [Next]_vars
    PROVE  NamesFit'
<1>1. ASSUME NEW j, NEW reason, Rightful(j, reason) PROVE Rightful(j, reason)'
  BY <1>1, RowSteps DEF Rightful
<1>2. ASSUME NEW m \in queue' PROVE Rightful(m.job, m.reason)'
  <2>1. CASE m \in queue
    BY <1>1, <2>1 DEF NamesFit
  <2>2. CASE Reappeared(m)
    BY <1>1, <2>2 DEF NamesFit, Reappeared
  <2>3. CASE \E w \in Workers : Fails(w, m)
    BY <1>1, <2>3 DEF NamesFit, Fails
  <2>4. CASE Fresh(m)
    <3>1. ASSUME SweepTimer(m.job), m.job \in Jobs, m.reason = "TIMER"
          PROVE  Rightful(m.job, m.reason)
      BY <3>1 DEF SweepTimer, QuestionMatchesJob, Unanswered, Rightful
    <3>2. ASSUME SweepLease(m.job), m.job \in Jobs, m.reason = "RECOVERY"
          PROVE  Rightful(m.job, m.reason)
      BY <3>2 DEF SweepLease, Rightful
    <3>3. ASSUME NEW w \in Workers, Requeue(w), worker[w].msg.job = m.job,
                 m.reason = "CONTINUE"
          PROVE  Rightful(m.job, m.reason)
      BY <3>3 DEF Requeue, NamesFit, Rightful
    <3> QED BY <1>1, <2>4, <3>1, <3>2, <3>3 DEF Fresh, NamesFit
  <2> QED BY <2>1, <2>2, <2>3, <2>4, WhatIsQueued
<1>3. ASSUME NEW v \in Workers, worker'[v].pc # "idle"
      PROVE  Rightful(worker[v].msg.job, worker[v].msg.reason)'
  <2>1. CASE worker[v].pc # "idle" /\ worker'[v].msg = worker[v].msg
    <3>1. Rightful(worker[v].msg.job, worker[v].msg.reason)
      BY <2>1 DEF NamesFit
    <3> QED BY <2>1, <3>1, RowSteps DEF Rightful
  <2>2. CASE Takes(v)
    <3>1. PICK m \in queue : worker'[v].msg.job = m.job /\ worker'[v].msg.reason = m.reason
      BY <2>2 DEF Takes
    <3>2. Rightful(m.job, m.reason)
      BY DEF NamesFit
    <3> QED BY <3>1, <3>2, RowSteps DEF Rightful
  <2> QED BY <1>3, <2>1, <2>2, WhoHolds
<1>4. ASSUME NEW i \in DOMAIN commands'
      PROVE  Rightful(commands[i].job, commands[i].type)'
  <2>1. CASE i \in DOMAIN commands
    <3>1. commands'[i].job = commands[i].job /\ commands'[i].type = commands[i].type
      BY <2>1, CommandSteps
    <3>2. Rightful(commands[i].job, commands[i].type)
      BY <2>1 DEF NamesFit
    <3> QED BY <3>1, <3>2, RowSteps DEF Rightful
  <2> QED BY <1>4, <2>1, CommandSteps
<1> QED BY <1>2, <1>3, <1>4 DEF NamesFit

-----------------------------------------------------------------------------
(* Where a worker stands while it drives plain work.                        *)

\* Its place fits the row of a job that has not ended: it is none of the places of
\* questions and promotions.
Fit(v) ==
    LET j == worker[v].msg.job
        pc == worker[v].pc IN
    \/ Terminal(job[j])
    \/ pc \in {"stop", "release", "giveback"}
    \/ pc = "dispatch" /\ job[j].state = "ACCEPTED"
    \/ pc = "start" /\ job[j].state = "QUEUED"
    \/ pc = "settle" /\ job[j].state = "RUNNING" /\ job[j].cancel # None
    \/ /\ pc \in {"boundary", "begin", "execute", "checkpoint", "failstep", "fail", "backoff"}
       /\ job[j].state = "RUNNING"
PlacesFit == \A v \in Workers : Driving(v) /\ worker[v].msg.job \in Plain => Fit(v)

\* The delivery has met what it costs: Loop's API was down, or the delivery is over.
Counted(v) == \/ worker[v].pc \in {"backoff", "release", "giveback"}
              \/ worker[v].pc = "failstep" /\ worker[v].why = None

\* What a step of its driver leaves of plain work that goes on: the driver at a place
\* that fits, which costs an outage to give up from, and a message to delete its own for.
GoesOn(v) ==
    /\ worker'[v].msg = worker[v].msg /\ Driving(v)' /\ Fit(v)'
    /\ Counted(v)' => Counted(v) \/ Outage
    /\ worker'[v].pc = "release" =>
          \E m \in queue' : m.job = worker[v].msg.job /\ m.when = "LATER"

\* The steps of a driver, until it is done with its delivery.
LEMMA DriverSteps ==
    ASSUME TInv, RowsFit, NamesFit, PlacesFit, [Next]_vars,
           NEW v \in Workers, Driving(v), worker[v].msg.job \in Plain,
           worker[v].pc \notin {"release", "giveback"}, Work(v)
    PROVE  Terminal(job'[worker[v].msg.job]) \/ GoesOn(v)
<1> DEFINE j == worker[v].msg.job
<1>1. /\ j \in Jobs /\ j \notin WaitingJobs
      /\ worker \in [Workers -> Invocation] /\ worker[v] \in Invocation
      /\ job \in [Jobs -> JobRecord] /\ job[j] \in JobRecord /\ Shape(job[j])
      /\ worker[v].at \in DOMAIN Plan(j)
  BY BusyWorker DEF Plain, Driving, TInv, WorkersOK, JobOK
<1>2. Fit(v) /\ job[j].state \notin {"ABSENT", "WAITING_FOR_USER"}
  BY <1>1 DEF PlacesFit, NamesFit, Rightful, Driving, RowsFit
<1>3. CASE Terminal(job[j])
  BY <1>1, <1>3, OverStays
<1>4. CASE ~Terminal(job[j])
  <2> USE <1>4
  <2>1. ASSUME NEW pc \in Places, Goes(v, pc) \/ Ends(v, pc) \/ (\E why : Breaks(v, pc, why))
        PROVE  worker'[v].msg = worker[v].msg /\ worker'[v].pc = pc
    BY <2>1, OwnStep
  <2>2. ASSUME NextStep(v)
        PROVE  worker'[v].msg = worker[v].msg /\ worker'[v].pc = "boundary"
    BY <2>2, OwnStep
  <2>3. ASSUME NEW pc \in {"boundary", "begin", "execute", "checkpoint", "fail"},
               worker'[v].pc = pc, worker'[v].msg = worker[v].msg, job'[j].state = "RUNNING"
        PROVE  GoesOn(v)
    BY <2>3 DEF GoesOn, Fit, Driving, Counted
  <2>4. CASE DispatchRow(v)
    <3>1. Becomes(j, AfterDispatch(job[j])) /\ Goes(v, "start")
      BY <1>2, <2>4 DEF DispatchRow, Move, Fit, CanDispatch, Row
    <3>2. job'[j].state = "QUEUED"
      BY <1>1, <3>1, EventsReach DEF Becomes
    <3> QED BY <2>1, <3>1, <3>2 DEF GoesOn, Fit, Driving, Counted, Places
  <2>5. CASE StartRow(v)
    <3>1. Becomes(j, AfterStart(job[j])) /\ Goes(v, "boundary")
      BY <1>1, <1>2, <2>5 DEF StartRow, Move, Fit, CanStart, Row, Shape, StopShape
    <3>2. job'[j].state = "RUNNING"
      BY <1>1, <3>1, EventsReach DEF Becomes
    <3> QED BY <2>1, <2>3, <3>1, <3>2 DEF Places
  <2>6. CASE SettleRow(v)
    <3>1. Becomes(j, AfterSettle(job[j]))
      BY <1>2, <2>6 DEF SettleRow, Move, Fit, CanSettle, Row
    <3>2. job'[j].state = "CANCELLED"
      BY <1>1, <3>1, EventsReach DEF Becomes
    <3> QED BY <3>2 DEF Terminal, TerminalStates
  <2>7. CASE Boundary(v)
    <3>1. job[j].state = "RUNNING" /\ job'[j] = job[j]
      BY <1>2, <2>7 DEF Boundary, Fit
    <3>2. job[j].class = "INTERACTIVE" /\ j \in DurableJobs => j \notin MayBeLate
      BY <1>2 DEF RowsFit, Plain
    <3>3. \/ job[j].cancel # None /\ Goes(v, "settle")
          \/ Goes(v, "begin") \/ Goes(v, "stop") \/ (\E why : Breaks(v, "fail", why))
      BY <2>7, <3>1, <3>2 DEF Boundary
    <3>4. CASE Goes(v, "begin") \/ (\E why : Breaks(v, "fail", why))
      BY <2>1, <2>3, <3>1, <3>4 DEF Places
    <3>5. CASE (job[j].cancel # None /\ Goes(v, "settle")) \/ Goes(v, "stop")
      BY <2>1, <3>1, <3>5 DEF GoesOn, Fit, Driving, Counted, Places
    <3> QED BY <3>3, <3>4, <3>5
  <2>8. CASE Begin(v)
    <3>1. job[j].state = "RUNNING" /\ job'[j] = job[j]
      BY <1>2, <2>8 DEF Begin, Fit
    <3>2. NextStep(v) \/ Goes(v, "execute") \/ (\E why : Breaks(v, "fail", why))
      BY <2>8, <3>1 DEF Begin
    <3> QED BY <2>1, <2>2, <2>3, <3>1, <3>2 DEF Places
  <2>9. CASE Execute(v)
    <3>1. job[j].state = "RUNNING" /\ job'[j] = job[j]
      BY <1>2, <2>9 DEF Execute, Fit
    <3>2. \/ Goes(v, "checkpoint")
          \/ \E why \in FailureReasons : Breaks(v, "failstep", why)
          \/ Goes(v, "failstep") /\ Outage
      BY <2>9, RefusalsAssumption DEF Execute, FailureReasons
    <3>3. CASE Goes(v, "checkpoint")
      BY <2>1, <2>3, <3>1, <3>3 DEF Places
    <3>4. CASE \E why \in FailureReasons : Breaks(v, "failstep", why)
      BY <3>1, <3>4, BrokenStep DEF GoesOn, Fit, Driving, Counted
    <3>5. CASE Goes(v, "failstep") /\ Outage
      BY <2>1, <3>1, <3>5 DEF GoesOn, Fit, Driving, Places
    <3> QED BY <3>2, <3>3, <3>4, <3>5
  <2>10. CASE RecordCheckpoint(v)
    <3>1. job[j].state = "RUNNING" /\ job'[j] = job[j] /\ NextStep(v)
      BY <1>2, <2>10 DEF RecordCheckpoint, Fit
    <3> QED BY <2>2, <2>3, <3>1
  <2>11. CASE RecordFailure(v)
    <3>1. job[j].state = "RUNNING" /\ job'[j] = job[j]
      BY <1>2, <2>11 DEF RecordFailure, Fit
    <3>2. \/ Goes(v, "fail") \/ (\E why : Breaks(v, "fail", why))
          \/ Goes(v, "backoff") /\ Counted(v)
      BY <2>11 DEF RecordFailure, Counted
    <3>3. CASE Goes(v, "backoff") /\ Counted(v)
      BY <2>1, <3>1, <3>3 DEF GoesOn, Fit, Driving, Places
    <3> QED BY <2>1, <2>3, <3>1, <3>2, <3>3 DEF Places
  <2>12. CASE Requeue(v)
    <3> DEFINE r == [Reference(j, "CONTINUE", NoWait) EXCEPT !.when = "LATER"]
    <3>1. worker[v].pc = "backoff" /\ Counted(v) /\ job'[j] = job[j]
      BY <1>2, <2>12 DEF Requeue, Fit, Counted
    <3>2. (r \in queue' /\ Ends(v, "release")) \/ Ends(v, "giveback")
      BY <2>12, <3>1 DEF Requeue
    <3>3. r.job = j /\ r.when = "LATER"
      BY DEF Reference
    <3> HIDE DEF r
    <3> QED BY <2>1, <3>1, <3>2, <3>3 DEF GoesOn, Fit, Driving, Places
  <2>13. CASE Fail(v)
    <3>1. Becomes(j, AfterFail(job[j], worker[v].why))
      BY <1>2, <2>13 DEF Fail, Fit, CanFail, Live, LiveStates
    <3>2. job'[j].state = "FAILED"
      BY <1>1, <3>1, EventsReach DEF Becomes
    <3> QED BY <3>2 DEF Terminal, TerminalStates
  <2>14. CASE Stop(v)
    <3> DEFINE after == AfterCancel(job[j], "KILL_SWITCH")
    <3>1. CanCancel(job[j])
      BY <1>1, <1>2 DEF CanCancel, Live, LiveStates, IdleStates, Terminal, TerminalStates,
                        JobRecord, States
    <3>2. job'[j] = after
      BY <1>1, <2>14, <3>1 DEF Stop, Becomes
    <3>3. CASE ~Terminal(after)
      <4>1. job[j].state = "RUNNING" /\ after.state = "RUNNING" /\ after.cancel # None
        BY <1>1, <1>2, <3>3 DEF AfterCancel, IdleStates, Terminal, TerminalStates, JobRecord,
                                States, LiveStates, None
      <4>2. Goes(v, "settle")
        BY <2>14, <3>1, <3>3 DEF Stop
      <4> QED BY <2>1, <3>2, <4>1, <4>2 DEF GoesOn, Fit, Driving, Counted, Places
    <3> QED BY <3>2, <3>3
  <2>15. ~(\/ Claim(v) \/ Release(v) \/ PromoteRow(v) \/ ReadExpiry(v) \/ Expire(v)
           \/ Resume(v) \/ RecordAnswer(v))
    BY <1>2 DEF Claim, Release, PromoteRow, Move, ReadExpiry, Expire, Resume, RecordAnswer,
                Fit, Driving
  <2>16. ~Clarify(v)
    BY <1>1 DEF Clarify, StepOf, Plan
  <2> QED BY <2>4, <2>5, <2>6, <2>7, <2>8, <2>9, <2>10, <2>11, <2>12, <2>13, <2>14, <2>15,
             <2>16 DEF Work
<1> QED BY <1>3, <1>4

\* A claim that gets the lease begins at a place that fits, with work to do.
LEMMA ClaimBegins ==
    ASSUME TInv, RowsFit, NamesFit, NEW v \in Workers, Claim(v),
           worker'[v].pc # "idle"
    PROVE  LET j == worker[v].msg.job IN
           /\ ~Terminal(job[j]) /\ Free(j) /\ lease'[j] = v /\ UNCHANGED job
           /\ worker'[v].msg = worker[v].msg /\ Driving(v)'
           /\ j \in Plain => Fit(v)' /\ ~Counted(v)'
<1> DEFINE j == worker[v].msg.job
<1>1. /\ worker \in [Workers -> Invocation] /\ worker[v] \in Invocation
      /\ j \in Jobs /\ job[j] \in JobRecord
      /\ lease \in [Jobs -> Workers \cup {None, "ORPHAN", "LAPSED"}]
      /\ worker[v].pc = "claim" /\ UNCHANGED job
  BY BusyWorker DEF Claim, TInv, WorkersOK, JobOK, LeaseOK
<1>2. worker' # [worker EXCEPT ![v] = Idle]
  BY <1>1 DEF Idle
<1>3. ~Terminal(job[j]) /\ Free(j) /\ lease' = [lease EXCEPT ![j] = v]
  BY <1>2 DEF Claim
<1>4. PICK pc \in {Entry(j, worker[v].msg.reason), "stop"} :
          worker'[v] = [worker[v] EXCEPT !.pc = pc, !.asked = job[j].wait]
  BY <1>2 DEF Claim
<1>5. worker'[v].msg = worker[v].msg /\ worker'[v].pc = pc
  BY <1>1, <1>4 DEF Invocation
<1>6. pc \in EntryPlaces
  BY <1>4 DEF Entry, WaitingEntry, EntryPlaces
<1>7. ASSUME j \in Plain PROVE Fit(v)' /\ ~Counted(v)'
  <2>1. job[j].state \in {"ACCEPTED", "QUEUED", "RUNNING"}
    BY <1>1, <1>3, <1>7 DEF Plain, RowsFit, NamesFit, Rightful, JobRecord, States,
                            LiveStates, IdleStates, Terminal
  <2>2. CASE pc = "stop"
    BY <1>5, <2>2 DEF Fit, Counted
  <2>3. CASE pc = Entry(j, worker[v].msg.reason)
    BY <1>1, <1>5, <2>1, <2>3 DEF Entry, Fit, Counted
  <2> QED BY <1>4, <2>2, <2>3
<1> QED BY <1>1, <1>3, <1>5, <1>6, <1>7 DEF Driving, EntryPlaces

\* The row of a job is written by the people, or by a worker that drives the job.
LEMMA WhoMovesRow ==
    ASSUME TInv, [Next]_vars, NEW j \in Jobs, job'[j] # job[j]
    PROVE  \/ Submit(j)
           \/ Cancel(j) /\ job'[j] = AfterCancel(job[j], "REQUESTED_BY_PRINCIPAL")
           \/ \E w \in Workers : Work(w) /\ Driving(w) /\ worker[w].msg.job = j
<1>1. job \in [Jobs -> JobRecord]
  BY DEF TInv, JobOK
<1>2. ASSUME NEW i \in Jobs, NEW b, Becomes(i, b) PROVE i = j
  BY <1>1, <1>2 DEF Becomes
<1>3. ASSUME NEW i \in Jobs, Submit(i) PROVE i = j
  BY <1>2, <1>3 DEF Submit
<1>4. ASSUME NEW i \in Jobs, Cancel(i)
      PROVE  i = j /\ job'[j] = AfterCancel(job[j], "REQUESTED_BY_PRINCIPAL")
  BY <1>1, <1>2, <1>4 DEF Cancel, Becomes
<1>5. ASSUME NEW w \in Workers,
             \/ DispatchRow(w) \/ StartRow(w) \/ SettleRow(w) \/ PromoteRow(w) \/ Expire(w)
             \/ Resume(w) \/ Clarify(w) \/ Fail(w) \/ Stop(w)
      PROVE  Work(w) /\ Driving(w) /\ worker[w].msg.job = j
  <2>1. Work(w) /\ Driving(w)
    BY <1>5 DEF Work, DispatchRow, StartRow, SettleRow, PromoteRow, Move, Expire, Resume,
                Clarify, Fail, Stop, Driving
  <2>2. \E b : Becomes(worker[w].msg.job, b)
    BY <1>5 DEF DispatchRow, StartRow, SettleRow, PromoteRow, Move, Expire, Resume,
                Clarify, Fail, Stop
  <2>3. worker[w].msg.job \in Jobs
    BY <2>1, BusyWorker DEF Driving
  <2> QED BY <1>2, <2>1, <2>2, <2>3
<1>6. UNCHANGED vars => FALSE
  BY DEF vars
<1> QED BY <1>3, <1>4, <1>5, <1>6, RowsElsewhere DEF Next, Work

\* Every step of the system keeps the places fitting.
LEMMA NextPlacesFit ==
    ASSUME TInv, OneDriver, RowsFit, NamesFit, PlacesFit, [Next]_vars
    PROVE  PlacesFit'
<1> SUFFICES ASSUME NEW v \in Workers, Driving(v)', worker'[v].msg.job \in Plain
             PROVE  Fit(v)'
  BY DEF PlacesFit
<1> DEFINE j == worker[v].msg.job
<1>1. /\ worker[v].pc # "idle" /\ worker'[v].msg = worker[v].msg
      /\ j \in Jobs /\ j \in Plain /\ worker[v] \in Invocation
  BY WhoHolds, BusyWorker DEF Driving, Takes
<1>2. Terminal(job[j]) => Fit(v)'
  BY <1>1, OverStays DEF Fit, Terminal
<1>3. CASE Work(v) /\ Driving(v)
  <2>1. worker[v].pc \notin {"release", "giveback"}
    <3>1. worker[v].pc \in {"release", "giveback"} => Release(v)
      BY <1>3 DEF Work, Claim, DispatchRow, StartRow, SettleRow, PromoteRow, Move,
                  ReadExpiry, Expire, Resume, RecordAnswer, Boundary, Begin, Execute, Clarify,
                  RecordCheckpoint, RecordFailure, Requeue, Fail, Stop
    <3>2. Release(v) => worker'[v] = Idle
      BY DEF Release, TInv, WorkersOK
    <3> QED BY <3>1, <3>2 DEF Driving, Idle
  <2>2. Terminal(job'[j]) \/ GoesOn(v)
    BY <1>1, <1>3, <2>1, DriverSteps
  <2> QED BY <1>1, <2>2 DEF GoesOn, Fit, Terminal
<1>4. CASE Work(v) /\ ~Driving(v)
  <2>1. Claim(v)
    BY <1>1, <1>4 DEF Driving, Work, DispatchRow, StartRow, SettleRow, PromoteRow, Move,
                      ReadExpiry, Expire, Resume, RecordAnswer, Boundary, Begin, Execute,
                      Clarify, RecordCheckpoint, RecordFailure, Requeue, Fail, Stop, Release
  <2> QED BY <1>1, <2>1, ClaimBegins DEF Driving
<1>5. ~Receive(v) /\ ~Crash(v)
  <2>1. ~Receive(v)
    BY <1>1 DEF Receive
  <2>2. Crash(v) => worker'[v] = Idle
    BY DEF Crash, TInv, WorkersOK
  <2> QED BY <2>1, <2>2 DEF Driving, Idle
<1>6. ASSUME Cancel(j), ~Terminal(job[j])
      PROVE  \/ Terminal(job'[j])
             \/ job'[j].state = "RUNNING" /\ job[j].state = "RUNNING"
                /\ job'[j].cancel # None
  <2>1. job'[j] = AfterCancel(job[j], "REQUESTED_BY_PRINCIPAL")
    BY <1>1, <1>6 DEF Cancel, Becomes, TInv, JobOK
  <2>2. CanCancel(job[j]) /\ job[j] \in JobRecord
    BY <1>1, <1>6 DEF Cancel, TInv, JobOK
  <2> QED BY <2>1, <2>2 DEF AfterCancel, CanCancel, Live, LiveStates, IdleStates, Terminal,
                            TerminalStates, JobRecord, None
<1>7. CASE worker'[v] = worker[v] /\ ~Work(v) /\ ~Terminal(job[j])
  <2>1. Driving(v) /\ Fit(v)
    BY <1>1, <1>7 DEF Driving, PlacesFit
  <2>2. CASE job'[j] = job[j]
    BY <1>7, <2>1, <2>2 DEF Fit, Terminal
  <2>3. ~Submit(j)
    BY <1>1 DEF Submit, CanAccept, NamesFit, Rightful
  <2>4. ~\E w \in Workers : Work(w) /\ Driving(w) /\ worker[w].msg.job = j
    BY <1>7, <2>1, OneAtWork DEF Row
  <2>5. CASE Cancel(j)
    BY <1>6, <1>7, <2>1, <2>5 DEF Fit, Terminal, TerminalStates
  <2> QED BY <1>1, <2>2, <2>3, <2>4, <2>5, WhoMovesRow
<1>8. ASSUME NEW i \in Jobs, Cancel(i), v \in Exposed(i), worker'[v] = Overtaken(v),
             ~Terminal(job[j])
      PROVE  Fit(v)'
  <2>1. i = j /\ worker[v].pc # "claim"
    BY <1>8 DEF Exposed, Overtaken, Driving, Idle
  <2>2. Driving(v) /\ Fit(v)
    BY <1>1, <2>1 DEF Driving, PlacesFit
  <2>3. worker[v].pc # "expire"
    BY <1>8, <2>2 DEF Fit
  <2>4. \/ worker[v].pc = "execute" /\ worker'[v].pc = "failstep"
        \/ worker'[v].pc = "giveback"
    BY <1>1, <1>8, <2>1, <2>3 DEF Overtaken, Invocation
  <2> QED BY <1>6, <1>8, <2>1, <2>2, <2>4, <1>1 DEF Fit, Terminal, TerminalStates
<1>9. worker'[v] # Idle
  BY DEF Driving, Idle
<1> QED BY <1>1, <1>2, <1>3, <1>4, <1>5, <1>7, <1>8, <1>9, WhoMoves

-----------------------------------------------------------------------------
(* What deliveries cost.                                                    *)

\* What a job's deliveries may have been lost to: failures, and one request to stop it.
Cost(j) == Failures + (IF job[j].cancel # None THEN 1 ELSE 0)

\* Costs only grow, with each failure and with the request to stop the job.
LEMMA CostGrows ==
    ASSUME TInv, [Next]_vars, NEW j \in Jobs
    PROVE  /\ Cost(j) \in Nat /\ Cost(j)' \in Nat /\ Cost(j) <= Cost(j)'
           /\ Fault \/ Outage => Cost(j)' > Cost(j)
           /\ Cancel(j) /\ job[j] # AfterCancel(job[j], "REQUESTED_BY_PRINCIPAL") =>
                 Cost(j)' > Cost(j) \/ Terminal(job'[j])
<1>1. Failures \in Nat /\ Failures' \in Nat /\ Failures <= Failures'
  BY PaidByFailures
<1>2. job[j].cancel # None => job'[j].cancel # None
  BY RowSteps
<1>3. Fault \/ Outage => Failures' > Failures
  BY <1>1, FailureCounts
<1>4. ASSUME Cancel(j), job[j] # AfterCancel(job[j], "REQUESTED_BY_PRINCIPAL"),
             ~Terminal(job'[j])
      PROVE  job[j].cancel = None /\ job'[j].cancel # None
  <2>1. job'[j] = AfterCancel(job[j], "REQUESTED_BY_PRINCIPAL") /\ job[j] \in JobRecord
    BY <1>4 DEF Cancel, Becomes, TInv, JobOK
  <2> QED BY <1>4, <2>1 DEF AfterCancel, JobRecord, Terminal, TerminalStates, None
<1>5. /\ Cost(j) = IF job[j].cancel # None THEN Failures + 1 ELSE Failures
      /\ Cost(j)' = IF job'[j].cancel # None THEN Failures' + 1 ELSE Failures'
  <2>1. \A n \in Nat : n + 0 = n
    OBVIOUS
  <2>2. /\ job[j].cancel # None => Cost(j) = Failures + 1
        /\ job[j].cancel = None => Cost(j) = Failures + 0
        /\ job'[j].cancel # None => Cost(j)' = Failures' + 1
        /\ job'[j].cancel = None => Cost(j)' = Failures' + 0
    BY Zenon DEF Cost
  <2> QED BY <1>1, <2>1, <2>2
<1>6. ASSUME NEW f \in Nat, NEW g \in Nat, f <= g, NEW a \in BOOLEAN, NEW b \in BOOLEAN,
             a => b, NEW c, NEW d, c = IF a THEN f + 1 ELSE f, d = IF b THEN g + 1 ELSE g
      PROVE  /\ c \in Nat /\ d \in Nat /\ c <= d
             /\ g > f => d > c
             /\ ~a /\ b => d > c
  BY <1>6
<1>7. /\ Cost(j) \in Nat /\ Cost(j)' \in Nat /\ Cost(j) <= Cost(j)'
      /\ Failures' > Failures => Cost(j)' > Cost(j)
      /\ job[j].cancel = None /\ job'[j].cancel # None => Cost(j)' > Cost(j)
  BY <1>1, <1>2, <1>5, <1>6
<1> QED BY <1>3, <1>4, <1>7

\* A driver whose delivery has not met its cost goes on so, or meets it.
LEMMA UncountedGoesOn ==
    ASSUME TInv, RowsFit, NamesFit, PlacesFit, [Next]_vars,
           NEW w \in Workers, Driving(w), ~Counted(w),
           NEW j \in Plain, worker[w].msg.job = j, ~Terminal(job'[j])
    PROVE  \/ Cost(j)' > Cost(j)
           \/ worker'[w].msg = worker[w].msg /\ Driving(w)' /\ ~Counted(w)'
<1>1. worker[w].pc \notin {"idle", "claim", "release", "giveback"} /\ j \in Jobs
  BY DEF Driving, Counted, Plain
<1>2. CASE worker'[w] = worker[w]
  BY <1>2 DEF Driving, Counted
<1>3. CASE Work(w)
  <2>1. GoesOn(w)
    BY <1>1, <1>3, DriverSteps
  <2> QED BY <1>1, <2>1, CostGrows DEF GoesOn
<1>4. CASE Crash(w)
  BY <1>1, <1>4, CostGrows DEF Crash
<1>5. ASSUME NEW i \in Jobs, Cancel(i), w \in Exposed(i), worker'[w] # worker[w]
      PROVE  Cost(j)' > Cost(j)
  <2> DEFINE C == IF AfterCancel(job[i], "REQUESTED_BY_PRINCIPAL") = job[i]
                  THEN {} ELSE Exposed(i)
  <2>1. i = j
    BY <1>5 DEF Exposed
  <2>2. \E hit \in SUBSET C :
            worker' = [u \in Workers |-> IF u \in hit THEN Overtaken(u) ELSE worker[u]]
    BY <1>5 DEF Cancel
  <2>3. C # {}
    <3> HIDE DEF C
    <3> QED BY <1>5, <2>2
  <2> QED BY <1>5, <2>1, <2>3, CostGrows
<1> QED BY <1>1, <1>2, <1>3, <1>4, <1>5, WhoMoves DEF Receive

\* Somebody drives the job, and its delivery has not met its cost.
Loose(j) == \E w \in Workers : worker[w].msg.job = j /\ Driving(w) /\ ~Counted(w)
\* Each message of plain work has been delivered no more often than that was paid for; a
\* delivery under way is one more.
DeliveriesPaid == \A j \in Plain : Active(j) =>
    /\ \A m \in queue : m.job = j =>
          m.n <= Cost(j) + (IF m.when = "HIDDEN" /\ Loose(j) THEN 1 ELSE 0)
    /\ \A w \in Workers : worker[w].pc # "idle" /\ worker[w].msg.job = j =>
          worker[w].msg.n <= Cost(j) + (IF Driving(w) /\ Counted(w) THEN 0 ELSE 1)

\* A worker that finds its unfinished job free begins to drive it.
LEMMA ClaimSucceeds ==
    ASSUME TInv, RowsFit, NamesFit, NEW v \in Workers, Claim(v),
           worker[v].msg.job \in Plain, ~Terminal(Row(v)), Free(worker[v].msg.job)
    PROVE  LET j == worker[v].msg.job IN
           /\ lease'[j] = v /\ worker'[v].msg = worker[v].msg
           /\ Driving(v)' /\ Fit(v)' /\ ~Counted(v)'
<1> DEFINE j == worker[v].msg.job
<1>1. worker \in [Workers -> Invocation] /\ worker[v] \in Invocation
  BY DEF TInv, WorkersOK
<1>2. PICK pc \in {Entry(j, worker[v].msg.reason), "stop"} :
          worker'[v] = [worker[v] EXCEPT !.pc = pc, !.asked = job[j].wait]
  BY DEF Claim, Row
<1>3. pc # "idle"
  BY <1>2 DEF Entry, WaitingEntry
<1>4. worker'[v].pc # "idle"
  BY <1>1, <1>2, <1>3 DEF Invocation
<1> QED BY <1>4, ClaimBegins

\* Every step of the system keeps the deliveries paid for.
LEMMA NextDeliveriesPaid ==
    ASSUME TInv, OneDriver, RowsFit, NamesFit, PlacesFit, DeliveriesPaid, [Next]_vars
    PROVE  DeliveriesPaid'
<1> SUFFICES ASSUME NEW j \in Plain, Active(j)'
             PROVE  /\ \A m \in queue' : m.job = j =>
                          m.n <= Cost(j)' + (IF m.when = "HIDDEN" /\ Loose(j)' THEN 1 ELSE 0)
                    /\ \A w \in Workers : worker'[w].pc # "idle" /\ worker'[w].msg.job = j =>
                          worker'[w].msg.n
                             <= Cost(j)' + (IF Driving(w)' /\ Counted(w)' THEN 0 ELSE 1)
  BY DEF DeliveriesPaid
<1>1. /\ j \in Jobs /\ ~Terminal(job'[j])
      /\ Cost(j) \in Nat /\ Cost(j)' \in Nat /\ Cost(j) <= Cost(j)'
  BY CostGrows DEF Plain, Active, Terminal, TerminalStates
<1>2. /\ \A m \in queue : m.job = j => Active(j) /\ m.n \in Nat
      /\ \A w \in Workers : worker[w].pc # "idle" /\ worker[w].msg.job = j =>
            Active(j) /\ worker[w].msg.n \in Nat
  <2>1. job[j].state \in {"ABSENT", "WAITING_FOR_USER"} \/ Active(j)
    BY <1>1, RowSteps
  <2>2. job[j].state # "WAITING_FOR_USER"
    BY <1>1 DEF RowsFit, Plain
  <2>3. \A m \in queue : m.n \in Nat
    BY BoundsAssumption DEF TInv, QueueOK, Deliverable, Message
  <2>4. \A w \in Workers : worker[w].pc # "idle" => worker[w].msg.n \in Nat
    BY BusyWorker, BoundsAssumption DEF Message
  <2> QED BY <2>1, <2>2, <2>3, <2>4 DEF NamesFit, Rightful
<1>3. /\ \A m \in queue : m.job = j =>
            m.n <= Cost(j) + (IF m.when = "HIDDEN" /\ Loose(j) THEN 1 ELSE 0)
      /\ \A w \in Workers : worker[w].pc # "idle" /\ worker[w].msg.job = j =>
            worker[w].msg.n <= Cost(j) + (IF Driving(w) /\ Counted(w) THEN 0 ELSE 1)
  BY <1>2 DEF DeliveriesPaid
<1>4. Active(j) => ~Terminal(job[j])
  BY DEF Active, Terminal, TerminalStates
<1>5. Loose(j) => Loose(j)' \/ Cost(j)' > Cost(j)
  BY <1>1, UncountedGoesOn DEF Loose
<1>6. Free(j) /\ Active(j) => ~Loose(j)
  BY <1>1, <1>4, LeaseValues DEF Loose, OneDriver, Free
<1>7. ASSUME NEW m \in queue', m.job = j
      PROVE  m.n <= Cost(j)' + (IF m.when = "HIDDEN" /\ Loose(j)' THEN 1 ELSE 0)
  <2>1. CASE m \in queue
    <3>1. m.n \in Nat /\ m.n <= Cost(j) + (IF m.when = "HIDDEN" /\ Loose(j) THEN 1 ELSE 0)
      BY <1>2, <1>3, <1>7, <2>1
    <3> QED BY <1>1, <1>5, <3>1
  <2>2. CASE Fresh(m)
    BY <1>1, <2>2 DEF Fresh
  <2>3. CASE Reappeared(m)
    <3>1. PICK n \in queue : n.job = j /\ m.n = n.n /\ (n.when = "HIDDEN" => Free(j))
      BY <1>7, <2>3 DEF Reappeared
    <3>2. n.n \in Nat /\ n.n <= Cost(j)
      BY <1>1, <1>2, <1>3, <1>6, <3>1
    <3> QED BY <1>1, <3>1, <3>2
  <2>4. ASSUME NEW w \in Workers, Fails(w, m)
        PROVE  m.n <= Cost(j)' + (IF m.when = "HIDDEN" /\ Loose(j)' THEN 1 ELSE 0)
    <3>1. /\ worker[w].pc # "idle" /\ worker[w].msg.job = j
          /\ m.n = worker[w].msg.n /\ m.n \in Nat /\ Active(j)
          /\ m.n <= Cost(j) + (IF Driving(w) /\ Counted(w) THEN 0 ELSE 1)
      BY <1>2, <1>3, <1>7, <2>4 DEF Fails
    <3>2. CASE Cost(j)' > Cost(j)
      BY <1>1, <3>1, <3>2
    <3>3. CASE Release(w) /\ worker[w].pc = "giveback"
      BY <1>1, <3>1, <3>3 DEF Driving, Counted
    <3>4. Crash(w) => Cost(j)' > Cost(j)
      BY <1>1, CostGrows DEF Crash
    <3>5. ASSUME m.when = "HIDDEN", NEW v \in Workers, Claim(v), worker[v].msg.job = j, Free(j)
          PROVE  m.n <= Cost(j)' + (IF m.when = "HIDDEN" /\ Loose(j)' THEN 1 ELSE 0)
      <4>1. Loose(j)'
        BY <1>4, <3>1, <3>5, ClaimSucceeds DEF Loose, Row
      <4> QED BY <1>1, <3>1, <3>5, <4>1
    <3>6. Cancel(j) /\ job[j] # AfterCancel(job[j], "REQUESTED_BY_PRINCIPAL")
             => Cost(j)' > Cost(j)
      BY <1>1, CostGrows
    <3> QED BY <1>7, <2>4, <3>2, <3>3, <3>4, <3>5, <3>6 DEF Fails
  <2> QED BY <2>1, <2>2, <2>3, <2>4, WhatIsQueued
<1>8. ASSUME NEW w \in Workers, worker'[w].pc # "idle", worker'[w].msg.job = j
      PROVE  worker'[w].msg.n <= Cost(j)' + (IF Driving(w)' /\ Counted(w)' THEN 0 ELSE 1)
  <2>1. CASE Takes(w)
    <3>1. PICK m \in queue : /\ m.when = "NOW" /\ worker'[w].pc = "claim"
                             /\ m.job = j /\ worker'[w].msg.n = m.n + 1
      BY <1>8, <2>1 DEF Takes
    <3>2. m.n \in Nat /\ m.n <= Cost(j)
      BY <1>1, <1>2, <1>3, <3>1
    <3> QED BY <1>1, <3>1, <3>2 DEF Driving
  <2>2. CASE worker[w].pc # "idle" /\ worker'[w].msg = worker[w].msg
    <3>1. /\ worker[w].msg.job = j /\ worker[w].msg.n \in Nat /\ Active(j)
          /\ worker[w].msg.n <= Cost(j) + (IF Driving(w) /\ Counted(w) THEN 0 ELSE 1)
      BY <1>2, <1>3, <1>8, <2>2
    <3>2. CASE Driving(w) /\ Counted(w)
      BY <1>1, <2>2, <3>1, <3>2
    <3>3. CASE Driving(w) /\ ~Counted(w)
      BY <1>1, <2>2, <3>1, <3>3, UncountedGoesOn
    <3>4. CASE ~Driving(w)
      <4>1. CASE worker'[w] = worker[w] \/ worker'[w] = Idle
        BY <1>1, <1>8, <2>2, <3>1, <3>4, <4>1 DEF Driving, Idle
      <4>2. CASE Work(w)
        <5>1. Claim(w)
          BY <2>2, <3>4, <4>2
             DEF Driving, Work, DispatchRow, StartRow, SettleRow, PromoteRow, Move,
                 ReadExpiry, Expire, Resume, RecordAnswer, Boundary, Begin, Execute, Clarify,
                 RecordCheckpoint, RecordFailure, Requeue, Fail, Stop, Release
        <5>2. ~Counted(w)'
          BY <1>8, <3>1, <5>1, ClaimBegins
        <5> QED BY <1>1, <2>2, <3>1, <5>2
      <4>3. Crash(w) => worker'[w] = Idle
        BY DEF Crash, TInv, WorkersOK
      <4>4. ASSUME NEW i \in Jobs, w \in Exposed(i), worker'[w] = Overtaken(w)
            PROVE  worker'[w] = Idle
        BY <2>2, <3>4, <4>4 DEF Overtaken, Driving
      <4> QED BY <2>2, <4>1, <4>2, <4>3, <4>4, WhoMoves DEF Receive
    <3> QED BY <3>2, <3>3, <3>4
  <2> QED BY <1>8, <2>1, <2>2, WhoHolds
<1> QED BY <1>7, <1>8

-----------------------------------------------------------------------------
(* Where messages go.                                                       *)

\* A message that leaves the queue was received by a worker that now claims its job,
\* refused, or comes back deliverable; while its sender writes, a delayed one does not.
LEMMA WhatLeaves ==
    ASSUME TInv, [Next]_vars, NEW m \in queue, m \notin queue'
    PROVE  \/ /\ m.when = "NOW"
              /\ \/ m.reason = "RESUME"
                 \/ \E w \in Workers : worker'[w].pc = "claim" /\ worker'[w].msg.job = m.job
           \/ /\ \E n \in queue' : n.job = m.job
              /\ m.when = "LATER" =>
                    \A w \in Workers : ~(worker[w].msg.job = m.job /\ worker[w].pc = "release")
<1>1. m \in Message
  BY DEF TInv, QueueOK, Deliverable
<1>2. CASE MessageReappears
  <2>1. PICK n \in queue :
            /\ \/ /\ n.when = "LATER"
                  /\ \A w \in Workers :
                         ~(worker[w].msg.job = n.job /\ worker[w].pc = "release")
               \/ n.when = "HIDDEN"
            /\ queue' = (queue \ {n}) \cup {[n EXCEPT !.when = "NOW"]}
    BY <1>2 DEF MessageReappears
  <2>2. m = n /\ [m EXCEPT !.when = "NOW"] \in queue'
    BY <2>1
  <2>3. [m EXCEPT !.when = "NOW"].job = m.job
    BY <1>1 DEF Message
  <2> QED BY <2>1, <2>2, <2>3
<1>3. ASSUME NEW v \in Workers, Receive(v)
      PROVE  /\ m.when = "NOW"
             /\ \/ m.reason = "RESUME"
                \/ \E w \in Workers : worker'[w].pc = "claim" /\ worker'[w].msg.job = m.job
  <2>1. PICK n \in queue :
            /\ n.when = "NOW"
            /\ queue' = queue \ {n} \/ queue' = queue
            /\ IF /\ n.reason \in CommandTypes
                  /\ Disposition(n.job, n.reason, n.wait) = "REFUSE"
               THEN UNCHANGED worker
               ELSE worker' = [worker EXCEPT ![v] =
                       [Idle EXCEPT !.pc = "claim", !.msg = [n EXCEPT !.n = @ + 1]]]
    BY <1>3 DEF Receive
  <2>2. n = m
    BY <2>1
  <2>3. CASE m.reason \in CommandTypes /\ Disposition(m.job, m.reason, m.wait) = "REFUSE"
    BY <2>1, <2>2, <2>3 DEF Disposition, CommandTypes
  <2>4. CASE worker' = [worker EXCEPT ![v] =
                 [Idle EXCEPT !.pc = "claim", !.msg = [m EXCEPT !.n = @ + 1]]]
    <3>1. worker'[v].pc = "claim" /\ worker'[v].msg = [m EXCEPT !.n = @ + 1]
      BY <2>4 DEF Idle, TInv, WorkersOK
    <3> QED BY <1>1, <2>1, <2>2, <3>1 DEF Message
  <2> QED BY <2>1, <2>2, <2>3, <2>4
<1>4. ASSUME NEW w \in Workers, Work(w) \/ Crash(w) PROVE queue \subseteq queue'
  <2>1. CASE Claim(w)
    <3>1. UNCHANGED queue \/ \E hit : queue' = queue \cup GivenBack(hit, w)
      BY <2>1 DEF Claim
    <3> QED BY <3>1
  <2>2. CASE ~Claim(w)
    BY <1>4, <2>2
       DEF Crash, Work, DispatchRow, StartRow, SettleRow, PromoteRow, Move, ReadExpiry, Expire,
           Resume, RecordAnswer, Boundary, Begin, Execute, Clarify, RecordCheckpoint,
           RecordFailure, Requeue, Fail, Stop, Release
  <2> QED BY <2>1, <2>2
<1>5. ASSUME NEW j \in Jobs, \/ Submit(j) \/ Cancel(j) \/ Answer(j) \/ QuestionFallsDue(j)
                             \/ LeaseLapses(j) \/ SweepTimer(j) \/ SweepLease(j)
      PROVE  queue \subseteq queue'
  <2>1. CASE Cancel(j)
    <3>1. \E hit : queue' = queue \cup GivenBack(hit, lease'[j])
      BY <2>1 DEF Cancel
    <3> QED BY <3>1
  <2> QED BY <1>5, <2>1 DEF Submit, Answer, QuestionFallsDue, LeaseLapses, SweepTimer,
                            SweepLease, Wakes
<1>6. ASSUME NEW i \in DOMAIN commands, Ring(i) \/ SweepCommand(i) \/ DispatcherDies(i)
      PROVE  queue \subseteq queue'
  BY <1>6 DEF Ring, SweepCommand, DispatcherDies, Dispatch
<1>7. UNCHANGED vars => queue \subseteq queue'
  BY DEF vars
<1> QED BY <1>2, <1>3, <1>4, <1>5, <1>6, <1>7 DEF Next

\* A worker that consumes its delivery of plain work that goes on has sent the next message.
SentOn == \A v \in Workers :
    worker[v].pc = "release" /\ worker[v].msg.job \in Plain /\ Active(worker[v].msg.job) =>
        \E m \in queue : m.job = worker[v].msg.job /\ m.when = "LATER"

\* Every step of the system keeps the next message of such a worker.
LEMMA NextSentOn ==
    ASSUME TInv, OneDriver, RowsFit, NamesFit, PlacesFit, SentOn, [Next]_vars
    PROVE  SentOn'
<1> SUFFICES ASSUME NEW v \in Workers, NEW j \in Plain, worker'[v].pc = "release",
                    worker'[v].msg.job = j, Active(j)'
             PROVE  \E m \in queue' : m.job = j /\ m.when = "LATER"
  BY DEF SentOn, Active
<1>1. /\ worker[v].pc # "idle" /\ worker'[v].msg = worker[v].msg
      /\ worker[v].msg.job = j /\ j \in Jobs /\ worker[v] \in Invocation
  BY WhoHolds, BusyWorker DEF Takes
<1>2. Active(j) /\ ~Terminal(job'[j]) /\ ~Terminal(job[j])
  <2>1. job[j].state # "ABSENT" /\ job[j].state # "WAITING_FOR_USER"
    BY <1>1 DEF NamesFit, Rightful, RowsFit, Plain
  <2> QED BY <1>1, <2>1, RowSteps DEF Active, Terminal, TerminalStates
<1>3. CASE worker'[v] = worker[v]
  <2>1. PICK m \in queue : m.job = j /\ m.when = "LATER"
    BY <1>1, <1>2, <1>3 DEF SentOn
  <2>2. m \in queue'
    BY <1>1, <1>3, <2>1, WhatLeaves
  <2> QED BY <2>1, <2>2
<1>4. CASE Work(v) /\ Driving(v)
  <2>1. worker[v].pc \notin {"release", "giveback"}
    <3>1. worker[v].pc \in {"release", "giveback"} => Release(v)
      BY <1>4 DEF Work, Claim, DispatchRow, StartRow, SettleRow, PromoteRow, Move,
                  ReadExpiry, Expire, Resume, RecordAnswer, Boundary, Begin, Execute, Clarify,
                  RecordCheckpoint, RecordFailure, Requeue, Fail, Stop
    <3>2. Release(v) => worker'[v] = Idle
      BY DEF Release, TInv, WorkersOK
    <3> QED BY <3>1, <3>2 DEF Idle
  <2> QED BY <1>1, <1>2, <1>4, <2>1, DriverSteps DEF GoesOn
<1>5. ~(Work(v) /\ ~Driving(v))
  <2>1. ASSUME Work(v), ~Driving(v) PROVE Claim(v)
    BY <1>1, <2>1 DEF Driving, Work, DispatchRow, StartRow, SettleRow, PromoteRow, Move,
                      ReadExpiry, Expire, Resume, RecordAnswer, Boundary, Begin, Execute,
                      Clarify, RecordCheckpoint, RecordFailure, Requeue, Fail, Stop, Release
  <2> QED BY <1>1, <2>1, ClaimBegins DEF Counted
<1>6. worker'[v] # Idle /\ ~Crash(v)
  BY DEF Idle, Crash, TInv, WorkersOK
<1>7. ASSUME NEW i \in Jobs, v \in Exposed(i), worker'[v] = Overtaken(v) PROVE FALSE
  <2>1. worker[v].pc # "claim"
    BY <1>7 DEF Overtaken, Idle
  <2>2. Fit(v)
    BY <1>1, <2>1 DEF Driving, PlacesFit
  <2>3. worker[v].pc # "expire"
    BY <1>1, <1>2, <2>2 DEF Fit
  <2> QED BY <1>1, <1>7, <2>1, <2>3 DEF Overtaken, Invocation
<1> QED BY <1>1, <1>3, <1>4, <1>5, <1>6, <1>7, WhoMoves DEF Receive

-----------------------------------------------------------------------------
(* What looks at a job again.                                               *)

\* A lease is given up by the end of its job, or by the worker whose delivery is over.
LEMMA WhoFrees ==
    ASSUME TInv, [Next]_vars, NEW j \in Jobs, lease[j] # None, lease'[j] = None
    PROVE  \/ Terminal(job'[j])
           \/ \E w \in Workers : Release(w) /\ worker[w].msg.job = j
<1>1. job \in [Jobs -> JobRecord]
      /\ lease \in [Jobs -> Workers \cup {None, "ORPHAN", "LAPSED"}]
  BY DEF TInv, JobOK, LeaseOK
<1>2. lease' # lease
  OBVIOUS
<1>3. ASSUME NEW i \in Jobs, NEW b, Becomes(i, b) PROVE Terminal(job'[j])
  BY <1>1, <1>3 DEF Becomes
<1>4. ASSUME NEW i \in Jobs, Submit(i) \/ Cancel(i) PROVE Terminal(job'[j])
  BY <1>3, <1>4 DEF Submit, Cancel
<1>5. ASSUME NEW w \in Workers,
             \/ DispatchRow(w) \/ StartRow(w) \/ SettleRow(w) \/ PromoteRow(w) \/ Expire(w)
             \/ Resume(w) \/ Clarify(w) \/ Fail(w) \/ Stop(w)
      PROVE  Terminal(job'[j])
  <2>1. \E b : Becomes(worker[w].msg.job, b)
    BY <1>2, <1>5 DEF DispatchRow, StartRow, SettleRow, PromoteRow, Move, Expire, Resume,
                      Clarify, Fail, Stop
  <2>2. worker[w].msg.job \in Jobs
    BY <1>5, BusyWorker DEF DispatchRow, StartRow, SettleRow, PromoteRow, Move, Expire, Resume,
                            Clarify, Fail, Stop
  <2> QED BY <1>3, <2>1, <2>2
<1>6. ASSUME NEW w \in Workers, Release(w) PROVE worker[w].msg.job = j
  BY <1>1, <1>6 DEF Release
<1>7. ASSUME NEW w \in Workers, Claim(w) PROVE FALSE
  <2>1. lease' = [lease EXCEPT ![worker[w].msg.job] = w]
    BY <1>2, <1>7 DEF Claim
  <2> QED BY <1>1, <2>1, LeaseValues
<1>8. ASSUME NEW w \in Workers, Crash(w) PROVE FALSE
  BY <1>1, <1>2, <1>8 DEF Crash, None
<1>9. ASSUME NEW i \in Jobs, LeaseLapses(i) PROVE FALSE
  BY <1>1, <1>9 DEF LeaseLapses, None
<1>10. ASSUME NEW w \in Workers,
              \/ Receive(w) \/ ReadExpiry(w) \/ RecordAnswer(w) \/ Boundary(w) \/ Begin(w)
              \/ Execute(w) \/ RecordCheckpoint(w) \/ RecordFailure(w) \/ Requeue(w)
       PROVE  FALSE
  BY <1>2, <1>10 DEF Receive, ReadExpiry, RecordAnswer, Boundary, Begin, Execute,
                     RecordCheckpoint, RecordFailure, Requeue
<1>11. ASSUME NEW i \in Jobs,
              Answer(i) \/ QuestionFallsDue(i) \/ SweepTimer(i) \/ SweepLease(i)
       PROVE  FALSE
  BY <1>2, <1>11 DEF Answer, QuestionFallsDue, SweepTimer, SweepLease
<1>12. ASSUME NEW i \in DOMAIN commands, Ring(i) \/ SweepCommand(i) \/ DispatcherDies(i)
       PROVE  FALSE
  BY <1>2, <1>12 DEF Ring, SweepCommand, DispatcherDies, Dispatch
<1>13. ~MessageReappears /\ ~UNCHANGED vars
  BY <1>2 DEF MessageReappears, vars
<1> QED BY <1>4, <1>5, <1>6, <1>7, <1>8, <1>9, <1>10, <1>11, <1>12, <1>13 DEF Next, Work

\* A claim that overtakes another worker's has got the lease of the job of both.
LEMMA ClaimOvertakes ==
    ASSUME TInv, NEW w \in Workers, Claim(w),
           NEW v \in Workers, v # w, worker'[v] # worker[v]
    PROVE  /\ lease' = [lease EXCEPT ![worker[w].msg.job] = w]
           /\ worker[v].msg.job = worker[w].msg.job
<1> DEFINE j == worker[w].msg.job
<1>1. worker' # [worker EXCEPT ![w] = Idle]
  BY DEF TInv, WorkersOK
<1>2. PICK hit \in SUBSET {u \in Exposed(j) \ {w} : worker[u].pc = "claim"} : \E pc :
         worker' = [u \in Workers |->
             CASE u = w -> [worker[w] EXCEPT !.pc = pc, !.asked = job[j].wait]
               [] u \in hit -> Overtaken(u)
               [] OTHER -> worker[u]]
  BY <1>1 DEF Claim, TInv, WorkersOK
<1>3. v \in hit
  BY <1>2
<1>4. worker[v].msg.job = j
  BY <1>3 DEF Exposed
<1> QED BY <1>1, <1>4 DEF Claim

\* A worker that has not claimed its job yet goes on to, or dies, or loses it to a worker
\* that got the lease, or to a request to stop; its message is then returned.
LEMMA ClaimerLeaves ==
    ASSUME TInv, [Next]_vars, NEW w \in Workers, worker[w].pc = "claim",
           NEW j \in Jobs, worker[w].msg.job = j, ~Terminal(job[j])
    PROVE  \/ worker'[w] = worker[w]
           \/ Claim(w)
           \/ \E v \in Workers : lease'[j] = v
           \/ Crash(w)
           \/ /\ Cancel(j) /\ job[j] # AfterCancel(job[j], "REQUESTED_BY_PRINCIPAL")
              /\ Returned(worker[w].msg, lease'[j]) \subseteq queue'
<1>1. /\ worker \in [Workers -> Invocation]
      /\ lease \in [Jobs -> Workers \cup {None, "ORPHAN", "LAPSED"}]
  BY DEF TInv, WorkersOK, LeaseOK
<1>2. ASSUME NEW v \in Workers, v # w, Claim(v), worker'[w] # worker[w]
      PROVE  lease'[j] = v
  BY <1>1, <1>2, ClaimOvertakes
<1>3. ASSUME NEW i \in Jobs, Cancel(i), worker'[w] # worker[w]
      PROVE  /\ i = j /\ job[j] # AfterCancel(job[j], "REQUESTED_BY_PRINCIPAL")
             /\ Returned(worker[w].msg, lease'[j]) \subseteq queue'
  <2> DEFINE C == IF AfterCancel(job[i], "REQUESTED_BY_PRINCIPAL") = job[i]
                  THEN {} ELSE Exposed(i)
  <2>1. PICK hit \in SUBSET C :
            /\ worker' = [u \in Workers |-> IF u \in hit THEN Overtaken(u) ELSE worker[u]]
            /\ queue' = queue \cup GivenBack(hit, lease'[i])
    BY <1>3 DEF Cancel
  <2>2. /\ C \subseteq Exposed(i)
        /\ C # {} => job[i] # AfterCancel(job[i], "REQUESTED_BY_PRINCIPAL")
    OBVIOUS
  <2> HIDE DEF C
  <2>3. w \in hit
    BY <1>3, <2>1
  <2>4. i = j
    BY <2>1, <2>2, <2>3 DEF Exposed
  <2>5. Returned(worker[w].msg, lease'[i]) \subseteq GivenBack(hit, lease'[i])
    BY <2>3 DEF GivenBack
  <2> QED BY <2>1, <2>2, <2>3, <2>4, <2>5
<1>4. Work(w) => Claim(w)
  BY DEF Work, DispatchRow, StartRow, SettleRow, PromoteRow, Move, ReadExpiry, Expire, Resume,
         RecordAnswer, Boundary, Begin, Execute, Clarify, RecordCheckpoint, RecordFailure,
         Requeue, Fail, Stop, Release
<1>5. ~Receive(w)
  BY DEF Receive
<1>6. ASSUME NEW v \in Workers, v # w, Receive(v) \/ Crash(v) \/ (Work(v) /\ ~Claim(v))
      PROVE  worker'[w] = worker[w]
  <2>1. CASE Receive(v) \/ Release(v) \/ Crash(v)
    <3>1. UNCHANGED worker \/ \E a : worker' = [worker EXCEPT ![v] = a]
      BY <2>1 DEF Receive, Release, Crash
    <3> QED BY <1>1, <1>6, <3>1
  <2>2. CASE Work(v) /\ ~Claim(v) /\ ~Release(v)
    <3>1. \/ UNCHANGED worker
          \/ \E pc : Goes(v, pc) \/ Ends(v, pc) \/ (\E why : Breaks(v, pc, why))
          \/ NextStep(v)
      BY <2>2 DEF Work, DispatchRow, StartRow, SettleRow, PromoteRow, Move, ReadExpiry,
                  Expire, Resume, RecordAnswer, Boundary, Begin, Execute, Clarify,
                  RecordCheckpoint, RecordFailure, Requeue, Fail, Stop
    <3> QED BY <1>6, <3>1, OwnStep
  <2> QED BY <1>6, <2>1, <2>2
<1>7. ASSUME NEW i \in Jobs, \/ Submit(i) \/ Answer(i) \/ QuestionFallsDue(i)
                             \/ LeaseLapses(i) \/ SweepTimer(i) \/ SweepLease(i)
      PROVE  UNCHANGED worker
  BY <1>7 DEF Submit, Answer, QuestionFallsDue, LeaseLapses, SweepTimer, SweepLease
<1>8. ASSUME NEW i \in DOMAIN commands, Ring(i) \/ SweepCommand(i) \/ DispatcherDies(i)
      PROVE  UNCHANGED worker
  BY <1>8 DEF Ring, SweepCommand, DispatcherDies, Dispatch
<1>9. MessageReappears \/ UNCHANGED vars => UNCHANGED worker
  BY DEF MessageReappears, vars
<1> QED BY <1>2, <1>3, <1>4, <1>5, <1>6, <1>7, <1>8, <1>9 DEF Next, Work

\* What HasWake says of plain work, as it is kept: a worker counts until it has claimed
\* its job, and then the lease does.
Claimed(j) == \E w \in Workers : worker[w].pc = "claim" /\ worker[w].msg.job = j
Unstarted(j) ==
    /\ job[j].state = "ACCEPTED"
    /\ \E i \in Undispatched : commands[i].job = j /\ commands[i].type = "START"
Awake == \A j \in Plain : Active(j) =>
    \/ lease[j] # None
    \/ \E m \in queue : m.job = j
    \/ Claimed(j)
    \/ Unstarted(j)

\* What a job's deliveries may be lost to is less than the deliveries a message has.
EnoughDeliveries == MaxFaults + MaxOutages + 1 < MaxReceive

\* The bounds of the model bound what deliveries cost.
LEMMA CostBounded ==
    ASSUME TInv, [Next]_vars, NEW j \in Jobs
    PROVE  /\ Cost(j) <= MaxFaults + MaxOutages + 1
           /\ Cost(j)' <= MaxFaults + MaxOutages + 1
<1> DEFINE B == MaxFaults + MaxOutages
<1>1. MaxFaults \in Nat /\ MaxOutages \in Nat /\ SpentOK /\ SpentOK'
  BY BoundsAssumption, NextTInv DEF TInv
<1>2. Failures \in Nat /\ Failures' \in Nat /\ Failures <= B /\ Failures' <= B
  BY <1>1 DEF SpentOK, Failures
<1>3. /\ Cost(j) = Failures + 1 \/ Cost(j) = Failures + 0
      /\ Cost(j)' = Failures' + 1 \/ Cost(j)' = Failures' + 0
  BY Zenon DEF Cost
<1> QED BY <1>1, <1>2, <1>3

\* A delivery that is paid for is not the last: its message comes again.
LEMMA ReturnedIfPaid ==
    ASSUME EnoughDeliveries, NEW m \in Message, m.n <= MaxFaults + MaxOutages + 1, NEW l
    PROVE  \E x \in Returned(m, l) : x.job = m.job
<1> DEFINE x == [m EXCEPT !.when = IF l \in {None, "LAPSED"} THEN "NOW" ELSE "HIDDEN"]
<1>1. m.n < MaxReceive
  BY BoundsAssumption DEF EnoughDeliveries, Message
<1>2. x \in Returned(m, l)
  BY <1>1 DEF Returned
<1>3. x.job = m.job
  BY DEF Message
<1> HIDE DEF x
<1> QED BY <1>2, <1>3

\* The job that was just submitted has a START that no dispatcher saw.
LEMMA SubmittedIsUnstarted ==
    ASSUME TInv, QuestionMatchesJob, RowsFit, NamesFit, [Next]_vars,
           NEW j \in Plain, ~Active(j), Active(j)'
    PROVE  Unstarted(j)'
<1>1. j \in Jobs /\ job[j].state = "ABSENT" /\ job'[j].state = "ACCEPTED"
  BY RowSteps DEF Plain, RowsFit, Active
<1>2. Submit(j)
  <2>1. ~Cancel(j)
    BY <1>1 DEF Cancel, CanCancel, Live, LiveStates, IdleStates
  <2>2. ~\E w \in Workers : Driving(w) /\ worker[w].msg.job = j
    BY <1>1 DEF Driving, NamesFit, Rightful
  <2> QED BY <1>1, <2>1, <2>2, WhoMovesRow
<1>3. CommandsOK /\ commands' = WithCommand(j, "START", NoWait)
  BY <1>2 DEF Submit, TInv
<1>4. ~Stored(j, "START", NoWait)
  BY <1>1 DEF Stored, NamesFit, Rightful
<1>5. PICK i \in DOMAIN commands' : i \notin DOMAIN commands
  BY <1>3, <1>4, CommandAdded
<1>6. commands'[i] = [job |-> j, type |-> "START", wait |-> NoWait, sent |-> FALSE]
  BY <1>3, <1>5, CommandAdded
<1>7. i \in Undispatched'
  BY <1>5, <1>6 DEF Undispatched
<1> QED BY <1>1, <1>6, <1>7 DEF Unstarted

\* The lease of work that goes on is given up only where a message is left for the job.
LEMMA FreedIsQueued ==
    ASSUME TInv, EnoughDeliveries, DeliveriesPaid, SentOn, [Next]_vars,
           NEW j \in Plain, Active(j), Active(j)', lease[j] # None, lease'[j] = None
    PROVE  \E m \in queue' : m.job = j
<1>1. j \in Jobs /\ ~Terminal(job'[j])
  BY DEF Plain, Active, Terminal, TerminalStates
<1>2. PICK w \in Workers : Release(w) /\ worker[w].msg.job = j
  BY <1>1, WhoFrees
<1>3. queue' = queue \cup (IF worker[w].pc = "giveback"
                           THEN Returned(worker[w].msg, lease'[j]) ELSE {})
  BY <1>2 DEF Release
<1>4. CASE worker[w].pc = "release"
  BY <1>2, <1>3, <1>4 DEF SentOn
<1>5. CASE worker[w].pc = "giveback"
  <2>1. worker[w].msg \in Message
    BY <1>5, BusyWorker
  <2>2. worker[w].msg.n <= MaxFaults + MaxOutages + 1
    <3>1. worker[w].msg.n <= Cost(j) + 0
      BY <1>2, <1>5 DEF DeliveriesPaid, Driving, Counted
    <3>2. /\ Cost(j) \in Nat /\ Cost(j) <= MaxFaults + MaxOutages + 1
          /\ worker[w].msg.n \in Nat
      BY <1>1, <2>1, CostGrows, CostBounded, BoundsAssumption DEF Message
    <3> QED BY <3>1, <3>2, BoundsAssumption
  <2> QED BY <1>2, <1>3, <1>5, <2>1, <2>2, ReturnedIfPaid
<1> QED BY <1>2, <1>4, <1>5 DEF Release

\* A message or a claimer of a free job leaves something behind that looks at it.
LEMMA WakeIsHandedOn ==
    ASSUME TInv, EnoughDeliveries, OneDriver, RowsFit, NamesFit, PlacesFit, DeliveriesPaid,
           [Next]_vars, NEW j \in Plain, Active(j), Active(j)', lease[j] = None,
           (\E m \in queue : m.job = j) \/ Claimed(j)
    PROVE  lease'[j] # None \/ (\E m \in queue' : m.job = j) \/ Claimed(j)'
<1>1. j \in Jobs /\ j \notin WaitingJobs /\ ~Terminal(job[j]) /\ ~Terminal(job'[j])
  BY DEF Plain, Active, Terminal, TerminalStates
<1>2. ASSUME NEW m \in queue, m.job = j, m \notin queue'
      PROVE  (\E n \in queue' : n.job = j) \/ Claimed(j)'
  <2>1. m.reason # "RESUME"
    BY <1>1, <1>2 DEF NamesFit, Rightful
  <2> QED BY <1>2, <2>1, WhatLeaves DEF Claimed
<1>3. ASSUME NEW w \in Workers, worker[w].pc = "claim", worker[w].msg.job = j
      PROVE  lease'[j] # None \/ (\E m \in queue' : m.job = j) \/ Claimed(j)'
  <2>1. CASE worker'[w] = worker[w]
    BY <1>3, <2>1 DEF Claimed
  <2>2. CASE \E v \in Workers : lease'[j] = v
    BY <2>2, LeaseValues
  <2>3. CASE Claim(w)
    BY <1>1, <1>3, <2>3, ClaimSucceeds, LeaseValues DEF Free, Row
  <2>4. ASSUME Returned(worker[w].msg, lease'[j]) \subseteq queue', Cost(j)' > Cost(j)
        PROVE  \E m \in queue' : m.job = j
    <3>1. worker[w].msg \in Message /\ worker[w].msg.n \in Nat
      BY <1>3, BusyWorker, BoundsAssumption DEF Message
    <3>2. worker[w].msg.n <= Cost(j) + 1
      BY <1>3 DEF DeliveriesPaid, Driving
    <3>3. /\ Cost(j) \in Nat /\ Cost(j)' \in Nat
          /\ Cost(j)' <= MaxFaults + MaxOutages + 1
      BY <1>1, CostGrows, CostBounded
    <3>4. worker[w].msg.n <= MaxFaults + MaxOutages + 1
      BY <2>4, <3>1, <3>2, <3>3, BoundsAssumption
    <3> QED BY <1>3, <2>4, <3>1, <3>4, ReturnedIfPaid
  <2>5. CASE Crash(w)
    <3>1. Returned(worker[w].msg, lease'[j]) \subseteq queue' /\ Fault
      BY <1>3, <2>5 DEF Crash
    <3> QED BY <1>1, <2>4, <3>1, CostGrows
  <2>6. CASE /\ Cancel(j) /\ job[j] # AfterCancel(job[j], "REQUESTED_BY_PRINCIPAL")
             /\ Returned(worker[w].msg, lease'[j]) \subseteq queue'
    BY <1>1, <2>4, <2>6, CostGrows
  <2> QED BY <1>1, <1>3, <2>1, <2>2, <2>3, <2>5, <2>6, ClaimerLeaves
<1> QED BY <1>2, <1>3 DEF Claimed

\* A START that was not dispatched waits on, or was: its reference is in the queue.
LEMMA StartIsHandedOn ==
    ASSUME TInv, OneDriver, RowsFit, [Next]_vars,
           NEW j \in Plain, Active(j), Active(j)', lease[j] = None, Unstarted(j)
    PROVE  (\E m \in queue' : m.job = j) \/ Unstarted(j)'
<1>1. j \in Jobs /\ ~Terminal(job[j]) /\ ~Terminal(job'[j])
  BY DEF Plain, Active, Terminal, TerminalStates
<1>2. job'[j].state = "ACCEPTED"
  <2>1. ~Submit(j)
    BY DEF Submit, CanAccept, Active
  <2>2. ~\E w \in Workers : Driving(w) /\ worker[w].msg.job = j
    BY <1>1, LeaseValues DEF OneDriver
  <2>3. job'[j] # AfterCancel(job[j], "REQUESTED_BY_PRINCIPAL")
    BY <1>1 DEF TInv, JobOK, Unstarted, AfterCancel, IdleStates, JobRecord, Terminal,
                TerminalStates
  <2> QED BY <1>1, <2>1, <2>2, <2>3, WhoMovesRow DEF Unstarted
<1>3. PICK i \in Undispatched : commands[i].job = j /\ commands[i].type = "START"
  BY DEF Unstarted
<1>4. i \in DOMAIN commands
  BY DEF Undispatched
<1>5. CASE Dispatch(i)
  <2>1. Reference(j, "START", commands[i].wait) \in queue'
    BY <1>3, <1>5 DEF Dispatch
  <2> QED BY <2>1 DEF Reference
<1>6. CASE commands'[i] = commands[i]
  <2>1. i \in Undispatched'
    BY <1>4, <1>6, CommandSteps DEF Undispatched
  <2> QED BY <1>2, <1>3, <1>6, <2>1 DEF Unstarted
<1> QED BY <1>4, <1>5, <1>6, CommandSteps

\* Every step of the system leaves plain work something that looks at it again.
LEMMA NextAwake ==
    ASSUME TInv, EnoughDeliveries, OneDriver, QuestionMatchesJob, RowsFit, NamesFit,
           PlacesFit, DeliveriesPaid, SentOn, Awake, [Next]_vars
    PROVE  Awake'
<1> SUFFICES ASSUME NEW j \in Plain, Active(j)'
             PROVE  \/ lease'[j] # None
                    \/ \E m \in queue' : m.job = j
                    \/ Claimed(j)'
                    \/ Unstarted(j)'
  BY DEF Awake
<1>1. CASE ~Active(j)
  BY <1>1, SubmittedIsUnstarted
<1>2. CASE Active(j) /\ lease[j] # None
  BY <1>2, FreedIsQueued
<1>3. CASE Active(j) /\ lease[j] = None /\ ((\E m \in queue : m.job = j) \/ Claimed(j))
  BY <1>3, WakeIsHandedOn
<1>4. CASE Active(j) /\ lease[j] = None /\ Unstarted(j)
  BY <1>4, StartIsHandedOn
<1> QED BY <1>1, <1>2, <1>3, <1>4 DEF Awake

\* Rows, names, places, deliveries and next messages as the lemmas above keep them.
WInv == RowsFit /\ NamesFit /\ PlacesFit /\ DeliveriesPaid /\ SentOn

\* Every reachable state has it.
LEMMA WInvAlways == Spec => []WInv
<1>1. Init => WInv
  <2> SUFFICES ASSUME Init PROVE WInv
    OBVIOUS
  <2>1. /\ \A w \in Workers : worker[w].pc = "idle"
        /\ \A j \in Jobs : job[j].state = "ABSENT"
        /\ queue = {} /\ DOMAIN commands = {}
    BY DEF Init, Idle, Absent
  <2> QED BY <2>1 DEF WInv, RowsFit, NamesFit, PlacesFit, DeliveriesPaid, SentOn, Plain,
                      Active, Driving
<1>2. TInv /\ OneDriver /\ QuestionMatchesJob /\ WInv /\ [Next]_vars => WInv'
  BY NextRowsFit, NextNamesFit, NextPlacesFit, NextDeliveriesPaid, NextSentOn DEF WInv
<1> QED BY <1>1, <1>2, TInvAlways, ExecutionOneDriver, ExecutionQuestions, PTL DEF Spec

\* A job that neither asks a person nor is promoted has, until it ends, something that
\* looks at it again.
LEMMA AwakeAlways == ASSUME EnoughDeliveries PROVE Spec => []Awake
<1>1. Init => Awake
  BY DEF Init, Absent, Awake, Plain, Active
<1>2. TInv /\ OneDriver /\ QuestionMatchesJob /\ WInv /\ Awake /\ [Next]_vars => Awake'
  BY NextAwake DEF WInv
<1> QED BY <1>1, <1>2, TInvAlways, ExecutionOneDriver, ExecutionQuestions, WInvAlways, PTL
           DEF Spec

\* Work that waits for nobody is never forgotten: whatever crashes, is cancelled, is lost or
\* is delivered twice, an unfinished job keeps a lease, a message, a worker or its START.
THEOREM ExecutionHasWake ==
    ASSUME WaitingJobs = {}, MayBeLate \cap InteractiveJobs \cap DurableJobs = {},
           EnoughDeliveries
    PROVE  Spec => []HasWake
<1>1. Awake => HasWake
  BY DEF Awake, HasWake, Plain, Active, Claimed, Unstarted
<1> QED BY <1>1, AwakeAlways, PTL

=============================================================================
