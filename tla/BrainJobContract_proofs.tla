----------------------- MODULE BrainJobContract_proofs -----------------------
(***************************************************************************)
(* The contract's properties, for any jobs and any number of questions.    *)
(* The argument is one inductive invariant: every row has its type and the *)
(* shape the database checks.  The shape is what makes the rest true: that *)
(* only running work carries a request to stop, for one, is why no event   *)
(* but its end can follow the request.                                     *)
(***************************************************************************)
EXTENDS BrainJobContract, BrainJob_proofs

IInv == TypeOK /\ RowShape

\* The rows nobody wrote yet have the shape.
LEMMA InitIInv == Init => IInv
<1> SUFFICES ASSUME Init PROVE IInv
  OBVIOUS
<1>1. Absent \in JobRecord
  BY DEF Absent, JobRecord, States
<1>2. Shape(Absent)
  BY DEF Absent, Shape, QuestionShape, EndingShape, StopShape
<1> QED BY <1>1, <1>2 DEF Init, IInv, TypeOK, RowShape

\* One transition writes one row, and what it writes is a sound move.
LEMMA TransitionIsSound ==
    ASSUME IInv, NEW j \in Jobs, Transition(j)
    PROVE  \E c : SoundMove(job[j], c) /\ Becomes(j, c)
<1>1. job[j] \in JobRecord /\ Shape(job[j])
  BY DEF IInv, TypeOK, RowShape
<1>2. CASE Accepted(j)
  BY <1>1, <1>2, EventsAreSound DEF Accepted
<1>3. CASE Dispatched(j)
  BY <1>1, <1>3, EventsAreSound DEF Dispatched
<1>4. CASE Started(j)
  BY <1>1, <1>4, EventsAreSound DEF Started
<1>5. CASE Promoted(j)
  BY <1>1, <1>5, EventsAreSound DEF Promoted
<1>6. CASE InputRequested(j)
  BY <1>1, <1>6, EventsAreSound DEF InputRequested
<1>7. CASE InputReceived(j)
  BY <1>1, <1>7, EventsAreSound DEF InputReceived
<1>8. CASE WaitExpired(j)
  BY <1>1, <1>8, EventsAreSound DEF WaitExpired
<1>9. CASE CancelRequested(j)
  BY <1>1, <1>9, EventsAreSound DEF CancelRequested
<1>10. CASE CancelSettled(j)
  BY <1>1, <1>10, EventsAreSound DEF CancelSettled
<1>11. CASE ResultCommitted(j)
  BY <1>1, <1>11, EventsAreSound DEF ResultCommitted
<1>12. CASE Failed(j)
  BY <1>1, <1>12, EventsAreSound DEF Failed
<1> QED BY <1>2, <1>3, <1>4, <1>5, <1>6, <1>7, <1>8, <1>9, <1>10, <1>11, <1>12
           DEF Transition

\* So every row moves soundly in every step, or stays.
LEMMA StepIsSound ==
    ASSUME IInv, [Next]_job
    PROVE  /\ job' \in [Jobs -> JobRecord]
           /\ \A j \in Jobs : job'[j] = job[j] \/ SoundMove(job[j], job'[j])
<1>1. job \in [Jobs -> JobRecord]
  BY DEF IInv, TypeOK
<1>2. CASE UNCHANGED job
  BY <1>1, <1>2
<1>3. CASE Next
  <2>1. PICK j \in Jobs : Transition(j)
    BY <1>3 DEF Next
  <2>2. PICK c : SoundMove(job[j], c) /\ Becomes(j, c)
    BY <2>1, TransitionIsSound
  <2>3. job' = [job EXCEPT ![j] = c] /\ c \in JobRecord
    BY <2>2 DEF Becomes, SoundMove
  <2>4. job'[j] = c /\ \A i \in Jobs : i # j => job'[i] = job[i]
    BY <1>1, <2>3
  <2> QED BY <1>1, <2>2, <2>3, <2>4
<1> QED BY <1>2, <1>3

\* Every transition keeps the strengthened invariant of a row.
LEMMA NextIInv == IInv /\ [Next]_job => IInv'
<1> SUFFICES ASSUME IInv, [Next]_job PROVE IInv'
  OBVIOUS
<1>1. job' \in [Jobs -> JobRecord]
  BY StepIsSound
<1>2. \A j \in Jobs : Shape(job'[j])
  <2> TAKE j \in Jobs
  <2>1. job'[j] = job[j] \/ SoundMove(job[j], job'[j])
    BY StepIsSound
  <2>2. Shape(job[j])
    BY DEF IInv, RowShape
  <2> QED BY <2>1, <2>2 DEF SoundMove
<1> QED BY <1>1, <1>2 DEF IInv, TypeOK, RowShape

\* The inductive invariant.
THEOREM ContractInvariant == Spec => []IInv
BY InitIInv, NextIInv, PTL DEF Spec

\* Every row has its type, after any sequence of events.
THEOREM ContractTypes == Spec => []TypeOK
BY ContractInvariant, PTL DEF IInv

\* No sequence of events makes a row that the database's CHECK would refuse.
THEOREM ContractShape == Spec => []RowShape
BY ContractInvariant, PTL DEF IInv

\* An ended job never moves again (JOB_IS_TERMINAL).
THEOREM ContractEndedStays == Spec => EndedStays
<1>1. IInv /\ [Next]_job =>
          [\A j \in Jobs : Terminal(job[j]) => job'[j] = job[j]]_job
  BY StepIsSound DEF SoundMove
<1> QED BY <1>1, ContractInvariant, PTL DEF Spec, EndedStays

\* The first request to stop stands, and nothing but an end without a result
\* follows it.
THEOREM ContractFirstStop == Spec => FirstStopStands
<1>1. IInv /\ [Next]_job =>
          [\A j \in Jobs : job[j].cancel # None =>
                /\ job'[j].cancel = job[j].cancel
                /\ job'[j].state \in {"RUNNING", "FAILED", "CANCELLED"}]_job
  <2> SUFFICES ASSUME IInv, [Next]_job, NEW j \in Jobs, job[j].cancel # None
               PROVE  /\ job'[j].cancel = job[j].cancel
                      /\ job'[j].state \in {"RUNNING", "FAILED", "CANCELLED"}
    OBVIOUS
  <2>1. job[j].state \in {"RUNNING", "FAILED", "CANCELLED"}
    BY DEF IInv, RowShape, Shape, StopShape
  <2>2. job'[j] = job[j] \/ SoundMove(job[j], job'[j])
    BY StepIsSound
  <2> QED BY <2>1, <2>2 DEF SoundMove
<1> QED BY <1>1, ContractInvariant, PTL DEF Spec, FirstStopStands
=============================================================================
