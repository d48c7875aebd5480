-------------------------- MODULE BrainJob_proofs --------------------------
(***************************************************************************)
(* What brainJobTransition returns, event by event: a record of the right  *)
(* type, from which an ended job is never left.  These lemmas are about    *)
(* the operators of BrainJob alone, so every module that writes the row    *)
(* uses them.                                                              *)
(***************************************************************************)
EXTENDS BrainJob, TLAPS

\* Every event returns a record of the type it was given.
LEMMA EventsKeepType ==
    ASSUME NEW b \in JobRecord
    PROVE  /\ \A cls \in {"INTERACTIVE", "DURABLE"} : AfterAccept(b, cls) \in JobRecord
           /\ AfterDispatch(b) \in JobRecord
           /\ AfterStart(b) \in JobRecord
           /\ AfterPromote(b) \in JobRecord
           /\ \A k \in Waits : AfterAsk(b, k) \in JobRecord
           /\ AfterResume(b) \in JobRecord
           /\ AfterExpire(b) \in JobRecord
           /\ \A why \in RequestReasons : AfterCancel(b, why) \in JobRecord
           /\ CanSettle(b) => AfterSettle(b) \in JobRecord
           /\ AfterCommit(b) \in JobRecord
           /\ \A why \in FailureReasons : AfterFail(b, why) \in JobRecord
<1> USE DEF JobRecord, States, LiveStates, IdleStates, TerminalStates
<1>1. \A cls \in {"INTERACTIVE", "DURABLE"} : AfterAccept(b, cls) \in JobRecord
  BY DEF AfterAccept
<1>2. /\ AfterDispatch(b) \in JobRecord
      /\ AfterStart(b) \in JobRecord
      /\ AfterPromote(b) \in JobRecord
  BY DEF AfterDispatch, AfterStart, AfterPromote
<1>3. /\ \A k \in Waits : AfterAsk(b, k) \in JobRecord
      /\ AfterResume(b) \in JobRecord
  BY DEF AfterAsk, AfterResume
<1>4. AfterExpire(b) \in JobRecord
  BY DEF AfterExpire, CancelReasons
<1>5. \A why \in RequestReasons : AfterCancel(b, why) \in JobRecord
  BY DEF AfterCancel, CancelReasons
<1>6. CanSettle(b) => AfterSettle(b) \in JobRecord
  BY DEF CanSettle, AfterSettle, CancelReasons
<1>7. AfterCommit(b) \in JobRecord
  BY DEF AfterCommit
<1>8. \A why \in FailureReasons : AfterFail(b, why) \in JobRecord
  BY DEF AfterFail
<1> QED BY <1>1, <1>2, <1>3, <1>4, <1>5, <1>6, <1>7, <1>8

\* The state each event leaves the job in.
LEMMA EventsReach ==
    ASSUME NEW b \in JobRecord
    PROVE  /\ \A cls : AfterAccept(b, cls).state = "ACCEPTED"
           /\ AfterDispatch(b).state = "QUEUED"
           /\ AfterStart(b).state = "RUNNING"
           /\ AfterPromote(b).state = b.state
           /\ \A k : AfterAsk(b, k).state = "WAITING_FOR_USER"
           /\ AfterResume(b).state = "RUNNING"
           /\ AfterExpire(b).state = "CANCELLED"
           /\ \A why : AfterCancel(b, why).state =
                  IF b.state \in IdleStates THEN "CANCELLED" ELSE b.state
           /\ AfterSettle(b).state = "CANCELLED"
           /\ \A why : AfterFail(b, why).state = "FAILED"
BY DEF AfterAccept, AfterDispatch, AfterStart, AfterPromote, AfterAsk, AfterResume,
       AfterExpire, AfterCancel, AfterSettle, AfterFail, JobRecord

\* An event that is allowed finds the job unfinished: an ended job moves no more.
LEMMA NoEventAfterTheEnd ==
    ASSUME NEW b, Terminal(b)
    PROVE  /\ \A j, cls : ~CanAccept(b, j, cls)
           /\ ~CanDispatch(b) /\ ~CanStart(b) /\ ~CanSettle(b) /\ ~CanCommit(b)
           /\ ~CanCancel(b) /\ ~CanFail(b)
           /\ \A j : ~CanPromote(b, j) /\ ~CanAsk(b, j)
           /\ \A k, permitted : ~CanResume(b, k, permitted) /\ ~CanExpire(b, k)
BY DEF Terminal, TerminalStates, CanAccept, CanDispatch, CanStart, CanSettle,
       CanCommit, CanCancel, CanFail, Live, LiveStates, IdleStates, CanPromote,
       CanAsk, CanResume, CanExpire

\* What an event may make of a row: the shape the database checks is kept, a
\* request to stop stands, and an ended row is not touched.
SoundMove(b, c) ==
    /\ c \in JobRecord
    /\ Shape(c)
    /\ b.cancel # None => /\ c.cancel = b.cancel
                          /\ c.state \in {"RUNNING", "FAILED", "CANCELLED"}
    /\ Terminal(b) => c = b

\* Every event brainJobTransition allows is a sound move, whoever asks for it.
LEMMA EventsAreSound ==
    ASSUME NEW b \in JobRecord, Shape(b), NEW j \in Jobs
    PROVE  /\ \A cls \in {"INTERACTIVE", "DURABLE"} :
                  CanAccept(b, j, cls) => SoundMove(b, AfterAccept(b, cls))
           /\ CanDispatch(b) => SoundMove(b, AfterDispatch(b))
           /\ CanStart(b) => SoundMove(b, AfterStart(b))
           /\ CanPromote(b, j) => SoundMove(b, AfterPromote(b))
           /\ CanAsk(b, j) => \A k \in Waits : SoundMove(b, AfterAsk(b, k))
           /\ \A k, permitted :
                  CanResume(b, k, permitted) => SoundMove(b, AfterResume(b))
           /\ \A k : CanExpire(b, k) => SoundMove(b, AfterExpire(b))
           /\ CanCancel(b) =>
                  \A why \in RequestReasons : SoundMove(b, AfterCancel(b, why))
           /\ CanSettle(b) => SoundMove(b, AfterSettle(b))
           /\ CanCommit(b) => SoundMove(b, AfterCommit(b))
           /\ CanFail(b) =>
                  \A why \in FailureReasons : SoundMove(b, AfterFail(b, why))
<1> USE DEF Shape, QuestionShape, EndingShape, StopShape, SoundMove, JobRecord,
            Terminal, TerminalStates
<1>1. ASSUME NEW cls \in {"INTERACTIVE", "DURABLE"}, CanAccept(b, j, cls)
      PROVE  SoundMove(b, AfterAccept(b, cls))
  <2>1. AfterAccept(b, cls) \in JobRecord
    BY EventsKeepType
  <2> QED BY <1>1, <2>1 DEF CanAccept, AfterAccept
<1>2. CanDispatch(b) => SoundMove(b, AfterDispatch(b))
  BY EventsKeepType DEF CanDispatch, AfterDispatch
<1>3. CanStart(b) => SoundMove(b, AfterStart(b))
  BY EventsKeepType DEF CanStart, AfterStart
<1>4. CanPromote(b, j) => SoundMove(b, AfterPromote(b))
  BY EventsKeepType DEF CanPromote, AfterPromote
<1>5. ASSUME CanAsk(b, j), NEW k \in Waits
      PROVE  SoundMove(b, AfterAsk(b, k))
  <2>1. k # NoWait
    BY DEF Waits, NoWait
  <2>2. AfterAsk(b, k) \in JobRecord
    BY EventsKeepType
  <2> QED BY <1>5, <2>1, <2>2 DEF CanAsk, AfterAsk
<1>6. ASSUME NEW k, NEW permitted, CanResume(b, k, permitted)
      PROVE  SoundMove(b, AfterResume(b))
  BY <1>6, EventsKeepType DEF CanResume, AfterResume
<1>7. ASSUME NEW k, CanExpire(b, k)
      PROVE  SoundMove(b, AfterExpire(b))
  <2>1. AfterExpire(b) \in JobRecord
    BY EventsKeepType
  <2>2. "WAIT_EXPIRED" # None
    BY DEF None
  <2> QED BY <1>7, <2>1, <2>2 DEF CanExpire, AfterExpire
<1>8. ASSUME CanCancel(b), NEW why \in RequestReasons
      PROVE  SoundMove(b, AfterCancel(b, why))
  <2>1. why # None
    BY DEF RequestReasons, None
  <2>2. AfterCancel(b, why) \in JobRecord
    BY EventsKeepType
  <2> QED BY <1>8, <2>1, <2>2
             DEF CanCancel, AfterCancel, Live, LiveStates, IdleStates
<1>9. CanSettle(b) => SoundMove(b, AfterSettle(b))
  BY EventsKeepType DEF CanSettle, AfterSettle
<1>10. CanCommit(b) => SoundMove(b, AfterCommit(b))
  BY EventsKeepType DEF CanCommit, AfterCommit
<1>11. ASSUME CanFail(b), NEW why \in FailureReasons
       PROVE  SoundMove(b, AfterFail(b, why))
  <2>1. why # None
    BY DEF FailureReasons, None
  <2>2. AfterFail(b, why) \in JobRecord
    BY EventsKeepType
  <2> QED BY <1>11, <2>1, <2>2
             DEF CanFail, AfterFail, Live, LiveStates, IdleStates
<1> QED BY <1>1, <1>2, <1>3, <1>4, <1>5, <1>6, <1>7, <1>8, <1>9, <1>10, <1>11
=============================================================================
