------------------------ MODULE BrainRecords_proofs ------------------------
(***************************************************************************)
(* Three theorems about what a worker, a person and the sweeper write      *)
(* beside the job's row: the rows of a question agree with the job's row,  *)
(* nothing of an ended job is written any more, and a recorded result or   *)
(* reply is never replaced.                                                *)
(*                                                                         *)
(* QuestionMatchesJob is inductive with TInv.  It is proved row by row:    *)
(* RowsAgree relates one job's row to the status of its questions, and     *)
(* every event keeps it together with what its transaction writes to them. *)
(* For EndedWorkStopped one adds that a worker which is about to write a   *)
(* step works on running work, which holds because it drives the job alone *)
(* (OneDriver).                                                            *)
(***************************************************************************)
EXTENDS BrainExecution_proofs

\* A job's row b and the status qs of its questions.
RowsAgree(b, qs) ==
    /\ \A k \in Waits :
        /\ qs[k] \in Unanswered => b.state = "WAITING_FOR_USER" /\ b.wait = k
        /\ qs[k] = "EXPIRED" => b.end = "WAIT_EXPIRED"
    /\ b.state = "WAITING_FOR_USER" => qs[b.wait] \in Unanswered \cup {"ANSWERED"}
RepliesRung == \A j \in Jobs, k \in Waits :
    wait[j][k] = "ANSWERED" <=> Stored(j, "RESUME", k)
RowsOK == \A j \in Jobs : RowsAgree(job[j], wait[j])

\* QuestionMatchesJob in two parts: what the rows say, and the commands of the replies.
LEMMA QuestionParts == QuestionMatchesJob <=> RowsOK /\ RepliesRung
BY DEF QuestionMatchesJob, RowsOK, RowsAgree, RepliesRung

-----------------------------------------------------------------------------
(* Rows.                                                                    *)

\* What WithClosed makes of the questions of one row.
Closed(b, qs, status) ==
    [k \in Waits |-> IF k = b.wait /\ qs[k] \in Unanswered THEN status ELSE qs[k]]

Statuses == [Waits -> WaitStatus]

\* An event between states that do not wait, and that gives no reason to end.
LEMMA NotWaiting ==
    ASSUME NEW b \in JobRecord, NEW c \in JobRecord, NEW qs \in Statuses,
           Shape(b), RowsAgree(b, qs), ~Terminal(b), b.state # "WAITING_FOR_USER",
           c.state # "WAITING_FOR_USER"
    PROVE  RowsAgree(c, qs)
<1>1. b.end = None
  BY DEF Shape, EndingShape, Terminal, TerminalStates
<1>2. \A k \in Waits : qs[k] # "EXPIRED" /\ qs[k] \notin Unanswered
  BY <1>1 DEF RowsAgree, None
<1> QED BY <1>2 DEF RowsAgree

\* An event that ends the job, or leaves running work running, and closes the
\* question.
LEMMA ClosingAgrees ==
    ASSUME NEW b \in JobRecord, NEW c \in JobRecord, NEW qs \in Statuses,
           Shape(b), RowsAgree(b, qs), ~Terminal(b),
           c.state # "WAITING_FOR_USER", NEW status \in {"CLOSED", "EXPIRED"},
           status = "EXPIRED" => c.end = "WAIT_EXPIRED"
    PROVE  /\ RowsAgree(c, Closed(b, qs, status))
           /\ \A k \in Waits :
                 Closed(b, qs, status)[k] = "ANSWERED" <=> qs[k] = "ANSWERED"
<1>1. b.end = None
  BY DEF Shape, EndingShape, Terminal, TerminalStates
<1>2. \A k \in Waits : qs[k] # "EXPIRED"
  BY <1>1 DEF RowsAgree, None
<1>3. \A k \in Waits : qs[k] \in Unanswered => k = b.wait
  BY DEF RowsAgree
<1>4. status \notin Unanswered /\ status # "ANSWERED" /\ "ANSWERED" \notin Unanswered
  BY DEF Unanswered
<1>5. \A k \in Waits : Closed(b, qs, status)[k] \notin Unanswered
  BY <1>3, <1>4 DEF Closed
<1>6. \A k \in Waits : Closed(b, qs, status)[k] = "EXPIRED" => c.end = "WAIT_EXPIRED"
  BY <1>2 DEF Closed
<1>7. \A k \in Waits : Closed(b, qs, status)[k] = "ANSWERED" <=> qs[k] = "ANSWERED"
  BY <1>4 DEF Closed
<1> QED BY <1>5, <1>6, <1>7 DEF RowsAgree

\* Asking a question opens one row more and leaves the job waiting for that one.
LEMMA AskingAgrees ==
    ASSUME NEW b \in JobRecord, NEW qs \in Statuses, NEW j \in Jobs, NEW k \in Waits,
           Shape(b), RowsAgree(b, qs), CanAsk(b, j), qs[k] = "NONE"
    PROVE  LET rs == [qs EXCEPT ![k] = "OPEN"] IN
           /\ RowsAgree(AfterAsk(b, k), rs)
           /\ \A i \in Waits : rs[i] = "ANSWERED" <=> qs[i] = "ANSWERED"
<1> DEFINE rs == [qs EXCEPT ![k] = "OPEN"]
<1>1. b.state = "RUNNING" /\ b.end = None
  BY DEF CanAsk, Shape, EndingShape
<1>2. \A i \in Waits : qs[i] # "EXPIRED" /\ qs[i] \notin Unanswered
  BY <1>1 DEF RowsAgree, None
<1>3. AfterAsk(b, k).state = "WAITING_FOR_USER" /\ AfterAsk(b, k).wait = k
  BY DEF AfterAsk, JobRecord
<1>4. \A i \in Waits : rs[i] = IF i = k THEN "OPEN" ELSE qs[i]
  BY DEF Statuses
<1> HIDE DEF rs
<1>5. RowsAgree(AfterAsk(b, k), rs)
  BY <1>2, <1>3, <1>4 DEF RowsAgree, Unanswered
<1>6. \A i \in Waits : rs[i] = "ANSWERED" <=> qs[i] = "ANSWERED"
  BY <1>4
<1> QED BY <1>5, <1>6 DEF rs

\* A job resumed on an answered question waits for nothing.
LEMMA ResumingAgrees ==
    ASSUME NEW b \in JobRecord, NEW qs \in Statuses, NEW k \in Waits,
           Shape(b), RowsAgree(b, qs), CanResume(b, k, TRUE), qs[k] = "ANSWERED"
    PROVE  RowsAgree(AfterResume(b), qs)
<1>1. b.state = "WAITING_FOR_USER" /\ b.wait = k /\ b.end = None
  BY DEF CanResume, Shape, EndingShape
<1>2. \A i \in Waits : qs[i] # "EXPIRED" /\ qs[i] \notin Unanswered
  BY <1>1 DEF RowsAgree, None, Unanswered
<1>3. AfterResume(b).state = "RUNNING"
  BY DEF AfterResume, JobRecord
<1> QED BY <1>2, <1>3 DEF RowsAgree

-----------------------------------------------------------------------------
(* Commands.                                                                *)

\* Storing a command stores that one and no other.
LEMMA StoredAfterCommand ==
    ASSUME CommandsOK, NEW j, NEW type, NEW k, commands' = WithCommand(j, type, k)
    PROVE  \A i, t, l : Stored(i, t, l)' <=>
               Stored(i, t, l) \/ (i = j /\ t = type /\ l = k)
<1> DEFINE c == [job |-> j, type |-> type, wait |-> k, sent |-> FALSE]
<1>1. CASE Stored(j, type, k)
  BY <1>1 DEF WithCommand, Stored
<1>2. CASE ~Stored(j, type, k)
  <2>1. commands' = Append(commands, c)
    BY <1>2 DEF WithCommand
  <2>2. /\ Len(commands) \in Nat /\ DOMAIN commands = 1 .. Len(commands)
        /\ DOMAIN commands' = 1 .. Len(commands) + 1
        /\ \A n \in 1 .. Len(commands) : commands'[n] = commands[n]
        /\ commands'[Len(commands) + 1] = c
    BY <2>1 DEF CommandsOK
  <2>3. c.job = j /\ c.type = type /\ c.wait = k
    OBVIOUS
  <2> HIDE DEF c
  <2>4. ASSUME NEW i, NEW t, NEW l
        PROVE  Stored(i, t, l)' <=> Stored(i, t, l) \/ (i = j /\ t = type /\ l = k)
    <3>1. ASSUME Stored(i, t, l)' PROVE Stored(i, t, l) \/ (i = j /\ t = type /\ l = k)
      <4>1. PICK n \in DOMAIN commands' : commands'[n].job = i
                /\ commands'[n].type = t /\ commands'[n].wait = l
        BY <3>1 DEF Stored
      <4>2. CASE n = Len(commands) + 1
        BY <2>2, <2>3, <4>1, <4>2
      <4>3. CASE n # Len(commands) + 1
        <5>1. n \in 1 .. Len(commands)
          BY <2>2, <4>3
        <5> QED BY <2>2, <4>1, <5>1 DEF Stored
      <4> QED BY <4>2, <4>3
    <3>2. ASSUME Stored(i, t, l) PROVE Stored(i, t, l)'
      <4>1. PICK n \in DOMAIN commands : commands[n].job = i
                /\ commands[n].type = t /\ commands[n].wait = l
        BY <3>2 DEF Stored
      <4>2. n \in DOMAIN commands' /\ commands'[n] = commands[n]
        BY <2>2
      <4> QED BY <4>1, <4>2 DEF Stored
    <3>3. ASSUME i = j, t = type, l = k PROVE Stored(i, t, l)'
      <4>1. Len(commands) + 1 \in DOMAIN commands'
        BY <2>2
      <4> QED BY <2>2, <2>3, <3>3, <4>1 DEF Stored
    <3> QED BY <3>1, <3>2, <3>3
  <2> QED BY <2>4
<1> QED BY <1>1, <1>2

\* Marking a command does not change which commands are stored.
LEMMA StoredAfterMarking ==
    ASSUME CommandsOK, NEW i \in DOMAIN commands, Marked(i)
    PROVE  \A j, t, l : Stored(j, t, l)' <=> Stored(j, t, l)
<1>1. /\ DOMAIN commands' = DOMAIN commands
      /\ \A n \in DOMAIN commands : commands[n] \in Command
  BY DEF CommandsOK, Marked
<1>2. \A n \in DOMAIN commands : /\ commands'[n].job = commands[n].job
                                 /\ commands'[n].type = commands[n].type
                                 /\ commands'[n].wait = commands[n].wait
  BY <1>1 DEF Marked, Command
<1> QED BY <1>1, <1>2 DEF Stored

-----------------------------------------------------------------------------
(* Steps.                                                                   *)

QInv == RowsOK /\ RepliesRung
SameReplyCommands ==
    \A i, k : Stored(i, "RESUME", k)' <=> Stored(i, "RESUME", k)

\* One job's row and the status of its questions are written together.
LEMMA OneRowWritten ==
    ASSUME TInv, QInv, SameReplyCommands, NEW j \in Jobs, NEW b, NEW qs,
           Becomes(j, b), wait' = [wait EXCEPT ![j] = qs], RowsAgree(b, qs),
           \A k \in Waits : qs[k] = "ANSWERED" <=> wait[j][k] = "ANSWERED"
    PROVE  QInv'
<1>1. /\ job'[j] = b /\ wait'[j] = qs
      /\ \A i \in Jobs : i # j => job'[i] = job[i] /\ wait'[i] = wait[i]
  BY DEF TInv, JobOK, WaitOK, Becomes
<1>2. RowsOK'
  <2> SUFFICES ASSUME NEW i \in Jobs PROVE RowsAgree(job'[i], wait'[i])
    BY DEF RowsOK, RowsAgree, Unanswered
  <2> QED BY <1>1 DEF QInv, RowsOK
<1>3. RepliesRung'
  BY <1>1 DEF QInv, RepliesRung, SameReplyCommands
<1> QED BY <1>2, <1>3 DEF QInv

\* A step that writes no job, no question and no reply keeps QInv.
LEMMA NoRowWritten ==
    ASSUME QInv, SameReplyCommands, UNCHANGED <<job, wait>>
    PROVE  QInv'
<1>1. RowsOK'
  BY DEF QInv, RowsOK, RowsAgree, Unanswered
<1>2. RepliesRung'
  BY DEF QInv, RepliesRung, SameReplyCommands
<1> QED BY <1>1, <1>2 DEF QInv

\* Without a new command the replies' commands are as before.
LEMMA CommandsUntouched == UNCHANGED commands => SameReplyCommands
BY DEF SameReplyCommands, Stored

\* Neither a START nor a CANCEL is the command of a reply.
LEMMA OtherCommandStored ==
    ASSUME TInv, NEW j, NEW type \in {"START", "CANCEL"},
           commands' = WithCommand(j, type, NoWait)
    PROVE  SameReplyCommands
BY StoredAfterCommand DEF SameReplyCommands, TInv

\* The row a job's questions are compared with.
LEMMA RowAndQuestions ==
    ASSUME TInv, QInv, NEW j \in Jobs
    PROVE  /\ job[j] \in JobRecord /\ Shape(job[j]) /\ wait[j] \in Statuses
           /\ RowsAgree(job[j], wait[j])
           /\ wait = [wait EXCEPT ![j] = wait[j]]
BY DEF TInv, JobOK, WaitOK, QInv, RowsOK, Statuses

\* What the transitions that neither ask nor stop say of waiting.
Unwaiting(b, c) ==
    /\ c \in JobRecord /\ ~Terminal(b)
    /\ b.state # "WAITING_FOR_USER" /\ c.state # "WAITING_FOR_USER"

\* The moves of a delivery lead from work that does not wait to such work.
LEMMA MovesDoNotWait ==
    ASSUME NEW b \in JobRecord, NEW j \in Jobs
    PROVE  /\ CanDispatch(b) => Unwaiting(b, AfterDispatch(b))
           /\ CanStart(b) => Unwaiting(b, AfterStart(b))
           /\ CanSettle(b) => Unwaiting(b, AfterSettle(b))
           /\ CanPromote(b, j) => Unwaiting(b, AfterPromote(b))
<1>1. /\ AfterDispatch(b) \in JobRecord /\ AfterStart(b) \in JobRecord
      /\ CanSettle(b) => AfterSettle(b) \in JobRecord
      /\ AfterPromote(b) \in JobRecord
  BY EventsKeepType
<1> USE DEF Unwaiting, Terminal, TerminalStates, JobRecord
<1>2. CanDispatch(b) => Unwaiting(b, AfterDispatch(b))
  BY <1>1 DEF CanDispatch, AfterDispatch
<1>3. CanStart(b) => Unwaiting(b, AfterStart(b))
  BY <1>1 DEF CanStart, AfterStart
<1>4. CanSettle(b) => Unwaiting(b, AfterSettle(b))
  BY <1>1 DEF CanSettle, AfterSettle
<1>5. CanPromote(b, j) => Unwaiting(b, AfterPromote(b))
  BY <1>1 DEF CanPromote, AfterPromote
<1> QED BY <1>2, <1>3, <1>4, <1>5

\* A move between states that do not wait, with no write to a question.
LEMMA MoveWithoutWaiting ==
    ASSUME TInv, QInv, SameReplyCommands, NEW j \in Jobs, NEW c,
           Becomes(j, c), UNCHANGED wait, Unwaiting(job[j], c)
    PROVE  QInv'
<1>1. RowsAgree(c, wait[j])
  BY RowAndQuestions, NotWaiting DEF Unwaiting
<1> QED BY <1>1, RowAndQuestions, OneRowWritten

\* A move that closes the question, if one is unanswered.
LEMMA MoveThatCloses ==
    ASSUME TInv, QInv, SameReplyCommands, NEW j \in Jobs, NEW c \in JobRecord,
           NEW status \in {"CLOSED", "EXPIRED"},
           Becomes(j, c), wait' = WithClosed(j, status), ~Terminal(job[j]),
           c.state # "WAITING_FOR_USER", status = "EXPIRED" => c.end = "WAIT_EXPIRED"
    PROVE  QInv'
<1>1. wait' = [wait EXCEPT ![j] = Closed(job[j], wait[j], status)]
  BY DEF WithClosed, Closed
<1>2. /\ RowsAgree(c, Closed(job[j], wait[j], status))
      /\ \A k \in Waits : Closed(job[j], wait[j], status)[k] = "ANSWERED"
                             <=> wait[j][k] = "ANSWERED"
  BY RowAndQuestions, ClosingAgrees
<1> QED BY <1>1, <1>2, OneRowWritten

\* Cancelling a job closes the question it waited for.
LEMMA StoppingCloses ==
    ASSUME TInv, QInv, SameReplyCommands, NEW j \in Jobs, NEW why \in RequestReasons,
           CanCancel(job[j]), Becomes(j, AfterCancel(job[j], why)),
           wait' = WithClosed(j, "CLOSED")
    PROVE  QInv'
<1>1. job[j] \in JobRecord
  BY RowAndQuestions
<1>2. AfterCancel(job[j], why) \in JobRecord
  BY <1>1, EventsKeepType
<1>3. ~Terminal(job[j])
  BY NoEventAfterTheEnd
<1>4. AfterCancel(job[j], why).state # "WAITING_FOR_USER"
  BY <1>1 DEF AfterCancel, JobRecord, IdleStates
<1> QED BY <1>2, <1>3, <1>4, MoveThatCloses

\* Submissions and cancels keep QInv.
LEMMA PeopleKeepQuestions ==
    ASSUME TInv, QInv, NEW j \in Jobs, Submit(j) \/ Cancel(j)
    PROVE  QInv'
<1>1. CASE Submit(j)
  <2>1. PICK cls \in {"INTERACTIVE", "DURABLE"} :
            CanAccept(job[j], j, cls) /\ Becomes(j, AfterAccept(job[j], cls))
    BY <1>1 DEF Submit
  <2>2. job[j] \in JobRecord /\ AfterAccept(job[j], cls) \in JobRecord
    BY RowAndQuestions, EventsKeepType
  <2>3. /\ job[j].state = "ABSENT" /\ ~Terminal(job[j])
        /\ AfterAccept(job[j], cls).state = "ACCEPTED"
    BY <2>1, <2>2 DEF CanAccept, AfterAccept, Terminal, TerminalStates, JobRecord
  <2>4. SameReplyCommands
    BY <1>1, OtherCommandStored DEF Submit
  <2>5. UNCHANGED wait
    BY <1>1 DEF Submit
  <2> QED BY <2>1, <2>2, <2>3, <2>4, <2>5, MoveWithoutWaiting DEF Unwaiting
<1>2. CASE Cancel(j)
  <2>1. /\ CanCancel(job[j]) /\ wait' = WithClosed(j, "CLOSED")
        /\ Becomes(j, AfterCancel(job[j], "REQUESTED_BY_PRINCIPAL"))
        /\ commands' = WithCommand(j, "CANCEL", NoWait)
    BY <1>2 DEF Cancel
  <2>2. SameReplyCommands
    BY <2>1, OtherCommandStored
  <2> QED BY <2>1, <2>2, StoppingCloses DEF RequestReasons
<1> QED BY <1>1, <1>2

\* The reply and its command are written in one transaction.
LEMMA AnswerKeepsQuestions ==
    ASSUME TInv, QInv, NEW j \in Jobs, Answer(j)
    PROVE  QInv'
<1>1. PICK k \in Waits :
          /\ wait[j][k] \in Unanswered
          /\ job[j].state = "WAITING_FOR_USER" /\ job[j].wait = k
          /\ wait' = [wait EXCEPT ![j][k] = "ANSWERED"]
          /\ commands' = WithCommand(j, "RESUME", k)
          /\ UNCHANGED job
  BY DEF Answer
<1>2. /\ \A i \in Jobs : i # j => wait'[i] = wait[i]
      /\ \A l \in Waits : wait'[j][l] = IF l = k THEN "ANSWERED" ELSE wait[j][l]
  BY <1>1 DEF TInv, WaitOK
<1>3. RowsAgree(job[j], wait'[j])
  BY <1>1, <1>2, RowAndQuestions DEF RowsAgree, Unanswered
<1>4. RowsOK'
  <2> SUFFICES ASSUME NEW i \in Jobs PROVE RowsAgree(job'[i], wait'[i])
    BY DEF RowsOK, RowsAgree, Unanswered
  <2> QED BY <1>1, <1>2, <1>3 DEF QInv, RowsOK
<1>5. \A i, t, l : Stored(i, t, l)' <=>
          Stored(i, t, l) \/ (i = j /\ t = "RESUME" /\ l = k)
  BY <1>1, StoredAfterCommand DEF TInv
<1>6. RepliesRung'
  BY <1>2, <1>5 DEF QInv, RepliesRung
<1> QED BY <1>4, <1>6 DEF QInv

\* A question that falls due keeps QInv.
LEMMA DueKeepsQuestions ==
    ASSUME TInv, QInv, NEW j \in Jobs, QuestionFallsDue(j)
    PROVE  QInv'
<1>1. PICK k \in Waits :
          /\ wait[j][k] = "OPEN" /\ wait' = [wait EXCEPT ![j][k] = "DUE"]
          /\ UNCHANGED <<job, commands>>
  BY DEF QuestionFallsDue
<1>2. /\ \A i \in Jobs : i # j => wait'[i] = wait[i]
      /\ \A l \in Waits : wait'[j][l] = IF l = k THEN "DUE" ELSE wait[j][l]
  BY <1>1 DEF TInv, WaitOK
<1>3. RowsAgree(job[j], wait'[j])
  BY <1>1, <1>2, RowAndQuestions DEF RowsAgree, Unanswered
<1>4. RowsOK'
  <2> SUFFICES ASSUME NEW i \in Jobs PROVE RowsAgree(job'[i], wait'[i])
    BY DEF RowsOK, RowsAgree, Unanswered
  <2> QED BY <1>1, <1>2, <1>3 DEF QInv, RowsOK
<1>5. SameReplyCommands
  BY <1>1, CommandsUntouched
<1>6. RepliesRung'
  BY <1>1, <1>2, <1>5 DEF QInv, RepliesRung, SameReplyCommands
<1> QED BY <1>4, <1>6 DEF QInv

\* The transitions of a worker that neither ask nor stop.
LEMMA MovesKeepQuestions ==
    ASSUME TInv, QInv, NEW w \in Workers,
           DispatchRow(w) \/ StartRow(w) \/ SettleRow(w) \/ PromoteRow(w)
    PROVE  QInv'
<1> DEFINE j == worker[w].msg.job
<1>1. worker[w].pc # "idle" /\ UNCHANGED <<wait, commands>>
  BY DEF DispatchRow, StartRow, SettleRow, PromoteRow, Move
<1>2. j \in Jobs /\ job[j] \in JobRecord /\ Shape(job[j])
  BY <1>1, BusyWorker DEF Row
<1>3. SameReplyCommands
  BY <1>1, CommandsUntouched
<1>4. CASE UNCHANGED <<job, lease>>
  BY <1>1, <1>3, <1>4, NoRowWritten
<1>5. CASE CanDispatch(job[j]) /\ Becomes(j, AfterDispatch(job[j]))
  BY <1>1, <1>2, <1>3, <1>5, MovesDoNotWait, MoveWithoutWaiting
<1>6. CASE CanStart(job[j]) /\ Becomes(j, AfterStart(job[j]))
  BY <1>1, <1>2, <1>3, <1>6, MovesDoNotWait, MoveWithoutWaiting
<1>7. CASE CanSettle(job[j]) /\ Becomes(j, AfterSettle(job[j]))
  BY <1>1, <1>2, <1>3, <1>7, MovesDoNotWait, MoveWithoutWaiting
<1>8. CASE CanPromote(job[j], j) /\ Becomes(j, AfterPromote(job[j]))
  BY <1>1, <1>2, <1>3, <1>8, MovesDoNotWait, MoveWithoutWaiting
<1> QED BY <1>4, <1>5, <1>6, <1>7, <1>8
           DEF DispatchRow, StartRow, SettleRow, PromoteRow, Move, Row

\* A worker asks: the row and the new question are written in one transaction.
LEMMA ClarifyKeepsQuestions ==
    ASSUME TInv, QInv, NEW w \in Workers, Clarify(w)
    PROVE  QInv'
<1> DEFINE j == worker[w].msg.job
<1>1. worker[w].pc # "idle" /\ UNCHANGED commands
  BY DEF Clarify
<1>2. /\ j \in Jobs /\ job[j] \in JobRecord /\ Shape(job[j]) /\ wait[j] \in Statuses
      /\ RowsAgree(job[j], wait[j])
  BY <1>1, BusyWorker, RowAndQuestions DEF Row
<1>3. SameReplyCommands
  BY <1>1, CommandsUntouched
<1>4. CASE CanPromote(job[j], j) /\ Becomes(j, AfterPromote(job[j])) /\ UNCHANGED wait
  BY <1>2, <1>3, <1>4, MovesDoNotWait, MoveWithoutWaiting
<1>5. ASSUME CanAsk(job[j], j), NEW k \in Waits, wait[j][k] = "NONE",
             Becomes(j, AfterAsk(job[j], k)), wait' = [wait EXCEPT ![j][k] = "OPEN"]
      PROVE  QInv'
  <2>1. wait' = [wait EXCEPT ![j] = [wait[j] EXCEPT ![k] = "OPEN"]]
    BY <1>2, <1>5 DEF TInv, WaitOK
  <2>2. /\ RowsAgree(AfterAsk(job[j], k), [wait[j] EXCEPT ![k] = "OPEN"])
        /\ \A i \in Waits : [wait[j] EXCEPT ![k] = "OPEN"][i] = "ANSWERED"
                               <=> wait[j][i] = "ANSWERED"
    BY <1>2, <1>5, AskingAgrees
  <2> QED BY <1>2, <1>3, <1>5, <2>1, <2>2, OneRowWritten
<1>6. CASE UNCHANGED <<job, lease, wait>>
  BY <1>3, <1>6, NoRowWritten
<1> QED BY <1>4, <1>5, <1>6 DEF Clarify

\* A worker that resumes a job, or finds it cannot, keeps QInv.
LEMMA ResumeKeepsQuestions ==
    ASSUME TInv, QInv, NEW w \in Workers, Resume(w)
    PROVE  QInv'
<1> DEFINE j == worker[w].msg.job
           k == worker[w].asked
<1>1. worker[w].pc # "idle" /\ UNCHANGED <<wait, commands>>
  BY DEF Resume
<1>2. /\ j \in Jobs /\ job[j] \in JobRecord /\ Shape(job[j]) /\ wait[j] \in Statuses
      /\ RowsAgree(job[j], wait[j]) /\ wait = [wait EXCEPT ![j] = wait[j]]
  BY <1>1, BusyWorker, RowAndQuestions DEF Row
<1>3. SameReplyCommands
  BY <1>1, CommandsUntouched
<1>4. CASE UNCHANGED <<job, lease>>
  BY <1>1, <1>3, <1>4, NoRowWritten
<1>5. CASE /\ wait[j][k] = "ANSWERED" /\ CanResume(job[j], k, TRUE)
           /\ Becomes(j, AfterResume(job[j]))
  <2>1. k \in Waits
    BY <1>2, <1>5 DEF CanResume, Shape, QuestionShape, JobRecord
  <2>2. RowsAgree(AfterResume(job[j]), wait[j])
    BY <1>2, <1>5, <2>1, ResumingAgrees
  <2> QED BY <1>1, <1>2, <1>3, <1>5, <2>2, OneRowWritten
<1> QED BY <1>4, <1>5 DEF Resume

\* The endings of a worker's: expiry, failure, and a stop by policy.
LEMMA EndingsKeepQuestions ==
    ASSUME TInv, QInv, NEW w \in Workers, Expire(w) \/ Fail(w) \/ Stop(w)
    PROVE  QInv'
<1> DEFINE j == worker[w].msg.job
<1>1. worker[w].pc # "idle"
  BY DEF Expire, Fail, Stop
<1>2. j \in Jobs /\ job[j] \in JobRecord /\ worker[w] \in Invocation
  BY <1>1, BusyWorker DEF Row
<1>3. SameReplyCommands
  <2>1. UNCHANGED commands \/ commands' = WithCommand(j, "CANCEL", NoWait)
    BY DEF Expire, Fail, Stop
  <2> QED BY <2>1, CommandsUntouched, OtherCommandStored
<1>4. CASE UNCHANGED <<job, lease, wait>>
  BY <1>3, <1>4, NoRowWritten
<1>5. CASE /\ CanExpire(job[j], worker[w].asked)
           /\ Becomes(j, AfterExpire(job[j])) /\ wait' = WithClosed(j, "EXPIRED")
  <2>1. /\ AfterExpire(job[j]) \in JobRecord /\ ~Terminal(job[j])
        /\ AfterExpire(job[j]).state # "WAITING_FOR_USER"
        /\ AfterExpire(job[j]).end = "WAIT_EXPIRED"
    BY <1>2, <1>5, EventsKeepType, NoEventAfterTheEnd DEF AfterExpire, JobRecord
  <2> QED BY <1>2, <1>3, <1>5, <2>1, MoveThatCloses
<1>6. CASE Fail(w) /\ CanFail(job[j])
  <2>1. /\ Becomes(j, AfterFail(job[j], worker[w].why))
        /\ wait' = WithClosed(j, "CLOSED") /\ worker[w].pc = "fail"
    BY <1>6 DEF Fail
  <2>2. worker[w].why \in FailureReasons
    BY <1>2, <2>1 DEF TInv, WorkersOK, InvocationOK, Invocation
  <2>3. AfterFail(job[j], worker[w].why) \in JobRecord /\ ~Terminal(job[j])
    BY <1>2, <1>6, <2>2, EventsKeepType, NoEventAfterTheEnd
  <2>4. AfterFail(job[j], worker[w].why).state = "FAILED"
    BY <1>2 DEF AfterFail, JobRecord
  <2> QED BY <1>2, <1>3, <2>1, <2>3, <2>4, MoveThatCloses
<1>7. CASE /\ CanCancel(job[j]) /\ Becomes(j, AfterCancel(job[j], "KILL_SWITCH"))
           /\ wait' = WithClosed(j, "CLOSED")
  BY <1>2, <1>3, <1>7, StoppingCloses DEF RequestReasons
<1> QED BY <1>4, <1>5, <1>6, <1>7 DEF Expire, Fail, Stop

\* Every other action writes no job's row, no question and no new command.
LEMMA NoQuestionElsewhere ==
    /\ \A j \in Jobs : LeaseLapses(j) \/ SweepTimer(j) \/ SweepLease(j)
          => UNCHANGED <<job, wait, commands>>
    /\ \A i \in DOMAIN commands : Ring(i) \/ SweepCommand(i) \/ DispatcherDies(i)
          => UNCHANGED <<job, wait>> /\ (UNCHANGED commands \/ Marked(i))
    /\ MessageReappears => UNCHANGED <<job, wait, commands>>
    /\ \A w \in Workers :
          Receive(w) \/ Claim(w) \/ ReadExpiry(w) \/ RecordAnswer(w)
          \/ Boundary(w) \/ Begin(w) \/ Execute(w) \/ RecordCheckpoint(w)
          \/ RecordFailure(w) \/ Requeue(w) \/ Release(w) \/ Crash(w)
             => UNCHANGED <<job, wait, commands>>
BY DEF LeaseLapses, SweepTimer, SweepLease, Ring,
       SweepCommand, DispatcherDies, Dispatch, MessageReappears, Receive, Claim,
       ReadExpiry, RecordAnswer, Boundary, Begin, Execute, RecordCheckpoint,
       RecordFailure, Requeue, Release, Crash

\* Every step of the system keeps QInv.
LEMMA NextQInv == TInv /\ QInv /\ [Next]_vars => QInv'
<1> SUFFICES ASSUME TInv, QInv, [Next]_vars PROVE QInv'
  OBVIOUS
<1>1. CASE UNCHANGED <<job, wait, commands>>
  BY <1>1, CommandsUntouched, NoRowWritten
<1>2. ASSUME NEW i \in DOMAIN commands, UNCHANGED <<job, wait>>, Marked(i)
      PROVE  QInv'
  BY <1>2, StoredAfterMarking, NoRowWritten DEF TInv, SameReplyCommands
<1>3. ASSUME NEW w \in Workers,
             \/ DispatchRow(w) \/ StartRow(w) \/ SettleRow(w) \/ PromoteRow(w)
             \/ Expire(w) \/ Resume(w) \/ Clarify(w) \/ Fail(w) \/ Stop(w)
      PROVE  QInv'
  BY <1>3, MovesKeepQuestions, ClarifyKeepsQuestions, ResumeKeepsQuestions,
     EndingsKeepQuestions
<1>4. ASSUME NEW j \in Jobs, Submit(j) \/ Cancel(j) \/ Answer(j) \/ QuestionFallsDue(j)
      PROVE  QInv'
  BY <1>4, PeopleKeepQuestions, AnswerKeepsQuestions, DueKeepsQuestions
<1>5. CASE UNCHANGED vars
  BY <1>1, <1>5 DEF vars
<1> QED BY <1>1, <1>2, <1>3, <1>4, <1>5, NoQuestionElsewhere DEF Next, Work

\* At the start no question was asked and no reply stored.
LEMMA InitQInv == Init => QInv
<1> SUFFICES ASSUME Init PROVE QInv
  OBVIOUS
<1>1. \A j \in Jobs : /\ job[j].state = "ABSENT"
                      /\ \A k \in Waits : wait[j][k] = "NONE"
  BY DEF Init, Absent
<1>2. RowsOK
  BY <1>1 DEF RowsOK, RowsAgree, Unanswered
<1>3. \A j, k : ~Stored(j, "RESUME", k)
  BY DEF Init, Stored
<1> QED BY <1>1, <1>2, <1>3 DEF QInv, RepliesRung

\* QInv holds in every reachable state.
LEMMA QInvAlways == Spec => []QInv
BY InitQInv, NextQInv, TInvAlways, PTL DEF Spec

\* Whatever people, workers and the sweeper do to a question, in any order and
\* through any crash, its row agrees with its job's: an unanswered question is the
\* one its job waits on, an expired one ended the job, and a reply was rung for.
THEOREM ExecutionQuestions == Spec => []QuestionMatchesJob
<1>1. QInv => QuestionMatchesJob
  BY QuestionParts DEF QInv
<1> QED BY <1>1, QInvAlways, PTL

-----------------------------------------------------------------------------
(* What is written after the end.                                           *)

\* A worker that writes of a step next works on a job that runs.
Recording(w) == worker[w].pc \in {"record", "execute", "checkpoint", "failstep"}
RecordsOfRunningWork == \A w \in Workers : Recording(w) => Row(w).state = "RUNNING"

\* A worker that records something drives its job alone.
LEMMA RecordsAlone ==
    ASSUME TInv, OneDriver, RecordsOfRunningWork, NEW w \in Workers, Driving(w),
           NEW v \in Workers, v # w, Recording(v)
    PROVE  worker[v].msg.job # worker[w].msg.job
<1> SUFFICES ASSUME worker[v].msg.job = worker[w].msg.job PROVE FALSE
  OBVIOUS
<1>1. Driving(v)
  BY DEF Recording, Driving
<1>2. ~Terminal(job[worker[v].msg.job])
  BY DEF RecordsOfRunningWork, Row, Terminal, TerminalStates
<1>3. lease[worker[v].msg.job] = v /\ lease[worker[v].msg.job] = w
  BY <1>1, <1>2 DEF OneDriver
<1> QED BY <1>3

\* It is enough to look at the worker that moves, and at the row it moves.
LEMMA WorkerKeepsRecords ==
    ASSUME TInv, OneDriver, RecordsOfRunningWork, NEW w \in Workers, Driving(w),
           \A v \in Workers : v # w => worker'[v] = worker[v],
           \A i \in Jobs : i # worker[w].msg.job => job'[i] = job[i],
           Recording(w)' => Row(w)'.state = "RUNNING"
    PROVE  RecordsOfRunningWork'
<1> SUFFICES ASSUME NEW v \in Workers, Recording(v)' PROVE Row(v)'.state = "RUNNING"
  BY DEF RecordsOfRunningWork
<1>1. CASE v = w
  BY <1>1
<1>2. CASE v # w
  <2>1. worker'[v] = worker[v] /\ Recording(v)
    BY <1>2 DEF Recording
  <2>2. worker[v].msg.job # worker[w].msg.job /\ worker[v].msg.job \in Jobs
    BY <1>2, <2>1, RecordsAlone, BusyWorker DEF Recording
  <2> QED BY <2>1, <2>2 DEF RecordsOfRunningWork, Row
<1> QED BY <1>1, <1>2

\* No row moves, and no worker comes to record.
LEMMA QuietStepKeepsRecords ==
    ASSUME RecordsOfRunningWork, UNCHANGED job,
           \A v \in Workers : Recording(v)' => Recording(v) /\ worker'[v].msg = worker[v].msg
    PROVE  RecordsOfRunningWork'
BY DEF RecordsOfRunningWork, Row

\* A request to stop leaves running work running; the write it overtakes fails.
LEMMA CancelKeepsRecords ==
    ASSUME TInv, RecordsOfRunningWork, NEW j \in Jobs, Cancel(j)
    PROVE  RecordsOfRunningWork'
<1>1. PICK hit \in SUBSET Exposed(j) :
          worker' = [w \in Workers |-> IF w \in hit THEN Overtaken(w) ELSE worker[w]]
  BY DEF Cancel
<1>2. job' = [job EXCEPT ![j] = AfterCancel(job[j], "REQUESTED_BY_PRINCIPAL")]
  BY DEF Cancel, Becomes
<1>3. job \in [Jobs -> JobRecord]
  BY DEF TInv, JobOK
<1>4. job[j].state = "RUNNING"
         => AfterCancel(job[j], "REQUESTED_BY_PRINCIPAL").state = "RUNNING"
  BY <1>3 DEF AfterCancel, IdleStates, JobRecord
<1>5. ASSUME NEW v \in Workers, Recording(v)'
      PROVE  Recording(v) /\ worker'[v].msg = worker[v].msg
  <2>1. CASE v \notin hit
    BY <1>1, <1>5, <2>1 DEF Recording
  <2>2. CASE v \in hit
    <3>1. worker'[v] = Overtaken(v) /\ worker[v] \in Invocation
      BY <1>1, <2>2 DEF TInv, WorkersOK
    <3> QED BY <1>5, <3>1 DEF Overtaken, Recording, Idle, Invocation
  <2> QED BY <2>1, <2>2
<1>6. ASSUME NEW v \in Workers, Recording(v)' PROVE Row(v)'.state = "RUNNING"
  <2>1. /\ Recording(v) /\ worker'[v].msg = worker[v].msg
        /\ Row(v).state = "RUNNING" /\ worker[v].msg.job \in Jobs
    BY <1>5, <1>6, BusyWorker DEF RecordsOfRunningWork, Recording
  <2> QED BY <1>2, <1>3, <1>4, <2>1 DEF Row
<1> QED BY <1>6 DEF RecordsOfRunningWork

\* A submission creates a job that no worker is recording anything of.
LEMMA SubmitKeepsRecords ==
    ASSUME TInv, RecordsOfRunningWork, NEW j \in Jobs, Submit(j)
    PROVE  RecordsOfRunningWork'
<1>1. /\ job[j].state = "ABSENT" /\ UNCHANGED worker
      /\ \A i \in Jobs : i # j => job'[i] = job[i]
  BY DEF Submit, CanAccept, Becomes, TInv, JobOK
<1>2. ASSUME NEW v \in Workers, Recording(v)' PROVE Row(v)'.state = "RUNNING"
  <2>1. /\ Recording(v) /\ worker'[v] = worker[v]
        /\ Row(v).state = "RUNNING" /\ worker[v].msg.job \in Jobs
    BY <1>1, <1>2, BusyWorker DEF RecordsOfRunningWork, Recording
  <2> QED BY <1>1, <2>1 DEF Row
<1> QED BY <1>2 DEF RecordsOfRunningWork

\* A delivery begins or ends: nobody comes to record anything.
LEMMA DeliveryKeepsRecords ==
    ASSUME TInv, RecordsOfRunningWork, NEW w \in Workers,
           Receive(w) \/ Claim(w) \/ Release(w) \/ Crash(w)
    PROVE  RecordsOfRunningWork'
<1>1. worker \in [Workers -> Invocation]
  BY DEF TInv, WorkersOK
<1>2. UNCHANGED job
  BY DEF Receive, Claim, Release, Crash
<1>3. ASSUME NEW v \in Workers, Recording(v)'
      PROVE  worker'[v] = worker[v]
  <2>1. CASE Receive(w)
    <3> DEFINE a(m) == [Idle EXCEPT !.pc = "claim", !.msg = [m EXCEPT !.n = @ + 1]]
    <3>1. PICK m \in queue :
              UNCHANGED worker \/ worker' = [worker EXCEPT ![w] = a(m)]
      BY <2>1 DEF Receive
    <3>2. a(m).pc = "claim"
      BY DEF Idle
    <3> HIDE DEF a
    <3> QED BY <1>1, <1>3, <3>1, <3>2 DEF Recording
  <2>2. CASE Release(w) \/ Crash(w)
    <3>1. worker' = [worker EXCEPT ![w] = Idle]
      BY <2>2 DEF Release, Crash
    <3> QED BY <1>1, <1>3, <3>1 DEF Recording, Idle
  <2>3. CASE Claim(w) /\ worker' = [worker EXCEPT ![w] = Idle]
    BY <1>1, <1>3, <2>3 DEF Recording, Idle
  <2>4. CASE Claim(w) /\ worker' # [worker EXCEPT ![w] = Idle]
    <3> DEFINE j == worker[w].msg.job
    <3>1. PICK hit \in SUBSET {u \in Exposed(j) \ {w} : worker[u].pc = "claim"},
               pc \in {Entry(j, worker[w].msg.reason)} \cup {"stop"} :
             worker' = [u \in Workers |->
                 CASE u = w -> [worker[w] EXCEPT !.pc = pc, !.asked = job[j].wait]
                   [] u \in hit -> Overtaken(u)
                   [] OTHER -> worker[u]]
      BY <2>4 DEF Claim
    <3>2. pc \notin {"record", "execute", "checkpoint", "failstep"}
      BY <3>1 DEF Entry, WaitingEntry
    <3>3. v # w
      <4>1. ASSUME v = w PROVE worker'[v].pc = pc
        BY <1>1, <3>1, <4>1 DEF Invocation
      <4> QED BY <1>3, <3>2, <4>1 DEF Recording
    <3>4. v \notin hit
      BY <1>3, <3>1, <3>3 DEF Overtaken, Recording, Idle
    <3> QED BY <3>1, <3>3, <3>4
  <2> QED BY <2>1, <2>2, <2>3, <2>4
<1>4. \A v \in Workers : Recording(v)' => Recording(v) /\ worker'[v].msg = worker[v].msg
  BY <1>3 DEF Recording
<1> QED BY <1>2, <1>4, QuietStepKeepsRecords

\* Where a worker's own step leaves it: on its message, at the place named.
LEMMA OwnStep ==
    ASSUME TInv, NEW w \in Workers
    PROVE  /\ \A pc : Goes(w, pc) \/ Ends(w, pc) \/ (\E why : Breaks(w, pc, why))
                  => /\ worker'[w].pc = pc /\ worker'[w].msg = worker[w].msg
                     /\ \A v \in Workers : v # w => worker'[v] = worker[v]
           /\ NextStep(w)
                  => /\ worker'[w].pc = "boundary" /\ worker'[w].msg = worker[w].msg
                     /\ \A v \in Workers : v # w => worker'[v] = worker[v]
<1>1. worker \in [Workers -> Invocation]
  BY DEF TInv, WorkersOK
<1>2. worker[w] \in Invocation
  BY <1>1
<1>3. ASSUME NEW pc, Goes(w, pc)
      PROVE  /\ worker'[w].pc = pc /\ worker'[w].msg = worker[w].msg
             /\ \A v \in Workers : v # w => worker'[v] = worker[v]
  BY <1>1, <1>2, <1>3 DEF Goes, Invocation
<1>4. ASSUME NEW pc, Ends(w, pc)
      PROVE  /\ worker'[w].pc = pc /\ worker'[w].msg = worker[w].msg
             /\ \A v \in Workers : v # w => worker'[v] = worker[v]
  <2> DEFINE a == [Idle EXCEPT !.pc = pc, !.msg = worker[w].msg]
  <2>1. a.pc = pc /\ a.msg = worker[w].msg
    BY DEF Idle
  <2>2. worker' = [worker EXCEPT ![w] = a]
    BY <1>4 DEF Ends
  <2> HIDE DEF a
  <2> QED BY <1>1, <2>1, <2>2
<1>5. ASSUME NEW pc, NEW why, Breaks(w, pc, why)
      PROVE  /\ worker'[w].pc = pc /\ worker'[w].msg = worker[w].msg
             /\ \A v \in Workers : v # w => worker'[v] = worker[v]
  BY <1>1, <1>2, <1>5 DEF Breaks, Invocation
<1>6. ASSUME NextStep(w)
      PROVE  /\ worker'[w].pc = "boundary" /\ worker'[w].msg = worker[w].msg
             /\ \A v \in Workers : v # w => worker'[v] = worker[v]
  BY <1>1, <1>2, <1>6 DEF NextStep, Invocation
<1> QED BY <1>3, <1>4, <1>5, <1>6

\* The transitions of a worker: only a reply's has something to record at once,
\* and it leaves the job running.
LEMMA TransitionsKeepRecords ==
    ASSUME TInv, OneDriver, RecordsOfRunningWork, NEW w \in Workers,
           \/ DispatchRow(w) \/ StartRow(w) \/ SettleRow(w) \/ PromoteRow(w)
           \/ Expire(w) \/ Resume(w) \/ Fail(w) \/ Stop(w)
    PROVE  RecordsOfRunningWork'
<1> DEFINE j == worker[w].msg.job
<1>1. Driving(w)
  BY DEF DispatchRow, StartRow, SettleRow, PromoteRow, Move, Expire, Resume, Fail,
         Stop, Driving
<1>2. j \in Jobs /\ job \in [Jobs -> JobRecord] /\ job[j] \in JobRecord
  BY <1>1, BusyWorker DEF Driving, TInv, JobOK
<1>3. UNCHANGED job \/ \E b : Becomes(j, b)
  BY DEF DispatchRow, StartRow, SettleRow, PromoteRow, Move, Expire, Resume, Fail, Stop
<1>4. \A i \in Jobs : i # j => job'[i] = job[i]
  BY <1>2, <1>3 DEF Becomes
<1>5. /\ worker'[w].msg = worker[w].msg
      /\ \A v \in Workers : v # w => worker'[v] = worker[v]
  <2>1. \E pc : Goes(w, pc) \/ Ends(w, pc) \/ (\E why : Breaks(w, pc, why))
    BY DEF DispatchRow, StartRow, SettleRow, PromoteRow, Move, Expire, Resume, Fail,
           Stop
  <2> QED BY <2>1, OwnStep
<1>6. ASSUME Recording(w)' PROVE Row(w)'.state = "RUNNING"
  <2>1. CASE Resume(w)
    <3>1. \/ Goes(w, "record") /\ Becomes(j, AfterResume(job[j]))
          \/ \E pc \in {"giveback", "fail", "release"} :
                 Ends(w, pc) \/ (\E why : Breaks(w, pc, why))
      BY <2>1 DEF Resume
    <3>2. Goes(w, "record") /\ Becomes(j, AfterResume(job[j]))
      BY <1>6, <3>1, OwnStep DEF Recording
    <3>3. AfterResume(job[j]).state = "RUNNING"
      BY <1>2 DEF AfterResume, JobRecord
    <3>4. job'[j] = AfterResume(job[j])
      BY <1>2, <3>2 DEF Becomes
    <3> QED BY <1>5, <3>3, <3>4 DEF Row
  <2>2. CASE ~Resume(w)
    <3>1. \E pc \in {"start", "boundary", "release", "requeue", "giveback", "settle"} :
              Goes(w, pc) \/ Ends(w, pc)
      BY <2>2 DEF DispatchRow, StartRow, SettleRow, PromoteRow, Move, Expire, Fail, Stop
    <3>2. worker'[w].pc \in {"start", "boundary", "release", "requeue", "giveback",
                             "settle"}
      BY <3>1, OwnStep
    <3> QED BY <1>6, <3>2 DEF Recording
  <2> QED BY <2>1, <2>2
<1> QED BY <1>1, <1>4, <1>5, <1>6, WorkerKeepsRecords

\* The steps of the plan: a step begins only on running work, and the rows stay.
LEMMA StepsKeepRecords ==
    ASSUME TInv, OneDriver, RecordsOfRunningWork, NEW w \in Workers,
           \/ ReadExpiry(w) \/ RecordAnswer(w) \/ Boundary(w) \/ Begin(w)
           \/ Execute(w) \/ RecordCheckpoint(w) \/ RecordFailure(w) \/ Requeue(w)
    PROVE  RecordsOfRunningWork'
<1>1. UNCHANGED job /\ Driving(w)
  BY DEF ReadExpiry, RecordAnswer, Boundary, Begin, Execute, RecordCheckpoint,
         RecordFailure, Requeue, Driving
<1>2. /\ worker'[w].msg = worker[w].msg
      /\ \A v \in Workers : v # w => worker'[v] = worker[v]
  <2>1. \/ \E pc : Goes(w, pc) \/ Ends(w, pc) \/ (\E why : Breaks(w, pc, why))
        \/ NextStep(w)
    BY DEF ReadExpiry, RecordAnswer, Boundary, Begin, Execute, RecordCheckpoint,
           RecordFailure, Requeue
  <2> QED BY <2>1, OwnStep
<1>3. ASSUME Recording(w)' PROVE Row(w).state = "RUNNING"
  <2>1. CASE Begin(w)
    <3>1. Row(w).state = "RUNNING" \/ worker'[w].pc \in {"boundary", "fail", "release"}
      BY <2>1, OwnStep DEF Begin, Row
    <3> QED BY <1>3, <3>1 DEF Recording
  <2>2. CASE Execute(w)
    BY <2>2 DEF Execute, RecordsOfRunningWork, Recording
  <2>3. CASE \/ ReadExpiry(w) \/ RecordAnswer(w) \/ Boundary(w)
             \/ RecordCheckpoint(w) \/ RecordFailure(w) \/ Requeue(w)
    <3>1. \/ \E pc \in {"expire", "release", "boundary", "settle", "begin", "stop",
                        "promote", "fail", "backoff", "giveback"} :
                 Goes(w, pc) \/ Ends(w, pc) \/ (\E why : Breaks(w, pc, why))
          \/ NextStep(w)
      BY <2>3 DEF ReadExpiry, RecordAnswer, Boundary, RecordCheckpoint, RecordFailure,
                  Requeue
    <3>2. worker'[w].pc \in {"expire", "release", "boundary", "settle", "begin", "stop",
                             "promote", "fail", "backoff", "giveback"}
      BY <3>1, OwnStep
    <3> QED BY <1>3, <3>2 DEF Recording
  <2> QED BY <2>1, <2>2, <2>3
<1> QED BY <1>1, <1>2, <1>3, WorkerKeepsRecords DEF Row

\* A worker that asks a person leaves the recording of its step.
LEMMA ClarifyKeepsRecords ==
    ASSUME TInv, OneDriver, RecordsOfRunningWork, NEW w \in Workers, Clarify(w)
    PROVE  RecordsOfRunningWork'
<1> DEFINE j == worker[w].msg.job
<1>1. Driving(w) /\ Recording(w) /\ Row(w).state = "RUNNING"
  BY DEF Clarify, Driving, Recording, RecordsOfRunningWork
<1>2. j \in Jobs /\ job \in [Jobs -> JobRecord] /\ job[j] \in JobRecord
  BY <1>1, BusyWorker DEF Driving, TInv, JobOK
<1>3. CASE Becomes(j, AfterPromote(job[j])) /\ UNCHANGED worker
  <2>1. AfterPromote(job[j]).state = "RUNNING"
    BY <1>1, <1>2 DEF AfterPromote, JobRecord, Row
  <2>2. job'[j] = AfterPromote(job[j]) /\ \A i \in Jobs : i # j => job'[i] = job[i]
    BY <1>2, <1>3 DEF Becomes
  <2>3. Row(w)'.state = "RUNNING"
    BY <1>3, <2>1, <2>2 DEF Row
  <2> QED BY <1>1, <1>3, <2>2, <2>3, WorkerKeepsRecords
<1>4. CASE \E b : Becomes(j, b) /\ Ends(w, "release")
  <2>1. \A i \in Jobs : i # j => job'[i] = job[i]
    BY <1>2, <1>4 DEF Becomes
  <2>2. /\ worker'[w].pc = "release"
        /\ \A v \in Workers : v # w => worker'[v] = worker[v]
    BY <1>4, OwnStep
  <2> QED BY <1>1, <2>1, <2>2, WorkerKeepsRecords DEF Recording
<1>5. CASE Breaks(w, "failstep", "INTERNAL") /\ UNCHANGED job
  <2>1. /\ worker'[w].msg = worker[w].msg
        /\ \A v \in Workers : v # w => worker'[v] = worker[v]
    BY <1>5, OwnStep
  <2> QED BY <1>1, <1>5, <2>1, WorkerKeepsRecords DEF Row
<1> QED BY <1>3, <1>4, <1>5 DEF Clarify

\* Every step of the system keeps the records to running work.
LEMMA NextRecords ==
    TInv /\ OneDriver /\ RecordsOfRunningWork /\ [Next]_vars => RecordsOfRunningWork'
<1> SUFFICES ASSUME TInv, OneDriver, RecordsOfRunningWork, [Next]_vars
             PROVE  RecordsOfRunningWork'
  OBVIOUS
<1>1. CASE UNCHANGED <<job, worker>>
  BY <1>1, QuietStepKeepsRecords DEF Recording
<1>2. CASE UNCHANGED vars
  BY <1>1, <1>2 DEF vars
<1>3. ASSUME NEW j \in Jobs, \/ Submit(j) \/ Cancel(j) \/ Answer(j)
                             \/ QuestionFallsDue(j) \/ LeaseLapses(j)
                             \/ SweepTimer(j) \/ SweepLease(j)
      PROVE  RecordsOfRunningWork'
  <2>1. CASE Submit(j) \/ Cancel(j)
    BY <2>1, SubmitKeepsRecords, CancelKeepsRecords
  <2>2. CASE ~(Submit(j) \/ Cancel(j))
    <3>1. UNCHANGED <<job, worker>>
      BY <1>3, <2>2 DEF Answer, QuestionFallsDue, LeaseLapses, SweepTimer, SweepLease
    <3> QED BY <1>1, <3>1
  <2> QED BY <2>1, <2>2
<1>4. ASSUME NEW i \in DOMAIN commands, Ring(i) \/ SweepCommand(i) \/ DispatcherDies(i)
      PROVE  UNCHANGED <<job, worker>>
  BY <1>4 DEF Ring, SweepCommand, DispatcherDies, Dispatch
<1>5. MessageReappears => UNCHANGED <<job, worker>>
  BY DEF MessageReappears
<1>6. ASSUME NEW w \in Workers, Receive(w) \/ Work(w) \/ Crash(w)
      PROVE  RecordsOfRunningWork'
  BY <1>6, DeliveryKeepsRecords, TransitionsKeepRecords, StepsKeepRecords,
     ClarifyKeepsRecords DEF Work
<1> QED BY <1>1, <1>2, <1>3, <1>4, <1>5, <1>6 DEF Next

\* Only running work is being recorded, in every reachable state.
LEMMA RecordsAlways == Spec => []RecordsOfRunningWork
<1>1. Init => RecordsOfRunningWork
  BY DEF Init, RecordsOfRunningWork, Recording, Idle
<1> QED BY <1>1, NextRecords, TInvAlways, ExecutionOneDriver, PTL DEF Spec

\* The write a step makes of steps and questions, to one job that has not ended.
WritesLiveJob(j) ==
    /\ ~Terminal(job[j])
    /\ \A i \in Jobs : i # j => step'[i] = step[i] /\ wait'[i] = wait[i]
NothingAfterTheEnd == \A j \in Jobs :
    Terminal(job[j]) => step'[j] = step[j] /\ wait'[j] = wait[j]

\* A step that writes the records of one live job writes none of an ended one.
LEMMA LiveWriteIsBeforeTheEnd ==
    ASSUME NEW j, WritesLiveJob(j)
    PROVE  NothingAfterTheEnd
BY DEF WritesLiveJob, NothingAfterTheEnd

\* A person's or a clock's write finds the job unfinished.
LEMMA PeopleWriteLiveJobs ==
    ASSUME TInv, QInv, NEW j \in Jobs, Cancel(j) \/ Answer(j) \/ QuestionFallsDue(j)
    PROVE  WritesLiveJob(j)
<1>1. WaitOK
  BY DEF TInv
<1>2. CASE Cancel(j)
  <2>1. CanCancel(job[j]) /\ wait' = WithClosed(j, "CLOSED") /\ UNCHANGED step
    BY <1>2 DEF Cancel
  <2>2. ~Terminal(job[j])
    BY <2>1, NoEventAfterTheEnd
  <2> QED BY <1>1, <2>1, <2>2 DEF WritesLiveJob, WithClosed, WaitOK
<1>3. CASE Answer(j)
  <2>1. /\ job[j].state = "WAITING_FOR_USER" /\ UNCHANGED step
        /\ \E k \in Waits : wait' = [wait EXCEPT ![j][k] = "ANSWERED"]
    BY <1>3 DEF Answer
  <2> QED BY <1>1, <2>1 DEF WritesLiveJob, WaitOK, Terminal, TerminalStates
<1>4. CASE QuestionFallsDue(j)
  <2>1. PICK k \in Waits : /\ wait[j][k] = "OPEN"
                           /\ wait' = [wait EXCEPT ![j][k] = "DUE"]
    BY <1>4 DEF QuestionFallsDue
  <2>2. job[j].state = "WAITING_FOR_USER" /\ UNCHANGED step
    BY <1>4, <2>1, RowAndQuestions DEF QuestionFallsDue, RowsAgree, Unanswered
  <2> QED BY <1>1, <2>1, <2>2 DEF WritesLiveJob, WaitOK, Terminal, TerminalStates
<1> QED BY <1>2, <1>3, <1>4

\* A worker's write to a question comes with a transition, which finds the job
\* unfinished.
LEMMA TransitionsWriteLiveJobs ==
    ASSUME TInv, NEW w \in Workers, Expire(w) \/ Clarify(w) \/ Fail(w) \/ Stop(w)
    PROVE  NothingAfterTheEnd
<1> DEFINE j == worker[w].msg.job
<1>1. WaitOK /\ UNCHANGED step
  BY DEF TInv, Expire, Clarify, Fail, Stop
<1>2. CASE UNCHANGED wait
  BY <1>1, <1>2 DEF NothingAfterTheEnd
<1>3. ASSUME NEW status, wait' = WithClosed(j, status),
             CanExpire(job[j], worker[w].asked) \/ CanFail(job[j]) \/ CanCancel(job[j])
      PROVE  NothingAfterTheEnd
  <2>1. ~Terminal(job[j])
    BY <1>3, NoEventAfterTheEnd
  <2>2. WritesLiveJob(j)
    BY <1>1, <1>3, <2>1 DEF WritesLiveJob, WithClosed, WaitOK
  <2> QED BY <2>2, LiveWriteIsBeforeTheEnd
<1>4. ASSUME NEW k \in Waits, wait' = [wait EXCEPT ![j][k] = "OPEN"], CanAsk(job[j], j)
      PROVE  NothingAfterTheEnd
  <2>1. ~Terminal(job[j])
    BY <1>4, NoEventAfterTheEnd
  <2>2. WritesLiveJob(j)
    BY <1>1, <1>4, <2>1 DEF WritesLiveJob, WaitOK
  <2> QED BY <2>2, LiveWriteIsBeforeTheEnd
<1> QED BY <1>2, <1>3, <1>4 DEF Expire, Clarify, Fail, Stop

\* A worker's write to a step is of running work.
LEMMA StepsWriteLiveJobs ==
    ASSUME TInv, RecordsOfRunningWork, NEW w \in Workers,
           RecordAnswer(w) \/ Begin(w) \/ RecordCheckpoint(w) \/ RecordFailure(w)
    PROVE  NothingAfterTheEnd
<1> DEFINE j == worker[w].msg.job
<1>1. UNCHANGED wait /\ StepOK
  BY DEF TInv, RecordAnswer, Begin, RecordCheckpoint, RecordFailure
<1>2. CASE UNCHANGED step
  BY <1>1, <1>2 DEF NothingAfterTheEnd
<1>3. ASSUME step' # step
      PROVE  /\ Row(w).state = "RUNNING"
             /\ \A i \in Jobs : i # j => step'[i] = step[i]
  <2>1. CASE Begin(w)
    BY <1>1, <1>3, <2>1 DEF Begin, Row, StepOK
  <2>2. CASE RecordAnswer(w) \/ RecordCheckpoint(w) \/ RecordFailure(w)
    <3>1. Recording(w)
      BY <2>2 DEF RecordAnswer, RecordCheckpoint, RecordFailure, Recording
    <3>2. \A i \in Jobs : i # j => step'[i] = step[i]
      BY <1>1, <2>2 DEF RecordAnswer, RecordCheckpoint, RecordFailure, Checkpointed,
                        StepOK
    <3> QED BY <3>1, <3>2 DEF RecordsOfRunningWork
  <2> QED BY <2>1, <2>2
<1>4. CASE step' # step
  <2>1. WritesLiveJob(j)
    BY <1>1, <1>3, <1>4 DEF WritesLiveJob, Row, Terminal, TerminalStates
  <2> QED BY <2>1, LiveWriteIsBeforeTheEnd
<1> QED BY <1>2, <1>4

\* The actions that write neither a step's row nor a question.
LEMMA NoWriteElsewhere ==
    /\ \A j \in Jobs : Submit(j) \/ LeaseLapses(j) \/ SweepTimer(j) \/ SweepLease(j)
          => UNCHANGED <<step, wait>>
    /\ \A i \in DOMAIN commands : Ring(i) \/ SweepCommand(i) \/ DispatcherDies(i)
          => UNCHANGED <<step, wait>>
    /\ MessageReappears => UNCHANGED <<step, wait>>
    /\ \A w \in Workers :
          Receive(w) \/ Claim(w) \/ DispatchRow(w) \/ StartRow(w) \/ SettleRow(w)
          \/ PromoteRow(w) \/ ReadExpiry(w) \/ Resume(w) \/ Boundary(w) \/ Execute(w)
          \/ Requeue(w) \/ Release(w) \/ Crash(w) => UNCHANGED <<step, wait>>
BY DEF Submit, LeaseLapses, SweepTimer, SweepLease, Ring, SweepCommand,
       DispatcherDies, Dispatch, MessageReappears, Receive, Claim, DispatchRow,
       StartRow, SettleRow, PromoteRow, Move, ReadExpiry, Resume, Boundary, Execute,
       Requeue, Release, Crash

\* Nobody records a step, a question or a reply of a job that has ended, whoever was
\* still working on it, asking or answering when it ended.
THEOREM ExecutionEndedWorkStopped == Spec => EndedWorkStopped
<1>1. TInv /\ QInv /\ RecordsOfRunningWork /\ [Next]_vars => [NothingAfterTheEnd]_vars
  <2> SUFFICES ASSUME TInv, QInv, RecordsOfRunningWork, Next PROVE NothingAfterTheEnd
    OBVIOUS
  <2>1. CASE UNCHANGED <<step, wait>>
    BY <2>1 DEF NothingAfterTheEnd
  <2>2. ASSUME NEW j \in Jobs, Cancel(j) \/ Answer(j) \/ QuestionFallsDue(j)
        PROVE  NothingAfterTheEnd
    BY <2>2, PeopleWriteLiveJobs, LiveWriteIsBeforeTheEnd
  <2>3. ASSUME NEW w \in Workers,
               \/ Expire(w) \/ Clarify(w) \/ Fail(w) \/ Stop(w) \/ RecordAnswer(w)
               \/ Begin(w) \/ RecordCheckpoint(w) \/ RecordFailure(w)
        PROVE  NothingAfterTheEnd
    BY <2>3, TransitionsWriteLiveJobs, StepsWriteLiveJobs
  <2> QED BY <2>1, <2>2, <2>3, NoWriteElsewhere DEF Next, Work
<1> QED BY <1>1, TInvAlways, QInvAlways, RecordsAlways, PTL
           DEF Spec, EndedWorkStopped, NothingAfterTheEnd

-----------------------------------------------------------------------------
(* What a record of a result or of a reply goes through.                    *)

ResultsStay == \A j \in Jobs, s \in StepKeys :
    step[j][s].state = "SUCCEEDED" => step'[j][s] = step[j][s]
RepliesStay == \A j \in Jobs, k \in Waits :
    wait[j][k] = "ANSWERED" => wait'[j][k] = "ANSWERED"

\* A step's row is written only by a worker at its step, and a row that succeeded
\* is left as it is by each of the four writes.
LEMMA ResultsStayLemma ==
    ASSUME TInv, [Next]_vars
    PROVE  ResultsStay
<1>1. StepOK
  BY DEF TInv
<1>2. CASE UNCHANGED step
  BY <1>2 DEF ResultsStay
<1>3. ASSUME NEW w \in Workers, Begin(w) PROVE ResultsStay
  <2>1. /\ worker[w].msg.job \in Jobs /\ StepOf(w) \in StepKeys
        /\ \/ UNCHANGED step
           \/ /\ step[worker[w].msg.job][StepOf(w)].state # "SUCCEEDED"
              /\ \E r : step' = [step EXCEPT ![worker[w].msg.job][StepOf(w)] = r]
    BY <1>3, BusyWorker DEF Begin
  <2> QED BY <1>1, <2>1 DEF ResultsStay, StepOK
<1>4. ASSUME NEW j \in Jobs, NEW s \in StepKeys, NEW status,
             step' = [step EXCEPT ![j][s].state = IF @ = "RUNNING" THEN status ELSE @]
      PROVE  ResultsStay
  <2>1. \A i \in Jobs, r \in StepKeys : step[i][r] \in StepRow
    BY <1>1 DEF StepOK
  <2>2. \A i \in Jobs, r \in StepKeys : ~(i = j /\ r = s) => step'[i][r] = step[i][r]
    BY <1>1, <1>4 DEF StepOK
  <2>3. step'[j][s] = [step[j][s] EXCEPT !.state = IF @ = "RUNNING" THEN status ELSE @]
    BY <1>1, <1>4 DEF StepOK
  <2>4. step[j][s].state = "SUCCEEDED" => step'[j][s] = step[j][s]
    BY <2>1, <2>3 DEF StepRow
  <2> QED BY <2>2, <2>4 DEF ResultsStay
<1>5. ASSUME NEW w \in Workers, RecordAnswer(w) \/ RecordCheckpoint(w) \/ RecordFailure(w)
      PROVE  ResultsStay
  <2>1. worker[w].msg.job \in Jobs /\ StepOf(w) \in StepKeys /\ "dark.clarify" \in StepKeys
    BY <1>5, BusyWorker DEF RecordAnswer, RecordCheckpoint, RecordFailure, StepKeys
  <2> QED BY <1>4, <1>5, <2>1
             DEF RecordAnswer, RecordCheckpoint, RecordFailure, Checkpointed
<1>6. ASSUME NEW w \in Workers, Expire(w) \/ Clarify(w) \/ Fail(w) \/ Stop(w)
      PROVE  UNCHANGED step
  BY <1>6 DEF Expire, Clarify, Fail, Stop
<1>7. ASSUME NEW j \in Jobs, Cancel(j) \/ Answer(j) \/ QuestionFallsDue(j)
      PROVE  UNCHANGED step
  BY <1>7 DEF Cancel, Answer, QuestionFallsDue
<1>8. CASE UNCHANGED vars
  BY <1>2, <1>8 DEF vars
<1> QED BY <1>2, <1>3, <1>5, <1>6, <1>7, <1>8, NoWriteElsewhere DEF Next, Work

\* A question that was answered is neither closed nor expired nor asked again.
LEMMA RepliesStayLemma ==
    ASSUME TInv, [Next]_vars
    PROVE  RepliesStay
<1>1. WaitOK
  BY DEF TInv
<1>2. CASE UNCHANGED wait
  BY <1>2 DEF RepliesStay
<1>3. ASSUME NEW j \in Jobs, NEW status, wait' = WithClosed(j, status) PROVE RepliesStay
  BY <1>1, <1>3 DEF WithClosed, RepliesStay, WaitOK, Unanswered
<1>4. ASSUME NEW j \in Jobs, NEW k \in Waits, NEW status,
             wait' = [wait EXCEPT ![j][k] = status],
             wait[j][k] = "ANSWERED" => status = "ANSWERED"
      PROVE  RepliesStay
  BY <1>1, <1>4 DEF RepliesStay, WaitOK
<1>5. ASSUME NEW w \in Workers, Expire(w) \/ Clarify(w) \/ Fail(w) \/ Stop(w)
      PROVE  RepliesStay
  <2>1. worker[w].msg.job \in Jobs
    BY <1>5, BusyWorker DEF Expire, Clarify, Fail, Stop
  <2> QED BY <1>2, <1>3, <1>4, <1>5, <2>1 DEF Expire, Clarify, Fail, Stop
<1>6. ASSUME NEW j \in Jobs, Cancel(j) \/ Answer(j) \/ QuestionFallsDue(j)
      PROVE  RepliesStay
  BY <1>3, <1>4, <1>6 DEF Cancel, Answer, QuestionFallsDue
<1>7. ASSUME NEW w \in Workers,
             RecordAnswer(w) \/ Begin(w) \/ RecordCheckpoint(w) \/ RecordFailure(w)
      PROVE  UNCHANGED wait
  BY <1>7 DEF RecordAnswer, Begin, RecordCheckpoint, RecordFailure
<1>8. CASE UNCHANGED vars
  BY <1>2, <1>8 DEF vars
<1> QED BY <1>2, <1>5, <1>6, <1>7, <1>8, NoWriteElsewhere DEF Next, Work

\* A recorded result and a recorded reply are never replaced, whoever repeats the
\* step, takes the job over, closes its question or expires it.
THEOREM ExecutionRecordsStand == Spec => RecordsStand
<1> DEFINE Stands == \A j \in Jobs :
        /\ \A s \in StepKeys :
              step[j][s].state = "SUCCEEDED" => step'[j][s] = step[j][s]
        /\ \A k \in Waits : wait[j][k] = "ANSWERED" => wait'[j][k] = "ANSWERED"
<1>1. TInv /\ [Next]_vars => Stands
  BY ResultsStayLemma, RepliesStayLemma DEF ResultsStay, RepliesStay
<1> QED BY <1>1, TInvAlways, PTL DEF Spec, RecordsStand
=============================================================================
