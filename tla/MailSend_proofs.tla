--------------------------- MODULE MailSend_proofs ---------------------------
(***************************************************************************)
(* Theorems of MailSend, for any requests, attempts, words and policies    *)
(* that satisfy its assumptions.                                           *)
(*                                                                         *)
(* IInv is the inductive invariant.  What makes it inductive is            *)
(*   - time (Clocks): a request that is about to transmit claimed its row  *)
(*     in its own lifetime, so the sweep of old claims cannot reach it;    *)
(*     a message is accepted before its attempt settles, so it is in the   *)
(*     window a complete look reads;                                       *)
(*   - ownership (Holders): no two requests hold one attempt, and the one  *)
(*     about to transmit is the one the row names;                         *)
(*   - what a look knew stays true (Lookers): an attempt found absent was  *)
(*     not about to be transmitted, and no request can do so any more.     *)
(*                                                                         *)
(* A step that neither claims nor transmits is QUIET: it moves one request *)
(* to where it holds nothing (Fits) and writes the row in one of five ways *)
(* (QuietRow).  Both the invariant and the refinement are proved for quiet *)
(* steps once, and for each of the others by itself.                       *)
(***************************************************************************)
EXTENDS MailSend, FiniteSetTheorems, TLAPS

\* The row agrees with the attempt it names, and with the words it may send.
RowHolds ==
    /\ row.state \in {"DRAFT"} \cup InDoubt => row.words \in Words
    /\ row.state # None => reply >= 1
    /\ row.state \in InDoubt =>
          /\ row.attempt \in Attempts /\ row.started <= now
          /\ mail[row.attempt].reply = reply
          /\ mail[row.attempt].start = row.started
    /\ \A p \in Requests : req[p].pc = "claim" => req[p].words \in Words

\* The ages of requests, of messages on the wire and of those accepted.
Clocks ==
    /\ \A p \in Requests : req[p].pc # "idle" =>
          req[p].born <= now /\ now - req[p].born <= RequestLife /\ req[p].at <= now
    /\ \A a \in Attempts :
          /\ mail[a].fate = "WIRE" => mail[a].start <= now /\ now - mail[a].start < Settle
          /\ mail[a].fate = "IN" => mail[a].start <= mail[a].at /\ mail[a].at - mail[a].start < Settle

\* An attempt that was claimed, which no later claim can pick.
Used(a) == a \in Attempts /\ 1 <= mail[a].reply
Replies ==
    /\ \A a \in Attempts : mail[a].reply <= reply
    /\ \A a \in Attempts : mail[a].fate # "FREE" => Used(a)
    /\ \A a \in released : Used(a)

\* The requests that hold an attempt of their own.
Holds == {"abandon", "transmit", "answer"}
Holders == \A p \in Requests :
    /\ req[p].pc \in Holds => Used(req[p].attempt)
    /\ req[p].pc \in {"abandon", "transmit"} => mail[req[p].attempt].fate = "FREE"
    /\ req[p].pc = "transmit" =>
          /\ row.state = "SENDING" /\ row.attempt = req[p].attempt
          /\ row.words = req[p].words /\ row.hash = req[p].words
          /\ req[p].born <= row.started
    /\ \A q \in Requests : 
          req[p].pc \in Holds /\ req[q].pc \in Holds /\ req[p].attempt = req[q].attempt => p = q

\* What a request keeps of an attempt it looked at stays true.
Lookers == \A p \in Requests :
    /\ req[p].pc \in {"look", "settle", "release"} =>
          Used(req[p].attempt) /\ ~Sending(req[p].attempt)
    /\ req[p].pc = "look" => req[p].started = mail[req[p].attempt].start
    /\ req[p].pc = "settle" /\ req[p].verdict = "NOT_SENT" =>
          mail[req[p].attempt].fate \in {"FREE", "LOST"}

\* The inductive invariant.
IInv == /\ TypeOK /\ RowHolds /\ Clocks /\ Replies /\ Holders /\ Lookers
        /\ NoStrayMessage /\ EvidenceIsFrozen

-----------------------------------------------------------------------------
\* The type of each field of the row.
LEMMA RowTypes ==
    ASSUME TypeOK PROVE /\ row.state \in {None, "DRAFT", "SENDING", "SEND_UNKNOWN", "SENT"}
      /\ row.id \in Nat /\ row.words \in AnyWords /\ row.attempt \in AnyAttempt
      /\ row.started \in Nat /\ row.hash \in AnyWords /\ row.reconciled \in Nat \cup {Never}
      /\ now \in Nat /\ reply \in Nat
BY DEF TypeOK

\* The records requests are given are requests.
LEMMA IdleIsRequest == Idle \in Request
BY DEF Idle, Request, Places, AnyWords, AnyAttempt

\* A request as it begins, with the words the person saw or without.
LEMMA AskedIsRequest ==
    ASSUME TypeOK, NEW kind \in {"VIEW", "CHECK", "RELEASE"}, NEW pc \in Places, NEW w \in AnyWords
    PROVE Asked(kind, pc) \in Request /\ [Asked(kind, pc) EXCEPT !.words = w] \in Request
<1>1. Asked(kind, pc) \in Request
  <2>1. now \in Nat /\ row.id \in Nat
    BY RowTypes
  <2>2. \A r \in Request : [r EXCEPT !.kind = kind, !.pc = pc, !.born = now, !.id = row.id] \in Request
    BY <2>1 DEF Request
  <2> QED
    BY <2>2, IdleIsRequest DEF Asked
<1>2. \A r \in Request : [r EXCEPT !.words = w] \in Request
  BY DEF Request
<1> QED
  BY <1>1, <1>2

\* A request that lets go of what it read of the row.
LEMMA ForgottenIsRequest ==
    ASSUME NEW r \in Request, NEW pc \in Places
    PROVE [Idle EXCEPT !.pc = pc, !.kind = r.kind, !.born = r.born, !.id = r.id] \in Request
BY DEF Idle, Request, Places, AnyWords, AnyAttempt

\* A request that sets out to look the attempt up.
LEMMA LooksIsRequest ==
    ASSUME TypeOK, NEW r \in Request, NEW at \in Nat
    PROVE Looks(r, at) \in Request
<1>1. (IF r.kind = "RELEASE" THEN r.kind ELSE "VIEW") \in {None, "VIEW", "CHECK", "RELEASE"}
  BY DEF Request
<1>2. "look" \in Places
  BY DEF Places
<1>3. row.attempt \in AnyAttempt /\ row.started \in Nat /\ row.hash \in AnyWords
  BY RowTypes
<1>4. [r EXCEPT !.pc = "look", !.at = at, !.attempt = row.attempt,
               !.started = row.started, !.words = row.hash,
               !.kind = IF r.kind = "RELEASE" THEN r.kind ELSE "VIEW"] \in Request
  BY <1>1, <1>2, <1>3 DEF Request
<1> QED
  BY <1>4, IdleIsRequest DEF Looks

\* A request that has just read the row.
LEMMA ReadingIsRequest ==
    ASSUME TypeOK, NEW r \in Request
    PROVE Reading(r) \in Request
<1>1. "mark" \in Places
  BY DEF Places
<1>2. [r EXCEPT !.pc = "mark", !.at = now] \in Request
  BY <1>1, RowTypes DEF Request
<1>3. Looks(r, now) \in Request
  BY LooksIsRequest, RowTypes
<1> QED
  BY <1>2, <1>3, IdleIsRequest DEF Reading
-----------------------------------------------------------------------------
TInv == TypeOK /\ RowHolds

ReqOK == req \in [Requests -> Request]
RowOK ==
    /\ row \in [state : {None, "DRAFT", "SENDING", "SEND_UNKNOWN", "SENT"},
                id : Nat, words : AnyWords, attempt : AnyAttempt,
                started : Nat, hash : AnyWords, reconciled : Nat \cup {Never}]
    /\ RowShape
Message == [fate : {"FREE", "WIRE", "IN", "LOST"}, reply : Nat,
            words : AnyWords, start : Nat, at : Nat]
RestOK == /\ reply \in Nat /\ now \in Nat /\ released \subseteq Attempts
          /\ mail \in [Attempts -> Message]

\* The type invariant by variable.
LEMMA Parts == TypeOK <=> ReqOK /\ RowOK /\ RestOK
BY DEF TypeOK, ReqOK, RowOK, RestOK, Message

\* The two rows that keep nothing of an attempt are rows.
LEMMA DraftIsRow ==
    ASSUME NEW id \in Nat, NEW w \in AnyWords, row' = Draft(id, w)
    PROVE RowOK'
BY DEF Draft, NoRow, RowOK, RowShape, InDoubt, AnyWords, AnyAttempt, Never

\* Discarding the draft leaves no row, which is a state of the row.
LEMMA NoRowIsRow == row' = NoRow => RowOK'
BY NamesAssumption DEF None, NoRow, RowOK, RowShape, InDoubt, AnyWords,
   AnyAttempt, Never

\* What a step of one request does to the requests.
LEMMA ReqSteps ==
    ASSUME TypeOK, NEW p \in Requests, NEW r \in Request, req' = [req EXCEPT ![p] = r]
    PROVE  /\ ReqOK' /\ req'[p] = r
           /\ \A q \in Requests : q # p => req'[q] = req[q]
BY DEF TypeOK, ReqOK

\* A request that goes on moves alone and keeps what it holds.
LEMMA GoesSteps ==
    ASSUME TypeOK, NEW p \in Requests, NEW pc \in Places, Goes(p, pc)
    PROVE  /\ ReqOK' /\ req'[p] = [req[p] EXCEPT !.pc = pc]
           /\ \A q \in Requests : q # p => req'[q] = req[q]
<1>1. \A r \in Request : [r EXCEPT !.pc = pc] \in Request
  BY DEF Request
<1>2. req[p] \in Request
  BY DEF TypeOK
<1>3. req' = [req EXCEPT ![p] = [req[p] EXCEPT !.pc = pc]]
  BY DEF Goes
<1> QED
  BY <1>1, <1>2, <1>3, ReqSteps

\* A request that ends moves alone and becomes idle.
LEMMA EndsSteps ==
    ASSUME TypeOK, NEW p \in Requests, Ends(p)
    PROVE  /\ ReqOK' /\ req'[p] = Idle
           /\ \A q \in Requests : q # p => req'[q] = req[q]
BY ReqSteps, IdleIsRequest DEF Ends

\* A request that forgets what it read moves alone.
LEMMA ForgetsSteps ==
    ASSUME TypeOK, NEW p \in Requests, NEW pc \in Places, Forgets(p, pc)
    PROVE  /\ ReqOK'
           /\ req'[p] = [Idle EXCEPT !.pc = pc, !.kind = req[p].kind,
                                     !.born = req[p].born, !.id = req[p].id]
           /\ \A q \in Requests : q # p => req'[q] = req[q]
<1>1. req[p] \in Request
  BY DEF TypeOK
<1> QED
  BY <1>1, ForgottenIsRequest, ReqSteps DEF Forgets

\* Every step keeps the types; a claim fingerprints words, never nothing,
\* which is what the first conjunct of RowHolds is for.
LEMMA TypesStep == TypeOK /\ RowHolds /\ [Next]_vars => TypeOK'
<1> SUFFICES ASSUME TypeOK, RowHolds, [Next]_vars PROVE TypeOK'
  OBVIOUS
<1>t. ReqOK /\ RowOK /\ RestOK
  BY Parts
<1> SUFFICES ReqOK' /\ RowOK' /\ RestOK'
  BY PTL, Parts
<1>a. UNCHANGED row => RowOK'
  BY <1>t DEF RowOK, RowShape
<1>b. UNCHANGED req => ReqOK'
  BY <1>t DEF ReqOK
<1>c. UNCHANGED <<reply, now, released, mail>> => RestOK'
  BY <1>t DEF RestOK
<1>d. \A q \in Requests : req[q] \in Request /\ req[q].attempt \in AnyAttempt
          /\ req[q].words \in AnyWords /\ req[q].at \in Nat
  BY <1>t DEF ReqOK, Request
<1>e. \A q \in Requests : Draft(row.id, row.words) = row' => RowOK'
  BY DraftIsRow, RowTypes
<1>f. ASSUME row.state \in InDoubt, row' = [row EXCEPT !.state = "SENT", !.words = None] PROVE RowOK'
  BY <1>t, <1>f, NamesAssumption DEF RowOK, RowShape, InDoubt, AnyWords, None
<1>g. ASSUME row.state \in InDoubt, row' = [row EXCEPT !.state = "SEND_UNKNOWN"] PROVE RowOK'
  BY <1>t, <1>g, NamesAssumption DEF RowOK, RowShape, InDoubt, AnyWords, None
<1>1. CASE \E w \in Words : Save(w)
  <2> PICK w \in Words : Save(w)
    BY <1>1
  <2>1. RowOK'
    <3>1. CASE /\ row.state \in {None, "SENT"} /\ reply' = reply + 1
               /\ row' = Draft(IF row.state = None THEN reply' ELSE row.id, w)
      BY <3>1, DraftIsRow, RowTypes DEF AnyWords
    <3>2. CASE row.state = "DRAFT" /\ row' = [row EXCEPT !.words = w]
      BY <3>2, <1>t DEF RowOK, RowShape, InDoubt, AnyWords, None
    <3> QED
      BY <3>1, <3>2 DEF Save
  <2>2. RestOK'
    BY <1>t DEF Save, RestOK
  <2> QED
    BY <2>1, <2>2, <1>b DEF Save
<1>2. CASE Discard
  BY <1>2, <1>b, <1>c, NoRowIsRow DEF Discard
<1>3. ASSUME NEW p \in Requests, Step(p) PROVE ReqOK' /\ RowOK' /\ RestOK'
  <2>1. CASE SendDraft(p)
    <3>1. [Asked("VIEW", "claim") EXCEPT !.words = row.words] \in Request
      BY AskedIsRequest, RowTypes DEF Places
    <3> QED
      BY <2>1, <3>1, <1>a, <1>c, ReqSteps DEF SendDraft
  <2>2. CASE ClaimForSend(p)
    <3>1. CASE row.state = "DRAFT" /\ row.id = req[p].id
      <4>1. PICK a \in Attempts, s \in req[p].born .. now :
              /\ mail[a] = Unused /\ row' = Claimed(p, a, s)
              /\ mail' = [mail EXCEPT ![a].reply = reply, ![a].start = s]
              /\ req' = [req EXCEPT ![p].attempt = a, ![p].pc =
                    IF row.words = req[p].words THEN "transmit" ELSE "abandon"]
        BY <2>2, <3>1 DEF ClaimForSend
      <4>2. s \in Nat
        BY <4>1, <1>d DEF Request
      <4>3. req[p].words \in Words
        BY <2>2 DEF RowHolds, ClaimForSend
      <4>4. RowOK'
        BY <4>1, <4>2, <4>3, <1>t, <1>d, NamesAssumption DEF RowOK, RowShape,
           InDoubt, AnyWords, AnyAttempt, Claimed, None, Never
      <4>5. RestOK'
        <5>1. mail' = [mail EXCEPT ![a] = [mail[a] EXCEPT !.reply = reply, !.start = s]]
          BY <4>1
        <5>2. [mail[a] EXCEPT !.reply = reply, !.start = s] \in Message
          BY <4>2, <1>t DEF RestOK, Message
        <5> QED
          BY <5>1, <5>2, <1>t, <2>2 DEF RestOK, ClaimForSend
      <4>6. ReqOK'
        <5> DEFINE pc == IF row.words = req[p].words THEN "transmit" ELSE "abandon"
        <5>1. req' = [req EXCEPT ![p] = [req[p] EXCEPT !.attempt = a, !.pc = pc]]
          BY <4>1
        <5>2. pc \in Places
          BY DEF Places
        <5> HIDE DEF pc
        <5>3. [req[p] EXCEPT !.attempt = a, !.pc = pc] \in Request
          BY <5>2, <1>d DEF Request, AnyAttempt
        <5> QED
          BY <5>1, <5>3, ReqSteps
      <4> QED
        BY <4>4, <4>5, <4>6
    <3>2. CASE ~(row.state = "DRAFT" /\ row.id = req[p].id)
      <4>1. Ends(p) /\ UNCHANGED <<row, mail, reply, released, now>>
        BY <2>2, <3>2 DEF ClaimForSend
      <4> QED
        BY <4>1, <1>a, <1>c, EndsSteps
    <3> QED
      BY <3>1, <3>2
  <2>3. CASE AbandonClaim(p)
    BY <2>3, <1>a, <1>c, <1>e, EndsSteps DEF AbandonClaim, Update
  <2>4. CASE Transmit(p)
    <3>1. PICK fate \in {"WIRE", "LOST"} : mail' = [mail EXCEPT
           ![req[p].attempt].fate = fate, ![req[p].attempt].words = req[p].words]
      BY <2>4 DEF Transmit
    <3> DEFINE a == req[p].attempt
    <3>2. mail' = [mail EXCEPT ![a] = [mail[a] EXCEPT !.fate = fate, !.words = req[p].words]]
      BY <3>1
    <3>3. req[p].words \in AnyWords
      BY <1>d
    <3> HIDE DEF a
    <3>4. \A m \in Message : [m EXCEPT !.fate = fate, !.words = req[p].words] \in Message
      BY <3>3 DEF Message
    <3>5. mail' \in [Attempts -> Message]
      BY <3>2, <3>4, <1>t DEF RestOK
    <3>6. Goes(p, "answer") /\ UNCHANGED <<row, reply, released, now>>
      BY <2>4 DEF Transmit
    <3> QED
      BY <3>5, <3>6, <1>a, <1>t, GoesSteps DEF RestOK, Places
  <2>5. CASE RecordSent(p)
    BY <2>5, <1>a, <1>c, <1>f, EndsSteps DEF RecordSent, Update
  <2>6. CASE RecordNotSent(p)
    BY <2>6, <1>a, <1>c, <1>e, EndsSteps DEF RecordNotSent, Update
  <2>7. CASE RecordUnknown(p)
    BY <2>7, <1>a, <1>c, <1>g, ForgetsSteps DEF RecordUnknown, Update, InDoubt,
       Places
  <2>8. CASE Reconcile(p)
    <3>1. PICK kind \in {"VIEW", "CHECK"} :
             req' = [req EXCEPT ![p] = Reading(Asked(kind, "read"))]
      BY <2>8 DEF Reconcile
    <3>2. Asked(kind, "read") \in Request
      BY AskedIsRequest DEF Places, AnyWords
    <3> QED
      BY <2>8, <3>1, <3>2, <1>a, <1>c, ReadingIsRequest, ReqSteps DEF Reconcile
  <2>9. CASE ReadDraft(p)
    BY <2>9, <1>a, <1>c, <1>d, ReadingIsRequest, ReqSteps DEF ReadDraft
  <2>10. CASE MarkStaleAttemptUnknown(p)
    BY <2>10, <1>a, <1>c, <1>g, GoesSteps DEF MarkStaleAttemptUnknown, Update,
       InDoubt, Places, Stale
  <2>11. CASE RereadDraft(p)
    BY <2>11, <1>a, <1>c, <1>d, LooksIsRequest, IdleIsRequest, ReqSteps
       DEF RereadDraft
  <2>12. CASE LookupSent(p)
    <3>1. PICK seen \in SUBSET InWindow(req[p].started), complete \in BOOLEAN :
             Concludes(p, Verdict(p, seen, complete))
      BY <2>12 DEF LookupSent
    <3> DEFINE v == Verdict(p, seen, complete)
    <3>2. v \in {"SENT", "NOT_SENT", "UNKNOWN"}
      BY DEF Verdict
    <3> HIDE DEF v
    <3>3. req' = [req EXCEPT ![p] = [req[p] EXCEPT
                    !.pc = "settle", !.verdict = v, !.words = None, !.started = 0]]
      BY <3>1 DEF Concludes, v
    <3>4. [req[p] EXCEPT !.pc = "settle", !.verdict = v, !.words = None, !.started = 0] \in Request
      BY <3>2, <1>d DEF Request, Places, AnyWords
    <3> QED
      BY <2>12, <3>3, <3>4, <1>a, <1>c, ReqSteps DEF LookupSent
  <2>13. CASE SettleDoubt(p)
    <3>1. ReqOK'
      BY <2>13, EndsSteps, ForgetsSteps DEF SettleDoubt, Places
    <3>2. ASSUME row' = [row EXCEPT !.reconciled = req[p].at] PROVE RowOK'
      BY <3>2, <1>d, <1>t DEF RowOK, RowShape
    <3>3. RowOK'
      BY <2>13, <1>a, <1>e, <1>f, <3>2 DEF SettleDoubt, Update
    <3> QED
      BY <2>13, <3>1, <3>3, <1>c DEF SettleDoubt
  <2>14. CASE ReleaseUnconfirmed(p)
    <3>1. Asked("RELEASE", "read") \in Request
      BY AskedIsRequest DEF Places, AnyWords
    <3> QED
      BY <2>14, <3>1, <1>a, <1>c, ReqSteps DEF ReleaseUnconfirmed
  <2>15. CASE ReadCurrent(p)
    <3>1. [req[p] EXCEPT !.pc = "release", !.attempt = row.attempt] \in Request
      BY <1>d, RowTypes DEF Request, Places
    <3> QED
      BY <2>15, <3>1, <1>a, <1>c, IdleIsRequest, ReqSteps DEF ReadCurrent
  <2>16. CASE ReleaseUnknown(p)
    <3>1. RowOK'
      BY <2>16, <1>a, <1>e DEF ReleaseUnknown, Update
    <3>2. released' \subseteq Attempts
      BY <2>16, <1>t DEF ReleaseUnknown, RestOK, RowHolds, ByAttempt, InDoubt
    <3> QED
      BY <2>16, <3>1, <3>2, <1>t, EndsSteps DEF ReleaseUnknown, RestOK
  <2>17. CASE Die(p)
    BY <2>17, <1>a, <1>c, EndsSteps DEF Die
  <2> QED
    BY <1>3, <2>1, <2>2, <2>3, <2>4, <2>5, <2>6, <2>7, <2>8, <2>9, <2>10, <2>11,
       <2>12, <2>13, <2>14, <2>15, <2>16, <2>17 DEF Step
<1>4. ASSUME NEW a \in Attempts, Accept(a) \/ Lose(a) PROVE ReqOK' /\ RowOK' /\ RestOK'
  <2>1. mail' = [mail EXCEPT ![a] = [mail[a] EXCEPT !.fate = "IN", !.at = now]]
        \/ mail' = [mail EXCEPT ![a] = [mail[a] EXCEPT !.fate = "LOST"]]
    BY <1>4 DEF Accept, Lose
  <2>2. /\ [mail[a] EXCEPT !.fate = "IN", !.at = now] \in Message
        /\ [mail[a] EXCEPT !.fate = "LOST"] \in Message
    <3>1. mail[a] \in Message /\ now \in Nat
      BY <1>t DEF RestOK
    <3> QED
      BY <3>1 DEF Message
  <2>3. mail' \in [Attempts -> Message]
    BY <2>1, <2>2, <1>t DEF RestOK
  <2> QED
    BY <1>4, <2>3, <1>a, <1>b, <1>t DEF Accept, Lose, RestOK
<1>5. CASE Tick
  BY <1>5, <1>a, <1>b, <1>t DEF Tick, RestOK
<1>6. CASE UNCHANGED vars
  BY <1>6, <1>a, <1>b, <1>c DEF vars
<1> QED
  BY <1>1, <1>2, <1>3, <1>4, <1>5, <1>6 DEF Next

-----------------------------------------------------------------------------
\* The type of each variable, and of the fields of its records.
LEMMA Typed ==
    ASSUME TypeOK
    PROVE  /\ reply \in Nat /\ now \in Nat /\ released \subseteq Attempts
           /\ mail \in [Attempts -> Message] /\ req \in [Requests -> Request]
           /\ \A a \in Attempts : /\ mail[a].fate \in {"FREE", "WIRE", "IN", "LOST"}
                /\ mail[a].reply \in Nat /\ mail[a].start \in Nat /\ mail[a].at \in Nat
                /\ mail[a].words \in AnyWords
           /\ \A q \in Requests : req[q].pc \in Places /\ req[q].born \in Nat
                /\ req[q].at \in Nat /\ req[q].started \in Nat /\ req[q].attempt \in AnyAttempt
                /\ req[q].words \in AnyWords /\ req[q].id \in Nat
BY DEF TypeOK, Message, Request

\* What the invariant asks of a request that holds no attempt.
Fits(p, r) ==
    /\ r.pc \notin Holds
    /\ r.pc = "claim" => r.words \in Words
    /\ r.pc # "idle" => r.born <= now /\ now - r.born <= RequestLife /\ r.at <= now
    /\ r.pc \in {"look", "settle", "release"} =>
          /\ Used(r.attempt)
          /\ \A q \in Requests \ {p} :
                ~(req[q].pc = "transmit" /\ req[q].attempt = r.attempt)
    /\ r.pc = "look" => r.started = mail[r.attempt].start
    /\ r.pc = "settle" /\ r.verdict = "NOT_SENT" =>
          mail[r.attempt].fate \in {"FREE", "LOST"}

\* A request that has ended asks nothing.
LEMMA IdleFits == \A p : Fits(p, Idle)
BY DEF Fits, Idle, Holds

\* A request that moves to where it fits keeps the four invariants about
\* requests and messages, unless it writes the row of one about to transmit.
LEMMA Quiet ==
    ASSUME IInv, NEW p \in Requests, NEW r \in Request, Fits(p, r),
           req' = [req EXCEPT ![p] = r], UNCHANGED <<mail, reply, now>>,
           \A a \in released' : a \in released \/ Used(a),
           row' = row \/ \A q \in Requests \ {p} : req[q].pc # "transmit"
    PROVE  /\ Clocks' /\ Replies' /\ Holders' /\ Lookers'
           /\ \A a : Sending(a)' => Sending(a)
           /\ \A a : Sending(a)' => \E q \in Requests \ {p} : req[q].pc = "transmit" /\ req[q].attempt = a
           /\ \A q \in Requests : req'[q].pc = "claim" => req'[q].words \in Words
<1>1. req'[p] = r /\ \A q \in Requests : q # p => req'[q] = req[q]
  BY ReqSteps DEF IInv
<1>2. Clocks'
  BY <1>1 DEF Clocks, Fits, IInv
<1>3. Replies'
  BY DEF Replies, Used, IInv
<1>4. Holders'
  <2> SUFFICES ASSUME NEW q \in Requests
      PROVE Holders!(q)'
    BY DEF Holders
  <2>1. CASE q = p
    BY <2>1, <1>1 DEF Fits, Holds
  <2>2. CASE q # p
    <3>1. \A o \in Requests : req'[o].pc \in Holds => o # p
      BY <1>1 DEF Fits
    <3> QED
      BY <2>2, <1>1, <3>1 DEF IInv, Holders, Used, Holds
  <2> QED
    BY <2>1, <2>2
<1>5. \A a : Sending(a)' => \E q \in Requests \ {p} : req[q].pc = "transmit" /\ req[q].attempt = a
  BY <1>1 DEF Sending, Fits, Holds
<1>6. Lookers'
  <2> SUFFICES ASSUME NEW q \in Requests
      PROVE Lookers!(q)'
    BY DEF Lookers
  <2>1. CASE q = p
    BY <2>1, <1>1, <1>5 DEF Fits, Used
  <2>2. CASE q # p
    BY <2>2, <1>1, <1>5 DEF IInv, Lookers, Used, Sending
  <2> QED
    BY <2>1, <2>2
<1> QED
  BY <1>1, <1>2, <1>3, <1>4, <1>5, <1>6 DEF IInv, RowHolds, Fits, Sending

RowInv == RowHolds /\ NoStrayMessage /\ EvidenceIsFrozen

\* The five ways a quiet step writes the row keep the three invariants about it.
LEMMA RowOfAQuietStep ==
    ASSUME IInv, TypeOK', UNCHANGED <<mail, reply, now>>, released \subseteq released',
           \A a : Sending(a)' => Sending(a),
           \A q \in Requests : req'[q].pc = "claim" => req'[q].words \in Words,
           \/ row' = row
           \/ /\ row.state \in InDoubt
              /\ \/ row' = [row EXCEPT !.state = "SENT", !.words = None]
                 \/ row' = [row EXCEPT !.state = "SEND_UNKNOWN"]
                 \/ \E at : row' = [row EXCEPT !.reconciled = at]
                 \/ /\ row' = Draft(row.id, row.words)
                    /\ \/ row.attempt \in released'
                       \/ /\ mail[row.attempt].fate \in {"FREE", "LOST"}
                          /\ \A a : Sending(a)' => a # row.attempt
    PROVE RowInv'
<1> USE DEF IInv
<1>1. CASE row' = row
  <2>1. RowHolds'
    BY <1>1 DEF RowHolds
  <2>2. NoStrayMessage'
    BY <1>1 DEF NoStrayMessage, OfThisReply, Alive
  <2>3. EvidenceIsFrozen'
    BY <1>1 DEF EvidenceIsFrozen
  <2> QED
    BY <2>1, <2>2, <2>3 DEF RowInv
<1>2. ASSUME row.state \in InDoubt,
             row'.attempt = row.attempt, row'.state \in InDoubt \cup {"SENT"},
             row'.state \in InDoubt => row'.words = row.words /\ row'.hash = row.hash
                                      /\ row'.started = row.started
      PROVE RowInv'
  <2>1. RowHolds'
    BY <1>2 DEF RowHolds, InDoubt, None
  <2>2. NoStrayMessage'
    BY <1>2 DEF NoStrayMessage, OfThisReply, Alive, InDoubt, None
  <2>3. EvidenceIsFrozen'
    BY <1>2 DEF EvidenceIsFrozen
  <2> QED
    BY <2>1, <2>2, <2>3 DEF RowInv
<1>3. CASE row.state \in InDoubt /\ row' = [row EXCEPT !.state = "SENT", !.words = None]
  BY <1>2, <1>3 DEF TypeOK, InDoubt
<1>4. CASE row.state \in InDoubt /\ row' = [row EXCEPT !.state = "SEND_UNKNOWN"]
  BY <1>2, <1>4 DEF TypeOK, InDoubt
<1>5. CASE row.state \in InDoubt /\ \E at : row' = [row EXCEPT !.reconciled = at]
  BY <1>2, <1>5 DEF TypeOK, InDoubt
<1>6. CASE /\ row.state \in InDoubt /\ row' = Draft(row.id, row.words)
           /\ \/ row.attempt \in released'
              \/ /\ mail[row.attempt].fate \in {"FREE", "LOST"}
                          /\ \A a : Sending(a)' => a # row.attempt
  <2>1. row'.state = "DRAFT" /\ row'.words = row.words /\ row'.attempt = None
    BY <1>6 DEF Draft, NoRow
  <2>2. RowHolds'
    BY <1>6, <2>1 DEF RowHolds, InDoubt, None
  <2>3. NoStrayMessage'
    <3> SUFFICES ASSUME NEW a \in OfThisReply', Alive(a)' \/ mail'[a].fate = "IN"
                 PROVE a \in released'
      BY DEF NoStrayMessage
    <3>1. a \in OfThisReply /\ (Alive(a) \/ mail[a].fate = "IN")
      BY <1>6 DEF OfThisReply, Alive, InDoubt, None
    <3>2. a = row.attempt \/ a \in released
      BY <3>1 DEF NoStrayMessage
    <3>3. CASE a = row.attempt
      BY <3>3, <1>6 DEF Alive
    <3> QED
      BY <3>2, <3>3
  <2>4. EvidenceIsFrozen'
    BY <2>1 DEF EvidenceIsFrozen, InDoubt
  <2> QED
    BY <2>2, <2>3, <2>4 DEF RowInv
<1> QED
  BY <1>1, <1>3, <1>4, <1>5, <1>6

\* The row is that of the request about to transmit, is younger than a
\* request lives, and nobody else holds its attempt or concludes about it.
LEMMA OneTransmitter ==
    ASSUME IInv, NEW q \in Requests, req[q].pc = "transmit"
    PROVE  /\ row.state = "SENDING" /\ row.attempt = req[q].attempt
           /\ now - row.started <= RequestLife
           /\ \A p \in Requests : p # q /\ req[p].pc \in Holds => req[p].attempt # row.attempt
           /\ \A p \in Requests : req[p].pc \in {"look", "settle", "release"} => req[p].attempt # row.attempt
<1>1. row.state = "SENDING" /\ row.attempt = req[q].attempt /\ req[q].born <= row.started
  BY DEF IInv, Holders
<1>2. now - req[q].born <= RequestLife
  BY DEF IInv, Clocks
<1>3. now \in Nat /\ req[q].born \in Nat /\ row.started \in Nat
  BY Typed, RowTypes DEF IInv
<1>4. now - row.started <= RequestLife
  BY <1>1, <1>2, <1>3, PolicyAssumption
<1> QED
  BY <1>1, <1>4 DEF IInv, Holders, Lookers, Sending, Holds

\* A look at the attempt of a row in doubt knows when that attempt began.
LEMMA LooksFits ==
    ASSUME IInv, NEW p \in Requests, NEW r \in Request, NEW at \in Nat, at <= now,
           row.state = "SEND_UNKNOWN", r.born <= now, now - r.born <= RequestLife
    PROVE Fits(p, Looks(r, at))
<1>1. CASE Looks(r, at) = Idle
  BY <1>1, IdleFits
<1> DEFINE k == IF r.kind = "RELEASE" THEN r.kind ELSE "VIEW"
<1>2. CASE Looks(r, at) = [r EXCEPT !.pc = "look", !.at = at, !.attempt = row.attempt,
                   !.started = row.started, !.words = row.hash, !.kind = k]
  <2> DEFINE l == Looks(r, at)
  <2>1. l.pc = "look" /\ l.at = at /\ l.attempt = row.attempt /\ l.started = row.started /\ l.born = r.born
    BY <1>2 DEF Request
  <2>2. Used(row.attempt) /\ row.started = mail[row.attempt].start
    BY DEF IInv, RowHolds, InDoubt, Used, None
  <2>3. \A q \in Requests : req[q].pc # "transmit"
    BY DEF IInv, Holders
  <2> HIDE DEF l
  <2>4. Fits(p, l)
    BY <2>1, <2>2, <2>3 DEF Fits, Holds
  <2> QED
    BY <2>4 DEF l
<1> QED
  BY <1>1, <1>2 DEF Looks

\* So does any reading of the row.
LEMMA ReadingFits ==
    ASSUME IInv, NEW p \in Requests, NEW r \in Request, r.born <= now, now - r.born <= RequestLife
    PROVE Fits(p, Reading(r))
<1>1. CASE Reading(r) = [r EXCEPT !.pc = "mark", !.at = now]
  <2> DEFINE l == Reading(r)
  <2>1. l.pc = "mark" /\ l.at = now /\ l.born = r.born
    BY <1>1 DEF Request
  <2>2. now <= now
    BY Typed DEF IInv
  <2> HIDE DEF l
  <2>3. Fits(p, l)
    BY <2>1, <2>2 DEF Fits, Holds
  <2> QED
    BY <2>3 DEF l
<1>2. CASE row.state = "SEND_UNKNOWN" /\ Reading(r) = Looks(r, now)
  BY <1>2, LooksFits, Typed DEF IInv
<1>3. CASE Reading(r) = Idle
  BY <1>3, IdleFits
<1> QED
  BY <1>1, <1>2, <1>3 DEF Reading

-----------------------------------------------------------------------------
\* What a step writes that claims nothing and transmits nothing.
QuietRow(p) ==
    \/ UNCHANGED <<row, released>>
    \/ /\ row.state \in InDoubt
       /\ \A q \in Requests \ {p} : req[q].pc # "transmit"
       /\ \/ row' = [row EXCEPT !.state = "SENT", !.words = None] /\ UNCHANGED released
          \/ row' = [row EXCEPT !.state = "SEND_UNKNOWN"] /\ UNCHANGED released
          \/ (\E at : row' = [row EXCEPT !.reconciled = at]) /\ UNCHANGED released
          \/ /\ row' = Draft(row.id, row.words)
             /\ \/ released' = released \cup {row.attempt}
                \/ mail[row.attempt].fate \in {"FREE", "LOST"} /\ UNCHANGED released
QuietStep(p) ==
    /\ UNCHANGED <<mail, reply, now>> /\ QuietRow(p)
    /\ \E r \in Request : Fits(p, r) /\ req' = [req EXCEPT ![p] = r]

\* A quiet step keeps the invariant.
LEMMA QuietKeeps ==
    ASSUME IInv, TypeOK', NEW p \in Requests, QuietStep(p) PROVE IInv'
<1>1. PICK r \in Request : Fits(p, r) /\ req' = [req EXCEPT ![p] = r]
  BY DEF QuietStep
<1>2. row.state \in InDoubt => Used(row.attempt)
  BY DEF IInv, RowHolds, InDoubt, Used, None
<1>3. /\ UNCHANGED <<mail, reply, now>> /\ released \subseteq released'
      /\ \A a \in released' : a \in released \/ Used(a)
      /\ row' = row \/ \A q \in Requests \ {p} : req[q].pc # "transmit"
  BY <1>2 DEF QuietStep, QuietRow
<1>4. /\ Clocks' /\ Replies' /\ Holders' /\ Lookers'
      /\ \A a : Sending(a)' => Sending(a)
      /\ \A a : Sending(a)' => \E q \in Requests \ {p} : req[q].pc = "transmit" /\ req[q].attempt = a
      /\ \A q \in Requests : req'[q].pc = "claim" => req'[q].words \in Words
  BY <1>1, <1>3, Quiet
<1>5. RowInv'
  BY <1>3, <1>4, RowOfAQuietStep DEF QuietStep, QuietRow
<1> QED
  BY <1>4, <1>5 DEF IInv, RowInv

\* Every step of a request is quiet, a claim or a transmission.
LEMMA QuietSteps ==
    ASSUME IInv, NEW p \in Requests, Step(p)
    PROVE  QuietStep(p) \/ ClaimForSend(p) \/ Transmit(p)
<1>a. ASSUME Ends(p) PROVE req' = [req EXCEPT ![p] = Idle] /\ Idle \in Request /\ Fits(p, Idle)
  BY <1>a, IdleFits, IdleIsRequest DEF Ends
<1>b. /\ req[p] \in Request /\ now \in Nat /\ req[p].at \in Nat
      /\ req[p].pc # "idle" => req[p].born <= now /\ now - req[p].born <= RequestLife /\ req[p].at <= now
  BY Typed DEF IInv, Clocks
<1>c. ASSUME NEW pc \in {"read", "reconfirm"}, Forgets(p, pc), req[p].pc # "idle"
      PROVE \E r \in Request : Fits(p, r) /\ req' = [req EXCEPT ![p] = r]
  <2> DEFINE r == [Idle EXCEPT !.pc = pc, !.kind = req[p].kind, !.born = req[p].born, !.id = req[p].id]
  <2>1. r \in Request
    BY <1>b, ForgottenIsRequest DEF Places
  <2>2. r.pc = pc /\ r.born = req[p].born /\ r.at = 0
    BY DEF Idle
  <2>3. req' = [req EXCEPT ![p] = r]
    BY <1>c DEF Forgets
  <2> HIDE DEF r
  <2>4. Fits(p, r)
    BY <1>b, <1>c, <2>2 DEF Fits, Holds
  <2> QED
    BY <2>1, <2>3, <2>4
<1>d. req[p].pc \in Holds /\ row.state \in InDoubt /\ ByAttempt(p) =>
          \A q \in Requests \ {p} : req[q].pc # "transmit"
  BY OneTransmitter DEF ByAttempt
<1>e. req[p].pc \in {"look", "settle", "release"} /\ row.state \in InDoubt /\ ByAttempt(p) =>
          \A q \in Requests \ {p} : req[q].pc # "transmit"
  BY OneTransmitter DEF ByAttempt
<1>f. \A kind, pc : Asked(kind, pc).pc = pc /\ Asked(kind, pc).born = now /\ Asked(kind, pc).at = 0
  BY DEF Asked, Idle
<1>g. now - now <= RequestLife /\ now <= now /\ 0 <= now
  BY <1>b, PolicyAssumption
<1>1. CASE SendDraft(p)
  <2> DEFINE r == [Asked("VIEW", "claim") EXCEPT !.words = row.words]
  <2>1. r \in Request
    BY AskedIsRequest, RowTypes DEF Places, IInv
  <2>2. r.pc = "claim" /\ r.born = now /\ r.at = 0 /\ r.words = row.words
    BY DEF Asked, Idle
  <2>3. row.words \in Words
    BY <1>1 DEF SendDraft, IInv, RowHolds
  <2>4. req' = [req EXCEPT ![p] = r]
    BY <1>1 DEF SendDraft
  <2> HIDE DEF r
  <2>5. Fits(p, r)
    BY <2>2, <2>3, <1>g DEF Fits, Holds
  <2> QED
    BY <1>1, <2>1, <2>4, <2>5 DEF QuietStep, QuietRow, SendDraft
<1>2. CASE AbandonClaim(p)
  <2>1. mail[req[p].attempt].fate = "FREE"
    BY <1>2 DEF AbandonClaim, IInv, Holders
  <2> QED
    BY <1>2, <2>1, <1>a, <1>d DEF QuietStep, QuietRow, AbandonClaim, Update,
       InDoubt, Holds, ByAttempt
<1>3. CASE RecordSent(p)
  BY <1>3, <1>a, <1>d DEF QuietStep, QuietRow, RecordSent, Update, InDoubt,
     Holds, ByAttempt
<1>4. CASE RecordNotSent(p)
  BY <1>4, <1>a, <1>d DEF QuietStep, QuietRow, RecordNotSent, Update, InDoubt,
     Holds, ByAttempt, Fate
<1>5. CASE RecordUnknown(p)
  <2>1. PICK r \in Request : Fits(p, r) /\ req' = [req EXCEPT ![p] = r]
    BY <1>5, <1>c DEF RecordUnknown
  <2> QED
    BY <1>5, <2>1, <1>d DEF QuietStep, QuietRow, RecordUnknown, Update, InDoubt,
       Holds, ByAttempt
<1>6. CASE Reconcile(p)
  <2>1. PICK kind \in {"VIEW", "CHECK"} : req' = [req EXCEPT ![p] = Reading(Asked(kind, "read"))]
    BY <1>6 DEF Reconcile
  <2>2. Asked(kind, "read") \in Request
    BY AskedIsRequest DEF Places, AnyWords, IInv
  <2>3. Reading(Asked(kind, "read")) \in Request /\ Fits(p, Reading(Asked(kind, "read")))
    BY <2>2, <1>f, <1>g, ReadingIsRequest, ReadingFits DEF IInv
  <2> QED
    BY <1>6, <2>1, <2>3 DEF QuietStep, QuietRow, Reconcile
<1>7. CASE ReadDraft(p)
  <2>1. Reading(req[p]) \in Request /\ Fits(p, Reading(req[p]))
    BY <1>7, <1>b, ReadingIsRequest, ReadingFits DEF IInv, ReadDraft
  <2> QED
    BY <1>7, <2>1 DEF QuietStep, QuietRow, ReadDraft
<1>8. CASE MarkStaleAttemptUnknown(p)
  <2> DEFINE r == [req[p] EXCEPT !.pc = "reread"]
  <2>1. r \in Request /\ r.pc = "reread" /\ r.born = req[p].born /\ r.at = req[p].at
    BY <1>b DEF Request, Places
  <2>2. req' = [req EXCEPT ![p] = r]
    BY <1>8 DEF MarkStaleAttemptUnknown, Goes
  <2> HIDE DEF r
  <2>3. Fits(p, r)
    BY <1>8, <1>b, <2>1 DEF Fits, Holds, MarkStaleAttemptUnknown
  <2>4. Stale(req[p].at) => row.state \in InDoubt /\ \A q \in Requests : req[q].pc # "transmit"
    <3>1. Stale(req[p].at) => now - row.started > RequestLife
      BY <1>8, <1>b, RowTypes, PolicyAssumption DEF Stale, IInv,
         MarkStaleAttemptUnknown
    <3>2. now \in Int /\ row.started \in Int
      BY RowTypes DEF IInv
    <3> QED
      BY <3>1, <3>2, OneTransmitter, PolicyAssumption DEF Stale, InDoubt
  <2> QED
    BY <1>8, <2>1, <2>2, <2>3, <2>4 DEF QuietStep, QuietRow,
       MarkStaleAttemptUnknown, Update
<1>9. CASE RereadDraft(p)
  <2> DEFINE r == IF row.id = req[p].id /\ row.state = "SEND_UNKNOWN"
           THEN Looks(req[p], req[p].at) ELSE Idle
  <2>1. r \in Request /\ Fits(p, r)
    BY <1>9, <1>b, LooksIsRequest, LooksFits, IdleFits, IdleIsRequest
       DEF RereadDraft, IInv
  <2> QED
    BY <1>9, <2>1 DEF QuietStep, QuietRow, RereadDraft
<1>10. CASE LookupSent(p)
  <2>1. PICK seen \in SUBSET InWindow(req[p].started), complete \in BOOLEAN :
           /\ complete => seen = InWindow(req[p].started)
           /\ Concludes(p, Verdict(p, seen, complete))
    BY <1>10 DEF LookupSent
  <2> DEFINE v == Verdict(p, seen, complete)
             r == [req[p] EXCEPT !.pc = "settle", !.verdict = v, !.words = None, !.started = 0]
             a == req[p].attempt
  <2>2. v \in {"SENT", "NOT_SENT", "UNKNOWN"}
    BY DEF Verdict
  <2>3. Used(a) /\ ~Sending(a) /\ req[p].started = mail[a].start
    BY <1>10 DEF LookupSent, IInv, Lookers
  <2>4. v = "NOT_SENT" => mail[a].fate \in {"FREE", "LOST"}
    <3> SUFFICES ASSUME v = "NOT_SENT" PROVE mail[a].fate \in {"FREE", "LOST"}
      OBVIOUS
    <3>1. InWindow(req[p].started) = {} /\ req[p].at - req[p].started >= Settle
      BY <2>1 DEF Verdict
    <3>2. /\ a \in Attempts /\ mail[a].fate \in {"FREE", "WIRE", "IN", "LOST"}
          /\ mail[a].start \in Nat /\ mail[a].at \in Nat
      BY <2>3, Typed DEF IInv, Used
    <3>3. mail[a].fate # "WIRE"
      <4>1. req[p].at <= now /\ req[p].at \in Nat /\ now \in Nat
        BY <1>10, <1>b DEF LookupSent
      <4>2. now - mail[a].start >= Settle
        BY <4>1, <3>1, <3>2, <2>3, PolicyAssumption
      <4> QED
        BY <4>1, <4>2, <3>2, PolicyAssumption DEF IInv, Clocks
    <3>4. mail[a].fate # "IN"
      <4> SUFFICES ASSUME mail[a].fate = "IN" PROVE FALSE
        OBVIOUS
      <4>1. mail[a].start <= mail[a].at /\ mail[a].at - mail[a].start < Settle
        BY <3>2 DEF IInv, Clocks
      <4>2. mail[a].start - WindowBefore <= mail[a].at /\ mail[a].at <= mail[a].start + WindowAfter
        BY <4>1, <3>2, PolicyAssumption
      <4>3. [words |-> mail[a].words, at |-> mail[a].at] \in InWindow(req[p].started)
        BY <4>2, <3>2, <2>3 DEF InWindow, SentMail, Accepted
      <4> QED
        BY <4>3, <3>1
    <3> QED
      BY <3>2, <3>3, <3>4
  <2> HIDE DEF v
  <2>5. r \in Request /\ r.pc = "settle" /\ r.born = req[p].born /\ r.at = req[p].at
        /\ r.attempt = a /\ r.verdict = v
    BY <1>b, <2>2 DEF Request, Places, AnyWords
  <2>6. req' = [req EXCEPT ![p] = r]
    BY <2>1 DEF Concludes, v
  <2> HIDE DEF r
  <2>7. Fits(p, r)
    BY <1>10, <1>b, <2>3, <2>4, <2>5 DEF Fits, Holds, Sending, LookupSent
  <2> QED
    BY <1>10, <2>5, <2>6, <2>7 DEF QuietStep, QuietRow, LookupSent
<1>11. CASE SettleDoubt(p)
  <2>1. \E r \in Request : Fits(p, r) /\ req' = [req EXCEPT ![p] = r]
    BY <1>11, <1>a, <1>c DEF SettleDoubt
  <2>2. req[p].verdict = "NOT_SENT" => mail[req[p].attempt].fate \in {"FREE", "LOST"}
    BY <1>11 DEF SettleDoubt, IInv, Lookers
  <2>3. \/ row' = row
        \/ /\ row.state \in InDoubt /\ ByAttempt(p)
           /\ \/ row' = [row EXCEPT !.state = "SENT", !.words = None]
              \/ row' = [row EXCEPT !.reconciled = req[p].at]
              \/ row' = Draft(row.id, row.words) /\ req[p].verdict = "NOT_SENT"
    BY <1>11 DEF SettleDoubt, Update, InDoubt
  <2>4. /\ req[p].pc = "settle" /\ UNCHANGED <<reply, mail, released, now>>
    BY <1>11 DEF SettleDoubt
  <2>5. \/ row' = row
        \/ /\ row.state \in InDoubt
           /\ \A q \in Requests \ {p} : req[q].pc # "transmit"
           /\ \/ row' = [row EXCEPT !.state = "SENT", !.words = None]
              \/ \E at : row' = [row EXCEPT !.reconciled = at]
              \/ row' = Draft(row.id, row.words) /\ mail[row.attempt].fate \in {"FREE", "LOST"}
    BY <2>2, <2>3, <2>4, <1>e DEF ByAttempt
  <2> QED
    BY <2>1, <2>4, <2>5 DEF QuietStep, QuietRow
<1>12. CASE ReleaseUnconfirmed(p)
  <2>1. Asked("RELEASE", "read") \in Request
    BY AskedIsRequest DEF Places, AnyWords, IInv
  <2>2. Fits(p, Asked("RELEASE", "read"))
    BY <1>f, <1>g DEF Fits, Holds
  <2> QED
    BY <1>12, <2>1, <2>2 DEF QuietStep, QuietRow, ReleaseUnconfirmed
<1>13. CASE ReadCurrent(p)
  <2>1. CASE row.id = req[p].id /\ row.state = "SEND_UNKNOWN"
    <3> DEFINE r == [req[p] EXCEPT !.pc = "release", !.attempt = row.attempt]
    <3>1. r \in Request /\ r.pc = "release" /\ r.attempt = row.attempt
          /\ r.born = req[p].born /\ r.at = req[p].at
      BY <1>b, RowTypes DEF Request, Places, IInv
    <3>2. Used(row.attempt) /\ \A q \in Requests : req[q].pc # "transmit"
      BY <2>1 DEF IInv, RowHolds, InDoubt, Used, Holders, None
    <3>3. req' = [req EXCEPT ![p] = r]
      BY <1>13, <2>1 DEF ReadCurrent
    <3> HIDE DEF r
    <3>4. Fits(p, r)
      BY <1>13, <1>b, <3>1, <3>2 DEF Fits, Holds, ReadCurrent
    <3> QED
      BY <1>13, <3>1, <3>3, <3>4 DEF QuietStep, QuietRow, ReadCurrent
  <2>2. CASE ~(row.id = req[p].id /\ row.state = "SEND_UNKNOWN")
    BY <1>13, <2>2, <1>a DEF QuietStep, QuietRow, ReadCurrent, Ends
  <2> QED
    BY <2>1, <2>2
<1>14. CASE ReleaseUnknown(p)
  <2>1. CASE ByAttempt(p) /\ row.state = "SEND_UNKNOWN"
    <3>1. Used(row.attempt)
      BY <2>1 DEF IInv, RowHolds, InDoubt, Used, None
    <3>2. /\ req[p].pc = "release" /\ Ends(p) /\ row' = Draft(row.id, row.words)
          /\ released' = released \cup {row.attempt} /\ UNCHANGED <<reply, mail, now>>
      BY <1>14, <2>1 DEF ReleaseUnknown, Update
    <3> QED
      BY <2>1, <3>1, <3>2, <1>a, <1>e DEF QuietStep, QuietRow, InDoubt
  <2>2. CASE ~(ByAttempt(p) /\ row.state = "SEND_UNKNOWN")
    BY <1>14, <2>2, <1>a DEF QuietStep, QuietRow, ReleaseUnknown, Update
  <2> QED
    BY <2>1, <2>2
<1>15. CASE Die(p)
  BY <1>15, <1>a DEF QuietStep, QuietRow, Die
<1> QED
  BY <1>1, <1>2, <1>3, <1>4, <1>5, <1>6, <1>7, <1>8, <1>9, <1>10, <1>11, <1>12,
     <1>13, <1>14, <1>15 DEF Step

\* A claim keeps the invariant: its attempt is new, and the draft it found
\* open has no stray message (NoStrayMessage, with no attempt in the row).
LEMMA ClaimKeeps ==
    ASSUME IInv, TypeOK', NEW p \in Requests, ClaimForSend(p) PROVE IInv'
<1>1. CASE ~(row.state = "DRAFT" /\ row.id = req[p].id)
  BY <1>1, IdleFits, IdleIsRequest, QuietKeeps DEF ClaimForSend, Ends,
     QuietStep, QuietRow
<1>2. CASE row.state = "DRAFT" /\ row.id = req[p].id
  <2> DEFINE pc == IF row.words = req[p].words THEN "transmit" ELSE "abandon"
  <2>1. PICK a \in Attempts, s \in req[p].born .. now :
          /\ mail[a] = Unused /\ row' = Claimed(p, a, s)
          /\ mail' = [mail EXCEPT ![a].reply = reply, ![a].start = s]
          /\ req' = [req EXCEPT ![p].attempt = a, ![p].pc = pc]
    BY <1>2 DEF ClaimForSend
  <2>2. /\ row'.state = "SENDING" /\ row'.attempt = a /\ row'.started = s
        /\ row'.hash = req[p].words /\ row'.words = row.words
    BY <2>1, <1>2 DEF Claimed, IInv, TypeOK
  <2>3. /\ mail[a].fate = "FREE" /\ mail[a].reply = 0 /\ mail[a].words = None
        /\ mail'[a].fate = "FREE" /\ mail'[a].reply = reply /\ mail'[a].words = None
        /\ mail'[a].start = s
    BY <2>1, Typed DEF Unused, IInv, Message
  <2>4. \A b \in Attempts : b # a => mail'[b] = mail[b]
    BY <2>1, Typed DEF IInv
  <2>5. /\ req'[p].attempt = a /\ req'[p].pc = pc /\ req'[p].born = req[p].born
        /\ req'[p].at = req[p].at /\ req'[p].words = req[p].words
    <3> HIDE DEF pc
    <3> QED
      BY <2>1, Typed DEF IInv, Request
  <2>6. \A q \in Requests : q # p => req'[q] = req[q]
    <3> HIDE DEF pc
    <3> QED
      BY <2>1, Typed DEF IInv
  <2>7. UNCHANGED <<reply, released, now>> /\ req[p].pc = "claim"
    BY DEF ClaimForSend
  <2>8. s \in Nat /\ req[p].born <= s /\ s <= now /\ now \in Nat /\ reply \in Nat /\ 1 <= reply
    BY <2>1, <1>2, Typed DEF IInv, RowHolds, None
  <2>9. ~Used(a) /\ a \notin released
    BY <2>3 DEF Used, IInv, Replies
  <2>10. \A q \in Requests : req[q].pc # "transmit"
    BY <1>2 DEF IInv, Holders
  <2>11. \A b \in Attempts : Used(b) => Used(b)' /\ b # a
    BY <2>4, <2>9 DEF Used
  <2>12. RowHolds'
    BY <2>2, <2>3, <2>5, <2>6, <2>7, <2>8, <1>2 DEF RowHolds, IInv, InDoubt, None
  <2>13. Clocks'
    BY <2>3, <2>4, <2>5, <2>6, <2>7 DEF Clocks, IInv
  <2>14. Replies'
    BY <2>3, <2>4, <2>7, <2>8, <2>11 DEF Replies, IInv, Used
  <2>15. Holders'
    <3>1. \A q \in Requests : req[q].pc \in Holds => req[q].attempt # a
      BY <2>9 DEF Holders, IInv
    <3>2. Used(a)'
      BY <2>3, <2>8 DEF Used
    <3> SUFFICES ASSUME NEW q \in Requests PROVE Holders!(q)'
      BY DEF Holders
    <3>3. CASE q = p
      BY <3>1, <3>2, <3>3, <2>2, <2>3, <2>5, <2>6, <2>8 DEF Holds
    <3>4. CASE q # p
      <4>1. req[q].pc \in Holds => Used(req[q].attempt) /\ Used(req[q].attempt)'
        BY <3>4, <2>6, <2>11 DEF Holders, IInv, Used
      <4> QED
        BY <4>1, <3>1, <3>4, <2>4, <2>5, <2>6, <2>10 DEF Holders, IInv, Holds, Used
    <3> QED
      BY <3>3, <3>4
  <2>16. \A b \in Attempts : Sending(b)' => b = a
    BY <2>5, <2>6, <2>10 DEF Sending
  <2>17. Lookers'
    <3> SUFFICES ASSUME NEW q \in Requests PROVE Lookers!(q)'
      BY DEF Lookers
    <3>1. req'[q].pc \in {"look", "settle", "release"} => q # p
      BY <2>5
    <3>2. req'[q].pc \in {"look", "settle", "release"} =>
            /\ req'[q] = req[q] /\ Used(req[q].attempt) /\ Used(req[q].attempt)' /\ req[q].attempt # a
            /\ mail'[req[q].attempt] = mail[req[q].attempt]
      BY <3>1, <2>4, <2>6, <2>11 DEF Lookers, IInv, Used
    <3> QED
      BY <3>2, <2>16 DEF Lookers, IInv, Used
  <2>18. NoStrayMessage'
    <3> SUFFICES ASSUME NEW b \in OfThisReply', Alive(b)' \/ mail'[b].fate = "IN"
                 PROVE b = a \/ b \in released
      BY <2>2, <2>7 DEF NoStrayMessage
    <3>1. CASE b # a
      <4>1. b \in OfThisReply /\ (Alive(b) \/ mail[b].fate = "IN")
        BY <3>1, <1>2, <2>2, <2>4, <2>7, <2>16 DEF OfThisReply, Alive, None
      <4>2. b \in Attempts /\ row.attempt = None
        BY <1>2 DEF OfThisReply, IInv, TypeOK, RowShape
      <4> QED
        BY <4>1, <4>2, NamesAssumption DEF NoStrayMessage, IInv
    <3> QED
      BY <3>1
  <2>19. EvidenceIsFrozen'
    BY <2>2, <2>3 DEF EvidenceIsFrozen
  <2> QED
    BY <2>12, <2>13, <2>14, <2>15, <2>17, <2>18, <2>19 DEF IInv
<1> QED
  BY <1>1, <1>2

\* So does a transmission: the row is the sender's own.
LEMMA TransmitKeeps ==
    ASSUME IInv, TypeOK', NEW p \in Requests, Transmit(p) PROVE IInv'
<1> DEFINE a == req[p].attempt
<1>1. req[p].pc = "transmit" /\ Goes(p, "answer") /\ UNCHANGED <<row, reply, released, now>>
  BY DEF Transmit
<1>2. PICK fate \in {"WIRE", "LOST"} : mail' = [mail EXCEPT
           ![a].fate = fate, ![a].words = req[p].words]
  BY DEF Transmit
<1>3. /\ row.state = "SENDING" /\ row.attempt = a /\ row.words = req[p].words
      /\ row.hash = req[p].words /\ req[p].born <= row.started /\ Used(a) /\ mail[a].fate = "FREE"
  BY <1>1 DEF IInv, Holders, Holds
<1>4. a \in Attempts /\ mail[a].start = row.started /\ row.started <= now /\ mail[a].reply = reply
  BY <1>3 DEF IInv, RowHolds, InDoubt
<1>5. /\ \A q \in Requests : q # p => req'[q] = req[q]
      /\ req'[p].pc = "answer" /\ req'[p].attempt = a /\ req'[p].born = req[p].born
      /\ req'[p].at = req[p].at
  <2>1. "answer" \in Places
    BY DEF Places
  <2>2. req[p] \in Request
    BY Typed DEF IInv
  <2>3. req'[p] = [req[p] EXCEPT !.pc = "answer"] /\ \A q \in Requests : q # p => req'[q] = req[q]
    BY <1>1, <2>1, GoesSteps DEF IInv
  <2> QED
    BY <2>2, <2>3 DEF Request
<1> HIDE DEF a
<1>6. /\ mail'[a].fate = fate /\ mail'[a].words = req[p].words /\ mail'[a].start = mail[a].start
      /\ mail'[a].reply = mail[a].reply /\ mail'[a].at = mail[a].at
      /\ \A b \in Attempts : b # a => mail'[b] = mail[b]
  BY <1>2, <1>4, Typed DEF IInv, Message
<1>7. \A b : Used(b) => Used(b)'
  BY <1>4, <1>6 DEF Used
<1>8. \A q \in Requests : q # p /\ req[q].pc \in Holds => req[q].attempt # a
  BY <1>1, <1>3, OneTransmitter
<1>9. \A q \in Requests : req[q].pc \in {"look", "settle", "release"} => req[q].attempt # a
  BY <1>1, <1>3, OneTransmitter
<1>10. \A b : ~Sending(b)'
  BY <1>1, <1>5, <1>8 DEF Sending, IInv, Holders, Holds
<1>11. RowHolds'
  BY <1>1, <1>3, <1>4, <1>5, <1>6 DEF RowHolds, IInv
<1>12. Clocks'
  <2>1. now - mail[a].start < Settle
    <3>1. now - req[p].born <= RequestLife
      BY <1>1 DEF IInv, Clocks
    <3>2. now \in Nat /\ req[p].born \in Nat /\ row.started \in Nat
      BY Typed, RowTypes DEF IInv
    <3> QED
      BY <3>1, <3>2, <1>3, <1>4, PolicyAssumption
  <2> QED
    BY <2>1, <1>1, <1>2, <1>4, <1>5, <1>6 DEF Clocks, IInv
<1>13. Replies'
  BY <1>1, <1>3, <1>4, <1>6, <1>7 DEF Replies, IInv
<1>14. Holders'
  <2> SUFFICES ASSUME NEW q \in Requests PROVE Holders!(q)'
    BY DEF Holders
  <2>1. CASE q = p
    BY <2>1, <1>3, <1>5, <1>7, <1>8 DEF Holds
  <2>2. CASE q # p
    <3>1. req[q].pc # "transmit"
      BY <2>2, <1>1, <1>3, <1>8 DEF Holders, IInv, Holds
    <3>2. req[q].pc \in Holds => Used(req[q].attempt) /\ Used(req[q].attempt)' /\ req[q].attempt # a
      BY <2>2, <1>5, <1>7, <1>8 DEF Holders, IInv, Holds
    <3> QED
      BY <2>2, <3>1, <3>2, <1>5, <1>6, <1>8 DEF Holders, IInv, Holds, Used
  <2> QED
    BY <2>1, <2>2
<1>15. Lookers'
  <2> SUFFICES ASSUME NEW q \in Requests PROVE Lookers!(q)'
    BY DEF Lookers
  <2>1. req'[q].pc \in {"look", "settle", "release"} => q # p
    BY <1>5
  <2>2. req'[q].pc \in {"look", "settle", "release"} =>
          /\ req'[q] = req[q] /\ Used(req[q].attempt) /\ Used(req[q].attempt)' /\ req[q].attempt # a
          /\ mail'[req[q].attempt] = mail[req[q].attempt]
    BY <2>1, <1>5, <1>6, <1>7, <1>9 DEF Lookers, IInv, Used
  <2> QED
    BY <2>2, <1>10 DEF Lookers, IInv
<1>16. NoStrayMessage'
  <2> SUFFICES ASSUME NEW b \in OfThisReply', Alive(b)' \/ mail'[b].fate = "IN"
               PROVE b = row.attempt \/ b \in released
    BY <1>1 DEF NoStrayMessage
  <2>1. CASE b # a
    <3>1. b \in OfThisReply /\ (Alive(b) \/ mail[b].fate = "IN")
      BY <2>1, <1>1, <1>6, <1>10 DEF OfThisReply, Alive
    <3> QED
      BY <3>1 DEF NoStrayMessage, IInv
  <2> QED
    BY <2>1, <1>3
<1>17. EvidenceIsFrozen'
  BY <1>1, <1>3, <1>6 DEF EvidenceIsFrozen
<1> QED
  BY <1>11, <1>12, <1>13, <1>14, <1>15, <1>16, <1>17 DEF IInv

\* So does every step of a request.
LEMMA StepKeeps ==
    ASSUME IInv, TypeOK', NEW p \in Requests, Step(p) PROVE IInv'
BY QuietSteps, QuietKeeps, ClaimKeeps, TransmitKeeps

\* Composing and discarding touch only a reply with nothing in flight.
LEMMA WriterKeeps ==
    ASSUME IInv, TypeOK', (\E w \in Words : Save(w)) \/ Discard PROVE IInv'
<1>1. UNCHANGED <<mail, released, req, now>>
  BY DEF Save, Discard
<1>2. row.state \in {None, "DRAFT", "SENT"}
  BY DEF Save, Discard
<1>3. \A q \in Requests : req[q].pc # "transmit"
  BY <1>2 DEF IInv, Holders, None
<1>4. reply' = reply \/ reply' = reply + 1
  BY DEF Save, Discard
<1>5. \A a \in Attempts : mail[a].reply \in Nat /\ reply \in Nat /\ mail[a].reply <= reply
  BY Typed DEF IInv, Replies
<1>w. \/ row' = NoRow /\ reply' = reply
      \/ \E w \in Words : \E id : row' = Draft(id, w) /\ reply' = reply + 1
      \/ \E w \in Words : row' = [row EXCEPT !.words = w] /\ row.state = "DRAFT" /\ reply' = reply
  BY DEF Save, Discard
<1>v. \/ row'.state = None /\ reply' = reply
      \/ row'.state = "DRAFT" /\ row'.words \in Words /\ reply' = reply + 1
      \/ row'.state = "DRAFT" /\ row'.words \in Words /\ reply' = reply /\ row.state = "DRAFT"
  <2>1. CASE row' = NoRow /\ reply' = reply
    BY <2>1 DEF NoRow
  <2>2. CASE \E w \in Words : \E id : row' = Draft(id, w) /\ reply' = reply + 1
    BY <2>2 DEF NoRow, Draft
  <2>3. CASE \E w \in Words : row' = [row EXCEPT !.words = w] /\ row.state = "DRAFT" /\ reply' = reply
    BY <2>3 DEF IInv, TypeOK
  <2> QED
    BY <1>w, <2>1, <2>2, <2>3
<1>6. row'.state \in {None, "DRAFT"} /\ (row'.state = "DRAFT" => row'.words \in Words)
  BY <1>v DEF None
<1>7. row'.state # None => reply' >= 1
  <2>1. reply \in Nat
    BY Typed DEF IInv
  <2> QED
    BY <2>1, <1>v DEF IInv, RowHolds, None
<1>8. RowHolds'
  BY <1>1, <1>6, <1>7 DEF RowHolds, IInv, InDoubt, None
<1>9. Clocks' /\ Lookers'
  BY <1>1 DEF Clocks, Lookers, Used, Sending, IInv
<1>10. Replies'
  BY <1>1, <1>4, <1>5, Typed DEF Replies, Used, IInv
<1>11. Holders'
  BY <1>1, <1>3 DEF Holders, Used, IInv
<1>12. NoStrayMessage'
  <2> SUFFICES ASSUME NEW a \in OfThisReply', Alive(a)' \/ mail'[a].fate = "IN"
               PROVE a \in released
    BY <1>1 DEF NoStrayMessage
  <2>1. a \in Attempts /\ mail[a].reply = reply' /\ row'.state # None
    BY <1>1 DEF OfThisReply
  <2>2. row.state = "DRAFT" /\ reply' = reply
    <3>1. ~Discard
      BY <2>1 DEF Discard, NoRow
    <3>2. reply' # reply + 1
      BY <1>5, <2>1
    <3> QED
      BY <3>1, <3>2 DEF Save
  <2>3. a \in OfThisReply /\ (Alive(a) \/ mail[a].fate = "IN")
    BY <1>1, <2>1, <2>2 DEF OfThisReply, Alive, Sending, None
  <2>4. row.attempt = None
    BY <2>2 DEF IInv, TypeOK, RowShape
  <2> QED
    BY <2>1, <2>3, <2>4, NamesAssumption DEF NoStrayMessage, IInv
<1>13. EvidenceIsFrozen'
  BY <1>6 DEF EvidenceIsFrozen, InDoubt, None
<1> QED
  BY <1>8, <1>9, <1>10, <1>11, <1>12, <1>13 DEF IInv

\* Gmail accepts a message or loses it.
LEMMA GmailKeeps ==
    ASSUME IInv, TypeOK', NEW a \in Attempts, Accept(a) \/ Lose(a) PROVE IInv'
<1>1. UNCHANGED <<row, reply, released, req, now>> /\ mail[a].fate = "WIRE"
  BY DEF Accept, Lose
<1>2. /\ mail'[a].reply = mail[a].reply /\ mail'[a].start = mail[a].start
      /\ mail'[a].words = mail[a].words
      /\ mail'[a].fate = "LOST" \/ (mail'[a].fate = "IN" /\ mail'[a].at = now)
      /\ \A b \in Attempts : b # a => mail'[b] = mail[b]
  <2>1. mail \in [Attempts -> Message] /\ mail[a] \in Message
    BY Typed DEF IInv
  <2>2. CASE Accept(a)
    <3>1. mail' = [mail EXCEPT ![a] = [mail[a] EXCEPT !.fate = "IN", !.at = now]]
      BY <2>2 DEF Accept
    <3> QED
      BY <2>1, <3>1 DEF Message
  <2>3. CASE Lose(a)
    <3>1. mail' = [mail EXCEPT ![a] = [mail[a] EXCEPT !.fate = "LOST"]]
      BY <2>3 DEF Lose
    <3> QED
      BY <2>1, <3>1 DEF Message
  <2> QED
    BY <2>2, <2>3
<1>3. \A b : Used(b) <=> Used(b)'
  BY <1>1, <1>2 DEF Used
<1>4. RowHolds'
  BY <1>1, <1>2 DEF RowHolds, IInv
<1>5. Clocks'
  BY <1>1, <1>2 DEF Clocks, IInv
<1>6. Replies'
  BY <1>1, <1>2 DEF Replies, IInv, Used
<1>7. Holders'
  <2> SUFFICES ASSUME NEW p \in Requests PROVE Holders!(p)'
    BY DEF Holders
  <2>1. req[p].pc \in {"abandon", "transmit"} =>
          mail'[req[p].attempt] = mail[req[p].attempt]
    BY <1>1, <1>2 DEF Holders, IInv, Used, Holds
  <2> QED
    BY <1>1, <1>3, <2>1 DEF Holders, IInv, Holds
<1>8. Lookers'
  <2> SUFFICES ASSUME NEW p \in Requests PROVE Lookers!(p)'
    BY DEF Lookers
  <2>1. req[p].pc \in {"look", "settle", "release"} =>
          /\ mail'[req[p].attempt].start = mail[req[p].attempt].start
          /\ mail[req[p].attempt].fate \in {"FREE", "LOST"} =>
                mail'[req[p].attempt].fate = mail[req[p].attempt].fate
    BY <1>1, <1>2 DEF Lookers, IInv, Used
  <2> QED
    BY <1>1, <1>3, <2>1 DEF Lookers, IInv, Sending
<1>9. NoStrayMessage'
  <2> SUFFICES ASSUME NEW b \in OfThisReply', Alive(b)' \/ mail'[b].fate = "IN"
               PROVE b = row.attempt \/ b \in released
    BY <1>1 DEF NoStrayMessage
  <2>1. b \in OfThisReply /\ (Alive(b) \/ mail[b].fate = "IN")
    BY <1>1, <1>2 DEF OfThisReply, Alive, Sending
  <2> QED
    BY <2>1 DEF NoStrayMessage, IInv
<1>10. EvidenceIsFrozen'
  BY <1>1, <1>2 DEF EvidenceIsFrozen, IInv, RowHolds
<1> QED
  BY <1>4, <1>5, <1>6, <1>7, <1>8, <1>9, <1>10 DEF IInv

\* Time passes, no further than the limits of requests and of Gmail.
LEMMA TickKeeps ==
    ASSUME IInv, TypeOK', Tick \/ UNCHANGED vars PROVE IInv'
<1>1. UNCHANGED <<row, reply, mail, released, req>> /\ now \in Nat /\ now' \in Nat /\ now <= now'
  BY Typed DEF Tick, vars, IInv
<1>2. RowHolds'
  BY <1>1, RowTypes DEF RowHolds, IInv
<1>3. Clocks'
  <2>1. CASE UNCHANGED vars
    BY <2>1 DEF Clocks, vars, IInv
  <2>2. CASE Tick
    <3>1. \A p \in Requests : req[p].pc # "idle" =>
             now' - req[p].born <= RequestLife /\ req[p].born <= now' /\ req[p].at <= now'
      BY <1>1, <2>2, Typed DEF Tick, Clocks, IInv
    <3>2. \A a \in Attempts : mail[a].fate = "WIRE" =>
             mail[a].start <= now' /\ now' - mail[a].start < Settle
      BY <1>1, <2>2, Typed DEF Tick, Clocks, IInv
    <3> QED
      BY <1>1, <3>1, <3>2 DEF Clocks, IInv
  <2> QED
    BY <2>1, <2>2
<1>4. Replies' /\ Holders' /\ Lookers'
  BY <1>1 DEF Replies, Holders, Lookers, Used, Sending, IInv
<1>5. NoStrayMessage' /\ EvidenceIsFrozen'
  BY <1>1 DEF NoStrayMessage, EvidenceIsFrozen, OfThisReply, Alive, Sending, IInv
<1> QED
  BY <1>2, <1>3, <1>4, <1>5 DEF IInv

\* The invariant holds at the start.
LEMMA IInvInit == Init => IInv
<1> SUFFICES ASSUME Init PROVE IInv
  OBVIOUS
<1>1. TypeOK
  <2>1. RowOK
    BY NamesAssumption DEF Init, NoRow, RowOK, RowShape, InDoubt, AnyWords,
       AnyAttempt, Never, None
  <2>2. ReqOK
    BY IdleIsRequest DEF Init, ReqOK
  <2>3. RestOK
    BY DEF Init, RestOK, Message, Unused, AnyWords
  <2> QED
    BY <2>1, <2>2, <2>3, Parts
<1>2. /\ row.state = None /\ reply = 0 /\ now = 0 /\ released = {}
      /\ \A p \in Requests : req[p].pc = "idle"
      /\ \A a \in Attempts : mail[a].fate = "FREE" /\ mail[a].reply = 0
  BY DEF Init, NoRow, Idle, Unused
<1>3. RowHolds /\ Clocks /\ Replies /\ Holders /\ Lookers
  <2>1. RowHolds /\ Clocks
    BY <1>2 DEF RowHolds, Clocks, InDoubt, None
  <2>2. Replies
    BY <1>2 DEF Replies
  <2>3. Holders /\ Lookers
    BY <1>2 DEF Holders, Lookers, Holds
  <2> QED
    BY <2>1, <2>2, <2>3
<1>4. NoStrayMessage /\ EvidenceIsFrozen
  BY <1>2 DEF NoStrayMessage, EvidenceIsFrozen, OfThisReply, InDoubt, None
<1> QED
  BY <1>1, <1>3, <1>4 DEF IInv

\* Every step keeps it.
LEMMA IInvNext == IInv /\ [Next]_vars => IInv'
<1> SUFFICES ASSUME IInv, [Next]_vars PROVE IInv'
  OBVIOUS
<1>1. TypeOK'
  BY TypesStep DEF IInv
<1> QED
  BY <1>1, WriterKeeps, StepKeeps, GmailKeeps, TickKeeps DEF Next

\* The inductive invariant is one.
THEOREM Invariance == Spec => []IInv
BY IInvInit, IInvNext, PTL DEF Spec

\* Rows, messages and requests keep their types, and the row the two checks of
\* its table (work_drafts_attempt_check, work_drafts_sent_check).
THEOREM MailTypes == Spec => []TypeOK
BY Invariance, PTL DEF IInv

\* No message of this reply arrived, or may yet, that the row does not account
\* for and the employee did not release (sendDraft, reconcile and
\* releaseUnconfirmed, from any number of tabs).
THEOREM NobodyElsesMessage == Spec => []NoStrayMessage
BY Invariance, PTL DEF IInv

\* The words in a row in doubt are those that were handed to Gmail (save and
\* the comparison after the claim in sendDraft).
THEOREM EvidenceStays == Spec => []EvidenceIsFrozen
BY Invariance, PTL DEF IInv

\* The invariant makes a sender the owner of the row.
LEMMA Owners == IInv => SenderOwnsTheRow
BY DEF IInv, Holders, SenderOwnsTheRow

\* From the claim to the transmission nothing else changes the row: neither a
\* sweep of stale claims, nor a look, nor a release (inFlightMs).
THEOREM SendersOwn == Spec => []SenderOwnsTheRow
BY Invariance, Owners, PTL

-----------------------------------------------------------------------------
\* A copy of the reply is the attempt in the row or one of those released.
LEMMA OneCopy == IInv => SentOnce
<1> SUFFICES ASSUME IInv PROVE SentOnce
  OBVIOUS
<1> DEFINE Arrived == {a \in OfThisReply : mail[a].fate = "IN"}
           Let == {a \in OfThisReply : a \in released}
<1>1. IsFiniteSet(Let)
  BY NamesAssumption, FS_Subset, Typed DEF OfThisReply, IInv
<1>2. Arrived \subseteq Let \cup {row.attempt}
  BY DEF IInv, NoStrayMessage
<1> HIDE DEF Let
<1>3. IsFiniteSet(Let \cup {row.attempt}) /\ Cardinality(Let \cup {row.attempt}) <= Cardinality(Let) + 1
  BY <1>1, FS_AddElement, FS_CardinalityType
<1>4. Cardinality(Arrived) <= Cardinality(Let \cup {row.attempt}) /\ IsFiniteSet(Arrived)
  BY <1>2, <1>3, FS_Subset
<1>5. Cardinality(Arrived) <= 1 + Cardinality(Let)
  BY <1>1, <1>3, <1>4, FS_CardinalityType
<1> QED
  BY <1>5, Zenon DEF SentOnce, Promise!AtMostOnce, Let, Cardinality,
     Promise!Cardinality

\* Loop sends one copy of a reply, and one more for each release at most.
THEOREM SentOnceHolds == Spec => []SentOnce
BY Invariance, OneCopy, PTL

-----------------------------------------------------------------------------
AliveOnes == {a \in OfThisReply : Alive(a)}
ArrivedOnes == {a \in OfThisReply : mail[a].fate = "IN"}
ReleasedOnes == {a \in OfThisReply : a \in released}
Account == <<Standing, row.attempt, AliveOnes, ArrivedOnes, ReleasedOnes>>

\* Nothing of the account of a reply has changed.
LEMMA SameAccount ==
    ASSUME Standing' = Standing, row'.attempt = row.attempt, AliveOnes' = AliveOnes,
           ArrivedOnes' = ArrivedOnes, ReleasedOnes' = ReleasedOnes
    PROVE UNCHANGED Promise!promise
BY DEF Promise!promise, AliveOnes, ArrivedOnes, ReleasedOnes

\* How the state of the row reads as the standing of the reply.
LEMMA Standings ==
    /\ row.state = None => Standing = "NONE"
    /\ row.state = "DRAFT" => Standing = "OPEN"
    /\ row.state = "SENT" => Standing = "SENT"
    /\ row.state \in InDoubt => Standing = "OUT"
BY DEF Standing, InDoubt, None

\* A quiet step confirms, disproves or releases the attempt that is out, or
\* leaves the account as it is.
LEMMA AccountOfAQuietStep ==
    ASSUME IInv, UNCHANGED <<mail, reply>>, \A a : Sending(a)' <=> Sending(a),
           \/ row' = row /\ released' = released
           \/ /\ row.state \in InDoubt
              /\ \/ row' = [row EXCEPT !.state = "SENT", !.words = None] /\ released' = released
                 \/ row' = [row EXCEPT !.state = "SEND_UNKNOWN"] /\ released' = released
                 \/ (\E at : row' = [row EXCEPT !.reconciled = at]) /\ released' = released
                 \/ /\ row' = Draft(row.id, row.words)
                    /\ \/ released' = released \cup {row.attempt}
                       \/ /\ mail[row.attempt].fate \in {"FREE", "LOST"}
                          /\ ~Sending(row.attempt) /\ released' = released
    PROVE [Promise!Next]_(Promise!promise)
<1>1. CASE row' = row /\ released' = released
  <2>1. Standing' = Standing /\ OfThisReply' = OfThisReply
    BY <1>1 DEF Standing, OfThisReply
  <2>2. AliveOnes' = AliveOnes /\ ArrivedOnes' = ArrivedOnes /\ ReleasedOnes' = ReleasedOnes
    BY <1>1, <2>1 DEF AliveOnes, ArrivedOnes, ReleasedOnes, Alive
  <2> QED
    BY <1>1, <2>1, <2>2, SameAccount
<1> SUFFICES ASSUME row.state \in InDoubt, row' # row \/ released' # released
             PROVE [Promise!Next]_(Promise!promise)
  BY <1>1
<1>2. row.attempt \in OfThisReply /\ Standing = "OUT"
  BY Standings DEF IInv, RowHolds, OfThisReply, InDoubt, None
<1>3. ASSUME row'.state # None
      PROVE OfThisReply' = OfThisReply /\ AliveOnes' = AliveOnes /\ ArrivedOnes' = ArrivedOnes
            /\ (released' = released => ReleasedOnes' = ReleasedOnes)
  <2>1. OfThisReply' = OfThisReply
    BY <1>3 DEF OfThisReply, InDoubt, None
  <2> QED
    BY <2>1 DEF AliveOnes, ArrivedOnes, ReleasedOnes, Alive
<1>4. CASE row' = [row EXCEPT !.state = "SENT", !.words = None] /\ released' = released
  <2>1. row'.state = "SENT" /\ row'.attempt = row.attempt
    BY <1>4 DEF IInv, TypeOK
  <2>2. Standing' = "SENT"
    BY <2>1 DEF Standing, None
  <2>3. Promise!Confirm
    BY <1>2, <1>3, <1>4, <2>1, <2>2 DEF Promise!Confirm, AliveOnes, ArrivedOnes,
       ReleasedOnes, None
  <2> QED
    BY <2>3 DEF Promise!Next
<1>5. ASSUME row'.state \in InDoubt, row'.attempt = row.attempt, released' = released
      PROVE UNCHANGED Promise!promise
  <2>1. Standing' = "OUT"
    BY <1>5 DEF Standing, InDoubt, None
  <2> QED
    BY <1>2, <1>3, <1>5, <2>1, SameAccount DEF InDoubt, None
<1>6. CASE row' = [row EXCEPT !.state = "SEND_UNKNOWN"] /\ released' = released
  BY <1>5, <1>6 DEF IInv, TypeOK, InDoubt
<1>7. CASE (\E at : row' = [row EXCEPT !.reconciled = at]) /\ released' = released
  BY <1>5, <1>7 DEF IInv, TypeOK, InDoubt
<1>8. CASE row' = Draft(row.id, row.words)
  <2>1. row'.state = "DRAFT" /\ row'.attempt = None
    BY <1>8 DEF Draft, NoRow
  <2>2. Standing' = "OPEN"
    BY <2>1 DEF Standing, None
  <2>3. OfThisReply' = OfThisReply /\ AliveOnes' = AliveOnes /\ ArrivedOnes' = ArrivedOnes
    BY <1>3, <2>1 DEF None
  <2>4. CASE released' = released \cup {row.attempt}
    <3>1. ReleasedOnes' = ReleasedOnes \cup {row.attempt}
      BY <1>2, <2>3, <2>4 DEF ReleasedOnes
    <3>2. Promise!Release
      BY <1>2, <2>1, <2>2, <2>3, <3>1 DEF Promise!Release, AliveOnes,
         ArrivedOnes, ReleasedOnes
    <3> QED
      BY <3>2 DEF Promise!Next
  <2>5. CASE /\ mail[row.attempt].fate \in {"FREE", "LOST"}
             /\ ~Sending(row.attempt) /\ released' = released
    <3>1. row.attempt \notin AliveOnes \cup ArrivedOnes
      BY <2>5 DEF AliveOnes, ArrivedOnes, Alive
    <3>2. ReleasedOnes' = ReleasedOnes
      BY <2>1, <2>5, <1>3 DEF None
    <3>3. Promise!Disprove
      BY <1>2, <2>1, <2>2, <2>3, <3>1, <3>2 DEF Promise!Disprove, AliveOnes,
         ArrivedOnes, ReleasedOnes
    <3> QED
      BY <3>3 DEF Promise!Next
  <2>6. released' = released \cup {row.attempt} \/
          (/\ mail[row.attempt].fate \in {"FREE", "LOST"}
           /\ ~Sending(row.attempt) /\ released' = released)
    BY <1>8, <2>1 DEF IInv, TypeOK, InDoubt
  <2> QED
    BY <2>4, <2>5, <2>6
<1> QED
  BY <1>4, <1>6, <1>7, <1>8

\* Which attempts are about to be transmitted, after a step of another request.
LEMMA SendingAfter ==
    ASSUME NEW p \in Requests, req[p].pc # "transmit", req'[p].pc # "transmit",
           \A q \in Requests : q # p => req'[q] = req[q]
    PROVE \A a : Sending(a)' <=> Sending(a)
BY DEF Sending

\* A claim begins an attempt, alive if the words still compare.
LEMMA ClaimBegins ==
    ASSUME IInv, NEW p \in Requests, ClaimForSend(p)
    PROVE [Promise!Next]_(Promise!promise)
<1>1. CASE ~(row.state = "DRAFT" /\ row.id = req[p].id)
  <2>1. req[p].pc = "claim" /\ Ends(p) /\ UNCHANGED <<row, mail, reply, released>>
    BY <1>1 DEF ClaimForSend
  <2>2. req'[p].pc = "idle" /\ \A q \in Requests : q # p => req'[q] = req[q]
    BY <2>1, EndsSteps DEF IInv, Idle
  <2>3. \A a : Sending(a)' <=> Sending(a)
    BY <2>1, <2>2, SendingAfter
  <2> QED
    BY <2>1, <2>3, AccountOfAQuietStep
<1>2. CASE row.state = "DRAFT" /\ row.id = req[p].id
  <2> DEFINE pc == IF row.words = req[p].words THEN "transmit" ELSE "abandon"
  <2>1. PICK a \in Attempts, s \in req[p].born .. now :
          /\ mail[a] = Unused /\ row' = Claimed(p, a, s)
          /\ mail' = [mail EXCEPT ![a].reply = reply, ![a].start = s]
          /\ req' = [req EXCEPT ![p].attempt = a, ![p].pc = pc]
    BY <1>2 DEF ClaimForSend
  <2> HIDE DEF pc
  <2>2. row'.state = "SENDING" /\ row'.attempt = a
    BY <2>1, <1>2 DEF Claimed, IInv, TypeOK
  <2>3. /\ mail[a].fate = "FREE" /\ mail[a].reply = 0 /\ mail'[a].fate = "FREE" /\ mail'[a].reply = reply
        /\ \A b \in Attempts : b # a => mail'[b] = mail[b]
    BY <2>1, Typed DEF Unused, IInv, Message
  <2>4. \A q \in Requests : q # p => req'[q] = req[q]
    BY <2>1, Typed DEF IInv
  <2>5. UNCHANGED <<reply, released>>
    BY DEF ClaimForSend
  <2>6. 1 <= reply /\ row.attempt = None
    BY <1>2 DEF IInv, RowHolds, TypeOK, RowShape, None
  <2>7. \A q \in Requests : req[q].pc # "transmit"
    BY <1>2 DEF IInv, Holders
  <2>8. req'[p].attempt = a
    BY <2>1, Typed DEF IInv, Request
  <2>9. \A b \in Attempts : b # a => ~Sending(b)' /\ ~Sending(b)
    BY <2>4, <2>7, <2>8 DEF Sending
  <2>10. OfThisReply' = OfThisReply \cup {a} /\ a \notin OfThisReply
    BY <1>2, <2>2, <2>3, <2>5, <2>6 DEF OfThisReply, None
  <2>11. AliveOnes' = AliveOnes \/ AliveOnes' = AliveOnes \cup {a}
    <3>1. \A b \in Attempts : b # a => (b \in AliveOnes' <=> b \in AliveOnes)
      BY <2>3, <2>9, <2>10 DEF AliveOnes, Alive
    <3>2. a \notin AliveOnes
      BY <2>10 DEF AliveOnes
    <3>3. AliveOnes \subseteq Attempts /\ AliveOnes' \subseteq Attempts
      BY DEF AliveOnes, OfThisReply
    <3> QED
      BY <3>1, <3>2, <3>3
  <2>12. ArrivedOnes' = ArrivedOnes
    BY <2>3, <2>10 DEF ArrivedOnes, OfThisReply
  <2>13. ReleasedOnes' = ReleasedOnes
    BY <2>3, <2>5, <2>10 DEF ReleasedOnes, IInv, Replies, Used
  <2>14. AliveOnes \cup ArrivedOnes \subseteq ReleasedOnes
    <3>1. \A b \in OfThisReply : b \in Attempts /\ b # row.attempt
      BY <2>6, NamesAssumption DEF OfThisReply
    <3> QED
      BY <3>1 DEF AliveOnes, ArrivedOnes, ReleasedOnes, IInv, NoStrayMessage
  <2>15. a \notin AliveOnes \cup ArrivedOnes \cup ReleasedOnes
    BY <2>10 DEF AliveOnes, ArrivedOnes, ReleasedOnes
  <2>16. Standing = "OPEN" /\ Standing' = "OUT"
    BY <1>2, <2>2 DEF Standing, None
  <2>17. Promise!Begin(a)
    BY <2>2, <2>11, <2>12, <2>13, <2>14, <2>15, <2>16
       DEF Promise!Begin, AliveOnes, ArrivedOnes, ReleasedOnes
  <2> QED
    BY <2>17 DEF Promise!Next
<1> QED
  BY <1>1, <1>2

\* A message that stops being alive has arrived or vanished.
LEMMA AccountOfAMessage ==
    ASSUME IInv, NEW a \in Attempts, UNCHANGED <<row, reply, released>>, Alive(a),
           mail[a].fate # "IN", mail'[a].reply = mail[a].reply,
           \A b \in Attempts : b # a => mail'[b] = mail[b] /\ (Sending(b)' <=> Sending(b)),
           \/ Alive(a)' /\ mail'[a].fate # "IN"
           \/ ~Alive(a)'
    PROVE [Promise!Next]_(Promise!promise)
<1>1. Standing' = Standing /\ OfThisReply' = OfThisReply
  BY DEF Standing, OfThisReply
<1>2. ReleasedOnes' = ReleasedOnes
  BY <1>1 DEF ReleasedOnes
<1>3. \A b \in Attempts : b # a =>
        (b \in AliveOnes' <=> b \in AliveOnes) /\ (b \in ArrivedOnes' <=> b \in ArrivedOnes)
  BY <1>1 DEF AliveOnes, ArrivedOnes, Alive
<1>4. /\ AliveOnes \subseteq Attempts /\ AliveOnes' \subseteq Attempts
      /\ ArrivedOnes \subseteq Attempts /\ ArrivedOnes' \subseteq Attempts
  BY DEF AliveOnes, ArrivedOnes, OfThisReply
<1>5. a \notin ArrivedOnes /\ (a \in AliveOnes <=> a \in OfThisReply)
  BY DEF AliveOnes, ArrivedOnes
<1>6. CASE a \notin OfThisReply \/ (Alive(a)' /\ mail'[a].fate # "IN")
  <2>1. (a \in AliveOnes' <=> a \in AliveOnes) /\ a \notin ArrivedOnes'
    BY <1>1, <1>5, <1>6 DEF AliveOnes, ArrivedOnes
  <2>2. AliveOnes' = AliveOnes /\ ArrivedOnes' = ArrivedOnes
    BY <2>1, <1>3, <1>4, <1>5
  <2> QED
    BY <2>2, <1>1, <1>2, SameAccount
<1>7. CASE a \in OfThisReply /\ ~Alive(a)'
  <2>1. a \in AliveOnes /\ AliveOnes' = AliveOnes \ {a}
    <3>1. a \notin AliveOnes'
      BY <1>7 DEF AliveOnes
    <3> QED
      BY <3>1, <1>3, <1>4, <1>5, <1>7
  <2>2. CASE mail'[a].fate = "IN"
    <3>1. ArrivedOnes' = ArrivedOnes \cup {a}
      <4>1. a \in ArrivedOnes'
        BY <1>1, <1>7, <2>2 DEF ArrivedOnes
      <4> QED
        BY <4>1, <1>3, <1>4
    <3>2. Promise!Arrive(a)
      BY <1>1, <1>2, <2>1, <3>1 DEF Promise!Arrive, AliveOnes, ArrivedOnes,
         ReleasedOnes
    <3> QED
      BY <3>2 DEF Promise!Next
  <2>3. CASE mail'[a].fate # "IN"
    <3>1. ArrivedOnes' = ArrivedOnes
      <4>1. a \notin ArrivedOnes'
        BY <2>3 DEF ArrivedOnes
      <4> QED
        BY <4>1, <1>3, <1>4, <1>5
    <3>2. Promise!Vanish(a)
      BY <1>1, <1>2, <2>1, <3>1 DEF Promise!Vanish, AliveOnes, ArrivedOnes,
         ReleasedOnes
    <3> QED
      BY <3>2 DEF Promise!Next
  <2> QED
    BY <2>2, <2>3
<1> QED
  BY <1>6, <1>7

\* At most one request is about to transmit.
LEMMA OneSender ==
    ASSUME IInv, NEW p \in Requests, req[p].pc = "transmit"
    PROVE  /\ req[p].attempt \in Attempts /\ mail[req[p].attempt].fate = "FREE"
           /\ Sending(req[p].attempt)
           /\ \A q \in Requests : q # p => req[q].pc # "transmit"
BY DEF IInv, Holders, Used, Sending, Holds

\* The step of the request about to transmit: the message is on the wire, or
\* vanishes with a definitive failure or with its request.
LEMMA SenderStepPromise ==
    ASSUME IInv, NEW p \in Requests, req[p].pc = "transmit", Transmit(p) \/ Die(p)
    PROVE [Promise!Next]_(Promise!promise)
<1> DEFINE a == req[p].attempt
<1>1. /\ a \in Attempts /\ mail[a].fate = "FREE" /\ Sending(a)
      /\ \A q \in Requests : q # p => req[q].pc # "transmit"
  BY OneSender
<1>2. UNCHANGED <<row, reply, released>>
  BY DEF Transmit, Die
<1>3. req'[p].pc # "transmit" /\ \A q \in Requests : q # p => req'[q] = req[q]
  <2>1. CASE Die(p)
    BY <2>1, EndsSteps DEF Die, IInv, Idle
  <2>2. CASE Transmit(p)
    BY <2>2, GoesSteps, Typed DEF Transmit, IInv, Request, Places
  <2> QED
    BY <2>1, <2>2
<1>4. \A b : ~Sending(b)'
  BY <1>1, <1>3 DEF Sending
<1>5. \A b \in Attempts : b # a => ~Sending(b)
  BY <1>1 DEF Sending
<1> HIDE DEF a
<1>6. /\ mail'[a].reply = mail[a].reply /\ \A b \in Attempts : b # a => mail'[b] = mail[b]
      /\ mail'[a].fate \in {"FREE", "WIRE", "LOST"}
  <2>1. CASE Die(p)
    BY <2>1, <1>1 DEF Die
  <2>2. CASE Transmit(p)
    <3>1. PICK fate \in {"WIRE", "LOST"} : mail' = [mail EXCEPT
             ![a].fate = fate, ![a].words = req[p].words]
      BY <2>2 DEF Transmit, a
    <3> QED
      BY <3>1, <1>1, Typed DEF IInv, Message
  <2> QED
    BY <2>1, <2>2
<1>7. Alive(a) /\ mail[a].fate # "IN" /\ mail'[a].fate # "IN"
  BY <1>1, <1>6 DEF Alive
<1>8. \A b \in Attempts : b # a => mail'[b] = mail[b] /\ (Sending(b)' <=> Sending(b))
  BY <1>4, <1>5, <1>6
<1> QED
  BY <1>1, <1>2, <1>6, <1>7, <1>8, AccountOfAMessage

\* Every step of a request is a step of the promise or a stutter.
LEMMA StepPromise ==
    ASSUME IInv, NEW p \in Requests, Step(p)
    PROVE [Promise!Next]_(Promise!promise)
<1>1. CASE ClaimForSend(p)
  BY <1>1, ClaimBegins
<1>2. CASE req[p].pc = "transmit"
  <2>1. Transmit(p) \/ Die(p)
    BY <1>2 DEF Step, SendDraft, ClaimForSend, AbandonClaim, RecordSent,
       RecordNotSent,
       RecordUnknown, Reconcile, ReadDraft, MarkStaleAttemptUnknown, RereadDraft,
       LookupSent, SettleDoubt, ReleaseUnconfirmed, ReadCurrent, ReleaseUnknown
  <2> QED
    BY <1>2, <2>1, SenderStepPromise
<1>3. CASE req[p].pc # "transmit" /\ ~ClaimForSend(p)
  <2>1. QuietStep(p)
    BY <1>3, QuietSteps DEF Transmit
  <2>2. req'[p].pc # "transmit" /\ \A q \in Requests : q # p => req'[q] = req[q]
    BY <2>1, Typed DEF QuietStep, Fits, Holds, IInv
  <2>3. \A a : Sending(a)' <=> Sending(a)
    BY <1>3, <2>2, SendingAfter
  <2>4. (\A q \in Requests \ {p} : req[q].pc # "transmit") => ~Sending(row.attempt)
    BY <1>3 DEF Sending
  <2> QED
    BY <2>1, <2>3, <2>4, AccountOfAQuietStep DEF QuietStep, QuietRow
<1> QED
  BY <1>1, <1>2, <1>3

\* A new reply and a discarded one start a clean account.
LEMMA WriterPromise ==
    ASSUME IInv, (\E w \in Words : Save(w)) \/ Discard
    PROVE [Promise!Next]_(Promise!promise)
<1>1. UNCHANGED <<mail, released, req, now>>
  BY DEF Save, Discard
<1>2. \A a : Sending(a)' <=> Sending(a)
  BY <1>1 DEF Sending
<1>3. ASSUME OfThisReply' = {}, row'.attempt = None
      PROVE /\ row'.attempt = None /\ AliveOnes' = {} /\ ArrivedOnes' = {} /\ ReleasedOnes' = {}
  BY <1>3 DEF AliveOnes, ArrivedOnes, ReleasedOnes
<1>4. CASE Discard
  <2>1. row'.state = None /\ row'.attempt = None /\ row.state = "DRAFT"
    BY <1>4 DEF Discard, NoRow
  <2>2. OfThisReply' = {}
    BY <2>1 DEF OfThisReply
  <2>3. Standing = "OPEN" /\ Standing' = "NONE"
    BY <2>1 DEF Standing, None
  <2>4. Promise!Discard
    BY <1>3, <2>1, <2>2, <2>3 DEF Promise!Discard, Promise!Blank, AliveOnes,
       ArrivedOnes, ReleasedOnes
  <2> QED
    BY <2>4 DEF Promise!Next
<1>5. CASE \E w \in Words : Save(w)
  <2> PICK w \in Words : Save(w)
    BY <1>5
  <2>1. CASE row.state \in {None, "SENT"} /\ reply' = reply + 1 /\ \E id : row' = Draft(id, w)
    <3>1. row'.state = "DRAFT" /\ row'.attempt = None
      BY <2>1 DEF Draft, NoRow
    <3>2. \A a \in Attempts : mail[a].reply # reply'
      BY <2>1, Typed DEF IInv, Replies
    <3>3. OfThisReply' = {}
      BY <1>1, <3>2 DEF OfThisReply
    <3>4. Standing \in {"NONE", "SENT"} /\ Standing' = "OPEN"
      BY <2>1, <3>1 DEF Standing, None
    <3>5. Promise!Compose
      BY <1>3, <3>1, <3>3, <3>4 DEF Promise!Compose, Promise!Blank, AliveOnes,
         ArrivedOnes, ReleasedOnes
    <3> QED
      BY <3>5 DEF Promise!Next
  <2>2. CASE row.state = "DRAFT" /\ row' = [row EXCEPT !.words = w] /\ reply' = reply
    <3>1. row'.state = "DRAFT" /\ row'.attempt = row.attempt
      BY <2>2 DEF IInv, TypeOK
    <3>2. Standing' = Standing
      BY <2>2, <3>1 DEF Standing
    <3>3. OfThisReply' = OfThisReply
      BY <1>1, <2>2, <3>1 DEF OfThisReply
    <3>4. AliveOnes' = AliveOnes /\ ArrivedOnes' = ArrivedOnes /\ ReleasedOnes' = ReleasedOnes
      BY <1>1, <1>2, <3>3 DEF AliveOnes, ArrivedOnes, ReleasedOnes, Alive
    <3> QED
      BY <3>1, <3>2, <3>4, SameAccount
  <2> QED
    BY <2>1, <2>2 DEF Save
<1> QED
  BY <1>4, <1>5

\* Gmail's own steps are arrivals and losses.
LEMMA GmailPromise ==
    ASSUME IInv, NEW a \in Attempts, Accept(a) \/ Lose(a)
    PROVE [Promise!Next]_(Promise!promise)
<1>1. UNCHANGED <<row, reply, released, req>> /\ mail[a].fate = "WIRE"
  BY DEF Accept, Lose
<1>2. \A b : Sending(b)' <=> Sending(b)
  BY <1>1 DEF Sending
<1>3. ~Sending(a)
  BY <1>1 DEF Sending, IInv, Holders
<1>4. /\ mail'[a].reply = mail[a].reply /\ mail'[a].fate \in {"IN", "LOST"}
      /\ \A b \in Attempts : b # a => mail'[b] = mail[b]
  <2>1. mail \in [Attempts -> Message] /\ mail[a] \in Message
    BY Typed DEF IInv
  <2>2. CASE mail' = [mail EXCEPT ![a] = [mail[a] EXCEPT !.fate = "IN", !.at = now]]
    BY <2>1, <2>2 DEF Message
  <2>3. CASE mail' = [mail EXCEPT ![a] = [mail[a] EXCEPT !.fate = "LOST"]]
    BY <2>1, <2>3 DEF Message
  <2> QED
    BY <2>2, <2>3 DEF Accept, Lose
<1>5. Alive(a) /\ ~Alive(a)'
  BY <1>1, <1>2, <1>3, <1>4 DEF Alive
<1> QED
  BY <1>1, <1>2, <1>4, <1>5, AccountOfAMessage

\* Time changes nothing of the account.
LEMMA TickPromise ==
    ASSUME IInv, Tick \/ UNCHANGED vars
    PROVE [Promise!Next]_(Promise!promise)
<1>1. UNCHANGED <<row, reply, mail, released, req>>
  BY DEF Tick, vars
<1>2. \A b : Sending(b)' <=> Sending(b)
  BY <1>1 DEF Sending
<1> QED
  BY <1>1, <1>2, AccountOfAQuietStep

\* The account starts blank.
LEMMA PromiseInit == Init => Promise!Init
<1> SUFFICES ASSUME Init PROVE Promise!Init
  OBVIOUS
<1>1. row.state = None /\ row.attempt = None
  BY DEF Init, NoRow
<1>2. OfThisReply = {} /\ Standing = "NONE"
  BY <1>1 DEF OfThisReply, Standing, None
<1> QED
  BY <1>1, <1>2 DEF Promise!Init, Promise!Blank

\* Loop keeps the promise it makes to the employee: MailSend implements
\* MailPromise.
THEOREM Refinement == Spec => KeepsThePromise
<1>1. IInv /\ [Next]_vars => [Promise!Next]_(Promise!promise)
  BY StepPromise, WriterPromise, GmailPromise, TickPromise DEF Next
<1> QED
  BY <1>1, PromiseInit, Invariance, PTL DEF Spec, KeepsThePromise, Promise!Spec
====
