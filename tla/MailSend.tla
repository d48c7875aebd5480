------------------------------ MODULE MailSend ------------------------------
(***************************************************************************)
(* The reply one employee writes on one conversation (the row of           *)
(* work_drafts), and the requests that send, check and release it from     *)
(* several tabs at once (MailSendService over WorkDraftRepository).  A     *)
(* request runs one database statement or one call of Gmail per step and   *)
(* may die between any two.  Gmail has no idempotency key: an answer may   *)
(* be lost while the message is accepted, now or a while later.            *)
(*                                                                         *)
(* WORDS stand for what the claim compares: body, to and cc.  Left out:    *)
(* failure classes and resolutions, which are only shown, and with them    *)
(* noteNotAttempted.  The clock counts ticks; policies are in ticks.       *)
(***************************************************************************)
EXTENDS Integers, FiniteSets

CONSTANTS
    Requests,      \* requests that may run at once
    Attempts,      \* identities of attempts, each of them used once
    Words,
    RequestLife,   \* the platform kills a request this old (60 s)
    InFlight,      \* a SENDING row this old has lost its request (90 s)
    ReleaseAfter,  \* the earliest release by the employee (2 min)
    Settle,        \* before it, absence proves nothing (10 min)
    Floor,         \* between two looks at one attempt, unless asked (15 s)
    WindowBefore, WindowAfter,  \* the Sent mail an attempt may show in
    MaxTime, MaxReplies   \* bounds

None == "NONE"
Never == -1
ASSUME NamesAssumption == IsFiniteSet(Attempts) /\ None \notin Attempts \cup Words
ASSUME PolicyAssumption ==
    /\ RequestLife \in Nat /\ InFlight \in Nat /\ ReleaseAfter \in Nat
    /\ Settle \in Nat /\ Floor \in Nat
    /\ WindowBefore \in Nat /\ WindowAfter \in Nat
    /\ RequestLife <= InFlight /\ RequestLife < Settle
    /\ Settle <= WindowAfter + 1
    /\ MaxTime \in Nat /\ MaxReplies \in Nat

VARIABLES
    row,       \* the draft
    reply,     \* how many replies were begun: the one the row holds is the last
    mail,      \* what became of each attempt's message, at Gmail
    released,  \* the attempts the employee released
    req,       \* what each request is doing
    now

vars == <<row, reply, mail, released, req, now>>

-----------------------------------------------------------------------------
NoRow == [state |-> None, id |-> 0, words |-> None, attempt |-> None,
          started |-> 0, hash |-> None, reconciled |-> Never]
DraftOfAttempt(id, w) ==    \* mutant: without NO_ATTEMPT
    [row EXCEPT !.state = "DRAFT", !.id = id, !.words = w]
Draft(id, w) == [NoRow EXCEPT !.state = "DRAFT", !.id = id, !.words = w]

\* An attempt's message is FREE (nothing was transmitted), on the WIRE, IN the
\* employee's Sent mail, or LOST: it will never be accepted.
Unused == [fate |-> "FREE", reply |-> 0, words |-> None, start |-> 0, at |-> 0]

Idle == [pc |-> "idle", kind |-> None, born |-> 0, id |-> 0, words |-> None,
         attempt |-> None, started |-> 0, at |-> 0, verdict |-> "UNKNOWN"]
Asked(kind, pc) ==
    [Idle EXCEPT !.kind = kind, !.pc = pc, !.born = now, !.id = row.id]

Init ==
    /\ row = NoRow /\ reply = 0
    /\ mail = [a \in Attempts |-> Unused]
    /\ released = {}
    /\ req = [p \in Requests |-> Idle]
    /\ now = 0

Goes(p, pc) == req' = [req EXCEPT ![p].pc = pc]
\* The request goes on without what it read of the row.
Forgets(p, pc) == req' = [req EXCEPT
    ![p] = [Idle EXCEPT !.pc = pc, !.kind = req[p].kind,
                        !.born = req[p].born, !.id = req[p].id]]
Ends(p) == req' = [req EXCEPT ![p] = Idle]
\* A conditional update: its row changes where the condition holds.
Update(condition, new) == row' = IF condition THEN new ELSE row
InDoubt == {"SENDING", "SEND_UNKNOWN"}
\* The conditions on the draft and on this request's attempt.
ByAnyAttempt(p) == row.id = req[p].id    \* mutant: only the draft is named
ByAttempt(p) == row.id = req[p].id /\ row.attempt = req[p].attempt

-----------------------------------------------------------------------------
(* The employee composes.  The condition of a write is the state that was   *)
(* read, so the read and the write are one step or change nothing.          *)

Save(w) ==
    /\ \/ /\ row.state \in {None, "SENT"} /\ reply < MaxReplies
          /\ reply' = reply + 1
          /\ row' = Draft(IF row.state = None THEN reply' ELSE row.id, w)
       \/ /\ row.state = "DRAFT" /\ row' = [row EXCEPT !.words = w]
          /\ UNCHANGED reply
    /\ UNCHANGED <<mail, released, req, now>>

Discard ==
    /\ row.state = "DRAFT" /\ row' = NoRow
    /\ UNCHANGED <<reply, mail, released, req, now>>

-----------------------------------------------------------------------------
(* sendDraft                                                                *)

\* The draft is read; in flight or in doubt, it would be reconciled instead (see
\* Reconcile).
SendDraft(p) ==
    /\ req[p].pc = "idle" /\ row.state = "DRAFT"
    /\ req' = [req EXCEPT ![p] = [Asked("VIEW", "claim") EXCEPT !.words = row.words]]
    /\ UNCHANGED <<row, reply, mail, released, now>>

\* The attempt's identity, its start and the fingerprint of the words that were
\* read, in the write that claims; then the words in the row are compared.
Claimed(p, a, s) == [row EXCEPT !.state = "SENDING", !.attempt = a,
    !.started = s, !.hash = req[p].words, !.reconciled = Never]
ClaimUncompared(p) ==    \* mutant: the words in the row are not compared
    /\ req[p].pc = "claim"
    /\ IF row.state = "DRAFT" /\ row.id = req[p].id
       THEN \E a \in Attempts, s \in req[p].born .. now :
            /\ mail[a] = Unused
            /\ row' = Claimed(p, a, s)
            /\ mail' = [mail EXCEPT ![a].reply = reply, ![a].start = s]
            /\ req' = [req EXCEPT ![p].attempt = a, ![p].pc = "transmit"]
       ELSE Ends(p) /\ UNCHANGED <<row, mail>>
    /\ UNCHANGED <<reply, released, now>>
ClaimForSend(p) ==
    /\ req[p].pc = "claim"
    /\ IF row.state = "DRAFT" /\ row.id = req[p].id
       THEN \E a \in Attempts, s \in req[p].born .. now :
            /\ mail[a] = Unused
            /\ row' = Claimed(p, a, s)
            /\ mail' = [mail EXCEPT ![a].reply = reply, ![a].start = s]
            /\ req' = [req EXCEPT ![p].attempt = a, ![p].pc =
                  IF row.words = req[p].words THEN "transmit" ELSE "abandon"]
       ELSE Ends(p) /\ UNCHANGED <<row, mail>>
    /\ UNCHANGED <<reply, released, now>>

AbandonClaim(p) ==
    /\ req[p].pc = "abandon" /\ Ends(p)
    /\ Update(ByAttempt(p) /\ row.state = "SENDING", Draft(row.id, row.words))
    /\ UNCHANGED <<reply, mail, released, now>>

\* mail.send: the request leaves, or is known never to have been transmitted.
Transmit(p) ==
    /\ req[p].pc = "transmit" /\ Goes(p, "answer")
    /\ \E fate \in {"WIRE", "LOST"} : mail' = [mail EXCEPT
           ![req[p].attempt].fate = fate, ![req[p].attempt].words = req[p].words]
    /\ UNCHANGED <<row, reply, released, now>>

Fate(p) == mail[req[p].attempt].fate
RecordSent(p) ==
    /\ req[p].pc = "answer" /\ Fate(p) = "IN" /\ Ends(p)
    /\ Update(ByAttempt(p) /\ row.state \in InDoubt,
              [row EXCEPT !.state = "SENT", !.words = None])
    /\ UNCHANGED <<reply, mail, released, now>>
RecordNotSent(p) ==
    /\ req[p].pc = "answer" /\ Fate(p) = "LOST" /\ Ends(p)
    /\ Update(ByAttempt(p) /\ row.state = "SENDING", Draft(row.id, row.words))
    /\ UNCHANGED <<reply, mail, released, now>>
\* A deadline, a lost connection, a 5xx, an unreadable answer: whatever Gmail
\* did or will do.
RecordUnknown(p) ==
    /\ req[p].pc = "answer" /\ Forgets(p, "read")
    /\ Update(ByAttempt(p) /\ row.state = "SENDING",
              [row EXCEPT !.state = "SEND_UNKNOWN"])
    /\ UNCHANGED <<reply, mail, released, now>>

-----------------------------------------------------------------------------
(* reconcile                                                                *)

\* What is kept of the attempt for a look, unless it was looked at just now and
\* nobody asks.
RecentlyChecked(r, at) ==
    r.kind = "VIEW" /\ row.reconciled # Never /\ at - row.reconciled < Floor
Looks(r, at) ==
    IF RecentlyChecked(r, at) THEN Idle
    ELSE [r EXCEPT !.pc = "look", !.at = at, !.attempt = row.attempt,
                   !.started = row.started, !.words = row.hash,
                   !.kind = IF @ = "RELEASE" THEN @ ELSE "VIEW"]
\* Where request r stands once it has read the row.
Reading(r) ==
    CASE row.id # r.id -> Idle
      [] row.state = "SENDING" /\ now - row.started >= InFlight ->
             [r EXCEPT !.pc = "mark", !.at = now]
      [] row.state = "SEND_UNKNOWN" -> Looks(r, now)
      [] OTHER -> Idle

\* The page looks at an attempt whenever it is opened (VIEW), as do a second
\* Send and the end of an ambiguous one; "Check Gmail again" is a CHECK.
Reconcile(p) == \E kind \in {"VIEW", "CHECK"} :
    /\ req[p].pc = "idle" /\ row.state \in InDoubt
    /\ req' = [req EXCEPT ![p] = Reading(Asked(kind, "read"))]
    /\ UNCHANGED <<row, reply, mail, released, now>>
ReadDraft(p) ==
    /\ req[p].pc = "read" /\ req' = [req EXCEPT ![p] = Reading(req[p])]
    /\ UNCHANGED <<row, reply, mail, released, now>>

\* Conditional on the age of the attempt in the row, whichever attempt that is.
StaleAtOnce(at) == row.state = "SENDING"    \* mutant: an age of zero
Stale(at) == row.state = "SENDING" /\ row.started < at - InFlight
StaleReleases(p) ==    \* mutant: the claim expires into a draft again
    /\ req[p].pc = "mark" /\ Goes(p, "reread")
    /\ Update(row.id = req[p].id /\ Stale(req[p].at), Draft(row.id, row.words))
    /\ UNCHANGED <<reply, mail, released, now>>
MarkStaleAttemptUnknown(p) ==
    /\ req[p].pc = "mark" /\ Goes(p, "reread")
    /\ Update(row.id = req[p].id /\ Stale(req[p].at),
              [row EXCEPT !.state = "SEND_UNKNOWN"])
    /\ UNCHANGED <<reply, mail, released, now>>

RereadDraft(p) ==
    /\ req[p].pc = "reread"
    /\ req' = [req EXCEPT ![p] =
           IF row.id = req[p].id /\ row.state = "SEND_UNKNOWN"
           THEN Looks(req[p], req[p].at) ELSE Idle]
    /\ UNCHANGED <<row, reply, mail, released, now>>

\* Sent mail in the window of an attempt begun at s.
Accepted == {a \in Attempts : mail[a].fate = "IN"}
SentMail == {[words |-> mail[a].words, at |-> mail[a].at] : a \in Accepted}
InWindow(s) == {m \in SentMail : s - WindowBefore <= m.at /\ m.at <= s + WindowAfter}

\* reconcileGmailSend, of what was seen: proof of presence at any age, proof of
\* absence only by a complete look, once the attempt has settled.
Verdict(p, seen, complete) ==
    CASE \E m \in seen : m.words = req[p].words -> "SENT"
      [] seen = {} /\ complete /\ req[p].at - req[p].started >= Settle -> "NOT_SENT"
      [] OTHER -> "UNKNOWN"
Concludes(p, verdict) == req' = [req EXCEPT ![p].pc = "settle",
    ![p].verdict = verdict, ![p].words = None, ![p].started = 0]
PartialLookup(p) ==    \* mutant: a look with holes counts as complete
    /\ req[p].pc = "look"
    /\ \E seen \in SUBSET InWindow(req[p].started) :
          Concludes(p, Verdict(p, seen, TRUE))
    /\ UNCHANGED <<row, reply, mail, released, now>>
\* lookupGoogleGmailSent: a look may miss anything, or fail and see nothing; it
\* is complete only with every page of the window, after the attempt has settled.
LookupSent(p) ==
    LET settled == req[p].at - req[p].started >= Settle
        window  == InWindow(req[p].started) IN
    /\ req[p].pc = "look"
    /\ \E seen \in SUBSET window, complete \in BOOLEAN :
          /\ complete => settled /\ seen = window
          /\ Concludes(p, Verdict(p, seen, complete))
    /\ UNCHANGED <<row, reply, mail, released, now>>

\* recordSent, releaseUnknown or recordReconciled.
SettleDoubt(p) ==
    /\ req[p].pc = "settle"
    /\ CASE req[p].verdict = "SENT" ->
              Update(ByAttempt(p) /\ row.state \in InDoubt,
                     [row EXCEPT !.state = "SENT", !.words = None])
         [] req[p].verdict = "NOT_SENT" ->
              Update(ByAttempt(p) /\ row.state = "SEND_UNKNOWN",
                     Draft(row.id, row.words))
         [] OTHER ->
              Update(ByAttempt(p) /\ row.state = "SEND_UNKNOWN",
                     [row EXCEPT !.reconciled = req[p].at])
    /\ IF req[p].kind = "RELEASE" /\ req[p].verdict = "UNKNOWN"
       THEN Forgets(p, "reconfirm") ELSE Ends(p)
    /\ UNCHANGED <<reply, mail, released, now>>
-----------------------------------------------------------------------------
(* releaseUnconfirmed                                                       *)

\* "I checked my Sent mail": refused while the attempt that was read is young.
ReleaseUnconfirmed(p) ==
    /\ req[p].pc = "idle" /\ row.state \in InDoubt
    /\ now - row.started >= ReleaseAfter
    /\ req' = [req EXCEPT ![p] = Asked("RELEASE", "read")]
    /\ UNCHANGED <<row, reply, mail, released, now>>

\* After a look that could not tell, the row is read again and the attempt it
\* holds NOW is the one released.
ReadCurrent(p) ==
    /\ req[p].pc = "reconfirm"
    /\ req' = [req EXCEPT ![p] =
           IF row.id = req[p].id /\ row.state = "SEND_UNKNOWN"
           THEN [req[p] EXCEPT !.pc = "release", !.attempt = row.attempt]
           ELSE Idle]
    /\ UNCHANGED <<row, reply, mail, released, now>>
ReleaseUnknown(p) ==
    LET condition == ByAttempt(p) /\ row.state = "SEND_UNKNOWN" IN
    /\ req[p].pc = "release" /\ Ends(p)
    /\ Update(condition, Draft(row.id, row.words))
    /\ released' = IF condition THEN released \cup {row.attempt} ELSE released
    /\ UNCHANGED <<reply, mail, now>>

-----------------------------------------------------------------------------
(* Gmail, the platform and the clock.                                       *)

Accept(a) ==
    /\ mail[a].fate = "WIRE"
    /\ mail' = [mail EXCEPT ![a].fate = "IN", ![a].at = now]
    /\ UNCHANGED <<row, reply, released, req, now>>
Lose(a) ==
    /\ mail[a].fate = "WIRE"
    /\ mail' = [mail EXCEPT ![a].fate = "LOST"]
    /\ UNCHANGED <<row, reply, released, req, now>>

Die(p) ==
    /\ req[p].pc # "idle" /\ Ends(p)
    /\ UNCHANGED <<row, reply, mail, released, now>>

\* No request outlives its limit, and Gmail has accepted a message or never
\* will by the time the attempt has settled: what the policies rest on.
Tick ==
    /\ now < MaxTime /\ now' = now + 1
    /\ \A p \in Requests : req[p].pc # "idle" => now' - req[p].born <= RequestLife
    /\ \A a \in Attempts : mail[a].fate = "WIRE" => now' - mail[a].start < Settle
    /\ UNCHANGED <<row, reply, mail, released, req>>

Step(p) ==
    \/ SendDraft(p)     \/ ClaimForSend(p)  \/ AbandonClaim(p)
    \/ Transmit(p)      \/ RecordSent(p)    \/ RecordNotSent(p)
    \/ RecordUnknown(p) \/ Reconcile(p)     \/ ReadDraft(p)
    \/ MarkStaleAttemptUnknown(p)           \/ RereadDraft(p)
    \/ LookupSent(p)    \/ SettleDoubt(p)   \/ ReleaseUnconfirmed(p)
    \/ ReadCurrent(p)   \/ ReleaseUnknown(p) \/ Die(p)

Next ==
    \/ \E w \in Words : Save(w)
    \/ Discard
    \/ \E p \in Requests : Step(p)
    \/ \E a \in Attempts : Accept(a) \/ Lose(a)
    \/ Tick

Spec == Init /\ [][Next]_vars

-----------------------------------------------------------------------------
Places == {"idle", "claim", "abandon", "transmit", "answer", "read", "mark",
           "reread", "look", "settle", "reconfirm", "release"}
AnyWords == Words \cup {None}
AnyAttempt == Attempts \cup {None}
Request == [pc : Places, kind : {None, "VIEW", "CHECK", "RELEASE"},
            born : Nat, id : Nat, words : AnyWords, attempt : AnyAttempt,
            started : Nat, at : Nat, verdict : {"SENT", "NOT_SENT", "UNKNOWN"}]
\* work_drafts_attempt_check and work_drafts_sent_check.
RowShape ==
    /\ row.state \in InDoubt => row.attempt # None /\ row.hash # None
    /\ row.state \in {None, "DRAFT"} => row.attempt = None /\ row.hash = None
    /\ row.state = "SENT" => row.attempt # None /\ row.words = None
TypeOK ==
    /\ row \in [state : {None, "DRAFT", "SENDING", "SEND_UNKNOWN", "SENT"},
                id : Nat, words : AnyWords, attempt : AnyAttempt,
                started : Nat, hash : AnyWords, reconciled : Nat \cup {Never}]
    /\ RowShape
    /\ reply \in Nat /\ now \in Nat
    /\ mail \in [Attempts -> [fate : {"FREE", "WIRE", "IN", "LOST"}, reply : Nat,
                              words : AnyWords, start : Nat, at : Nat]]
    /\ released \subseteq Attempts
    /\ req \in [Requests -> Request]

\* An attempt is alive while its message may still be accepted: it is on the
\* wire, or a request is about to transmit it.
Sending(a) == \E p \in Requests : req[p].pc = "transmit" /\ req[p].attempt = a
Alive(a) == mail[a].fate = "WIRE" \/ Sending(a)
OfThisReply == {a \in Attempts : row.state # None /\ mail[a].reply = reply}

\* The row as the employee is promised it.
Standing == CASE row.state = None -> "NONE" [] row.state = "DRAFT" -> "OPEN"
              [] row.state = "SENT" -> "SENT" [] OTHER -> "OUT"
Promise == INSTANCE MailPromise WITH
    NoAttempt <- None, standing <- Standing, current <- row.attempt,
    alive <- {a \in OfThisReply : Alive(a)},
    arrived <- {a \in OfThisReply : mail[a].fate = "IN"},
    released <- {a \in OfThisReply : a \in released}

\* Every message of this reply that arrived, or may yet, is the attempt the row
\* accounts for or one the employee let go: the draft is never open to be sent
\* over a message nobody has decided about (mail-send.service.ts, rule 5).
NoStrayMessage == \A a \in OfThisReply :
    Alive(a) \/ mail[a].fate = "IN" => a = row.attempt \/ a \in released

\* One copy of a reply arrives, and one more for each release at most.
SentOnce == Promise!AtMostOnce

\* While a request is about to transmit, its row is still its own: no other
\* request, edit, sweep of old claims or release has touched it, so nothing can
\* be sent beside it (inFlightMs is longer than a request lives).
SenderOwnsTheRow == \A p \in Requests : req[p].pc = "transmit" =>
    row.state = "SENDING" /\ row.attempt = req[p].attempt

\* What may already be in somebody's inbox stays in the row, word for word, as
\* the evidence to look for, however edits race the claim (sameWords, save).
EvidenceIsFrozen ==
    row.state \in InDoubt /\ mail[row.attempt].words # None =>
        row.words = mail[row.attempt].words /\ row.hash = row.words

\* Loop keeps the promise (the module MailPromise).
KeepsThePromise == Promise!Spec
=============================================================================
