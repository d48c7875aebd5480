----------------------------- MODULE MailPress -----------------------------
(***************************************************************************)
(* The Send button of the composer over MailSend (sendReplyAction in       *)
(* apps/web/src/daily-loop/mail-actions.ts).  A press carries the words of *)
(* the page it is pressed on; it saves them first and then sends whatever  *)
(* draft the conversation holds.  The same page may be pressed again: a    *)
(* double-click, a browser that repeats the request, a second tab.         *)
(***************************************************************************)
EXTENDS MailSend

CONSTANTS Pages,    \* renderings of the composer, each with one reply written in it
          Shows     \* the words on a page

VARIABLES
    press,  \* the page each request's press came from, and what is left of it
    page    \* the page whose press made each attempt

pressVars == <<row, reply, mail, released, req, now, press, page>>

NoPress == [pc |-> "none", page |-> None]
PressInit ==
    /\ Init
    /\ press = [p \in Requests |-> NoPress]
    /\ page = [a \in Attempts |-> None]

Press(p, f) ==
    /\ req[p].pc = "idle" /\ press[p].pc \in {"none", "sent"}
    /\ press' = [press EXCEPT ![p] = [pc |-> "save", page |-> f]]
    /\ UNCHANGED <<row, reply, mail, released, req, now, page>>

\* saveDraftAction: in flight or in doubt the words are frozen and nothing is
\* saved; over a reply that was sent, a new one is begun.
PressSaves(p) ==
    /\ press[p].pc = "save"
    /\ press' = [press EXCEPT ![p].pc = "send"]
    /\ \/ Save(Shows[press[p].page])
       \/ row.state \in InDoubt /\ UNCHANGED vars
    /\ UNCHANGED page

\* The draft of the conversation is found and sent, or reconciled.
PressSends(p) ==
    /\ press[p].pc = "send"
    /\ press' = [press EXCEPT ![p].pc = "sent"]
    /\ \/ SendDraft(p) \/ Reconcile(p)
       \/ row.state \in {None, "SENT"} /\ UNCHANGED vars
    /\ UNCHANGED page

\* The attempt a press claims the draft for is that page's.
PressClaims(p) ==
    /\ ClaimForSend(p)
    /\ page' = [a \in Attempts |->
                   IF mail'[a] # mail[a] THEN press[p].page ELSE page[a]]
    /\ UNCHANGED press

Others ==
    /\ UNCHANGED <<press, page>>
    /\ \/ \E p \in Requests :
             \/ AbandonClaim(p) \/ Transmit(p) \/ RecordSent(p)
             \/ RecordNotSent(p) \/ RecordUnknown(p) \/ ReadDraft(p)
             \/ MarkStaleAttemptUnknown(p) \/ RereadDraft(p) \/ LookupSent(p)
             \/ SettleDoubt(p) \/ ReleaseUnconfirmed(p) \/ ReadCurrent(p)
             \/ ReleaseUnknown(p) \/ Die(p)
       \/ \E a \in Attempts : Accept(a) \/ Lose(a)
       \/ Tick

PressNext ==
    \/ \E p \in Requests, f \in Pages : Press(p, f)
    \/ \E p \in Requests : PressSaves(p) \/ PressSends(p) \/ PressClaims(p)
    \/ Others

PressSpec == PressInit /\ [][PressNext]_pressVars

-----------------------------------------------------------------------------
\* "a double-click, a retry and two tabs resolve to one message"
\* (daily-loop-employee-intelligence.md): of the presses on one page at most one
\* message arrives, those aside that the employee released.
PressesAreOneMessage == \A f \in Pages :
    Cardinality({a \in Attempts : page[a] = f /\ mail[a].fate = "IN"
                                  /\ a \notin released}) <= 1
=============================================================================
