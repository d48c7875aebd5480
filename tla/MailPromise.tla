----------------------------- MODULE MailPromise -----------------------------
(***************************************************************************)
(* What Loop promises an employee about one reply, whatever happens to the *)
(* request that sends it: a definitive failure may be retried, an attempt  *)
(* whose outcome is in doubt may not, until the doubt is settled or the    *)
(* employee takes it upon themselves (mail-send.service.ts, rule 5).       *)
(* An attempt is ALIVE while its message may still be accepted by Gmail,   *)
(* has ARRIVED once it was, and is RELEASED when the employee let it go.   *)
(***************************************************************************)
EXTENDS Naturals, FiniteSets

CONSTANTS Attempts,   \* the identities attempts are given, each of them once
          NoAttempt

VARIABLES standing,   \* of the reply: NONE, OPEN (it may be sent), OUT, SENT
          current,    \* the attempt that is OUT, or was SENT
          alive, arrived, released

promise == <<standing, current, alive, arrived, released>>

TypeOK ==
    /\ standing \in {"NONE", "OPEN", "OUT", "SENT"}
    /\ current \in Attempts \cup {NoAttempt}
    /\ alive \subseteq Attempts /\ arrived \subseteq Attempts
    /\ released \subseteq Attempts

Blank ==
    /\ current = NoAttempt
    /\ alive = {} /\ arrived = {} /\ released = {}
Init == standing = "NONE" /\ Blank

\* A reply is begun, or thrown away: its accounts start clean.
Compose == standing \in {"NONE", "SENT"} /\ standing' = "OPEN" /\ Blank'
Discard == standing = "OPEN" /\ standing' = "NONE" /\ Blank'

\* An attempt goes out only when every earlier one is known to be absent, or
\* was released.  It may fail before anything could leave.
Begin(a) ==
    /\ standing = "OPEN" /\ standing' = "OUT"
    /\ alive \cup arrived \subseteq released
    /\ a \notin alive \cup arrived \cup released
    /\ current' = a
    /\ alive' \in {alive, alive \cup {a}}
    /\ UNCHANGED <<arrived, released>>

Arrive(a) ==
    /\ a \in alive
    /\ alive' = alive \ {a} /\ arrived' = arrived \cup {a}
    /\ UNCHANGED <<standing, current, released>>
Vanish(a) ==
    /\ a \in alive /\ alive' = alive \ {a}
    /\ UNCHANGED <<standing, current, arrived, released>>

\* The three ways out of doubt: it was found, it is absent and will not come,
\* the employee decides.
Confirm ==
    /\ standing = "OUT" /\ standing' = "SENT"
    /\ UNCHANGED <<current, alive, arrived, released>>
Disprove ==
    /\ standing = "OUT" /\ standing' = "OPEN"
    /\ current \notin alive \cup arrived
    /\ current' = NoAttempt
    /\ UNCHANGED <<alive, arrived, released>>
Release ==
    /\ standing = "OUT" /\ standing' = "OPEN"
    /\ released' = released \cup {current} /\ current' = NoAttempt
    /\ UNCHANGED <<alive, arrived>>

Next ==
    \/ Compose \/ Discard \/ Confirm \/ Disprove \/ Release
    \/ \E a \in Attempts : Begin(a) \/ Arrive(a) \/ Vanish(a)

Spec == Init /\ [][Next]_promise

-----------------------------------------------------------------------------
\* Each release the employee makes may cost one more copy, nothing else does.
AtMostOnce == Cardinality(arrived) <= 1 + Cardinality(released)
=============================================================================
