--------------------------- MODULE OutboxDelivery ---------------------------
(***************************************************************************)
(* The outbox of one organization and the passes that drain it             *)
(* (StateChangePublisher.run over the outbox, subscription and delivery    *)
(* repositories).  A pass runs one database statement or one handler per   *)
(* step, may overlap another pass, and may die between any two steps.      *)
(*                                                                         *)
(* Time is kept as ages, relative to the present: a pass compares the      *)
(* stored times with the moment IT started.  The model has no payloads,    *)
(* no counters and no error texts.                                         *)
(***************************************************************************)
EXTENDS Integers, FiniteSets

CONSTANTS
    Changes,        \* outbox rows, numbered in order of creation
    Subs,           \* subscriptions that match every change
    RequiredSubs,   \* those the parent must wait for
    Switched,       \* those switched on and off meanwhile
    Passes,
    MaxAttempts, RetryDelay, Lease, BatchSize,   \* PublisherOptions
    PassLife,       \* the platform ends a pass this old
    MaxFaults       \* bound: passes that die, and lost answers

ASSUME ChangesAssumption == Changes \subseteq Nat
ASSUME SubsAssumption == RequiredSubs \subseteq Subs /\ Switched \subseteq Subs
ASSUME OptionsAssumption ==
    /\ MaxAttempts \in Nat \ {0} /\ RetryDelay \in Nat
    /\ Lease \in Nat /\ PassLife \in Nat /\ MaxFaults \in Nat
    /\ BatchSize \in Nat \ {0}
\* The lease "must comfortably exceed the slowest handler" (five minutes against
\* a pass of one), and a delivery cannot spend its attempts while one pass lives.
ASSUME TimingAssumption ==
    /\ 2 * PassLife <= Lease
    /\ 2 * PassLife < (MaxAttempts - 1) * RetryDelay

None == 0
Deliveries == Changes \X Subs

VARIABLES
    outbox,    \* the status of each row
    active,    \* the ACTIVE subscriptions
    del,       \* the delivery of each change to each subscription
    pass,      \* what each pass is doing
    robbed,    \* deliveries a reclaim took from a newer claim than it had read
    unheard,   \* deliveries whose success was written but not acknowledged
    faults

vars == <<outbox, active, del, pass, robbed, unheard, faults>>

-----------------------------------------------------------------------------
Final == {"SUCCEEDED", "DEAD_LETTERED"}
Concluded == {"PUBLISHED", "DEAD_LETTERED"}

\* ready: how long ago availableAt was; held: how long ago startedAt was.
NoDelivery == [status |-> "NONE", attempts |-> 0, ready |-> 0, held |-> 0]
IdlePass == [pc |-> "idle", age |-> 0, stale |-> {}, todo |-> {}, fresh |-> {},
             change |-> None, subs |-> {}, left |-> {}, run |-> {}, attempt |-> 0,
             verdict |-> "OPEN"]

Init ==
    /\ outbox = [c \in Changes |-> "NONE"]
    /\ active = Subs
    /\ del = [d \in Deliveries |-> NoDelivery]
    /\ pass = [p \in Passes |-> IdlePass]
    /\ robbed = {} /\ unheard = {} /\ faults = 0

Of(c) == {d \in Deliveries : d[1] = c /\ del[d].status # "NONE"}
Working == {"PENDING", "PROCESSING"}

Goes(p, pc) == pass' = [pass EXCEPT ![p].pc = pc]
\* On to the next row of the batch, or to the end of the pass.
Proceeds(p, todo) == pass' = [pass EXCEPT ![p] =
    IF todo = {} THEN IdlePass
    ELSE [IdlePass EXCEPT !.pc = "next", !.age = pass[p].age,
                          !.todo = todo, !.fresh = pass[p].fresh \cap todo]]
Row(d, r) == del' = [del EXCEPT ![d] = r]

-----------------------------------------------------------------------------
(* Outside the publisher: a state change is recorded with its outbox row,   *)
(* subscriptions are switched on and off.                                   *)

Enqueue(c) ==
    /\ outbox[c] = "NONE" /\ \A e \in Changes : e < c => outbox[e] # "NONE"
    /\ outbox' = [outbox EXCEPT ![c] = "PENDING"]
    /\ UNCHANGED <<active, del, pass, robbed, unheard, faults>>

SetStatus(s) ==
    /\ active' = IF s \in active THEN active \ {s} ELSE active \cup {s}
    /\ UNCHANGED <<outbox, del, pass, robbed, unheard, faults>>

-----------------------------------------------------------------------------
(* run: reclaim, then list, then one row after the other.                   *)

\* A pass is only started for an organization with work in its outbox.
Start(p) ==
    /\ pass[p].pc = "idle" /\ \E c \in Changes : outbox[c] \in Working
    /\ Goes(p, "recover")
    /\ UNCHANGED <<outbox, active, del, robbed, unheard, faults>>

AbandonedNow(p, d) ==    \* mutant: the lease is forgotten
    del[d].status = "PROCESSING"
\* Held past the lease, as the pass that started so long ago sees it.
Abandoned(p, d) ==
    del[d].status = "PROCESSING" /\ del[d].held - pass[p].age > Lease
FindStale(p) ==
    /\ pass[p].pc = "recover"
    /\ pass' = [pass EXCEPT ![p].pc = "reclaim", ![p].stale =
           {<<d, del[d].attempts>> : d \in {e \in Deliveries : Abandoned(p, e)}}]
    /\ UNCHANGED <<outbox, active, del, robbed, unheard, faults>>

ReclaimedEver(p, d, attempts) ==    \* mutant: spent attempts are given again
    [del[d] EXCEPT !.status = "PENDING", !.ready = pass[p].age, !.held = 0]
\* The write asks for PROCESSING only; whether the attempts are spent is what
\* was read before.
Reclaimed(p, d, attempts) ==
    IF attempts >= MaxAttempts
    THEN [del[d] EXCEPT !.status = "DEAD_LETTERED", !.ready = 0, !.held = 0]
    ELSE [del[d] EXCEPT !.status = "PENDING", !.ready = pass[p].age, !.held = 0]
ReclaimStale(p) == \E x \in pass[p].stale :
    LET d == x[1] IN
    /\ pass[p].pc = "reclaim"
    /\ IF del[d].status = "PROCESSING"
       THEN /\ Row(d, Reclaimed(p, d, x[2]))
            /\ robbed' = IF del[d].attempts = x[2] THEN robbed ELSE robbed \cup {d}
       ELSE UNCHANGED <<del, robbed>>
    /\ pass' = [pass EXCEPT ![p].stale = @ \ {x}]
    /\ UNCHANGED <<outbox, active, unheard, faults>>

\* Due PENDING rows and all PROCESSING rows, the oldest first.
ListActive(p) ==
    LET due   == {c \in Changes : outbox[c] \in Working}
        batch == {c \in due : Cardinality({e \in due : e < c}) < BatchSize} IN
    /\ pass[p].pc = "reclaim" /\ pass[p].stale = {}
    /\ pass' = [pass EXCEPT ![p] =
           IF batch = {} THEN IdlePass
           ELSE [@ EXCEPT !.pc = "next", !.todo = batch,
                          !.fresh = {c \in batch : outbox[c] = "PENDING"}]]
    /\ UNCHANGED <<outbox, active, del, robbed, unheard, faults>>

\* publishOne: a row that was PENDING when it was listed must be won, the others
\* are everybody's.
MarkProcessing(p) == \E c \in pass[p].todo :
    /\ pass[p].pc = "next" /\ \A e \in pass[p].todo : c <= e
    /\ IF c \in pass[p].fresh /\ outbox[c] # "PENDING"
       THEN Proceeds(p, pass[p].todo \ {c}) /\ UNCHANGED outbox
       ELSE /\ pass' = [pass EXCEPT ![p].pc = "match", ![p].change = c]
            /\ outbox' = IF c \in pass[p].fresh
                         THEN [outbox EXCEPT ![c] = "PROCESSING"] ELSE outbox
    /\ UNCHANGED <<active, del, robbed, unheard, faults>>

FindMatching(p) ==
    /\ pass[p].pc = "match"
    /\ pass' = [pass EXCEPT ![p].pc = "ensure", ![p].subs = active,
           ![p].left = {<<pass[p].change, s>> : s \in active}]
    /\ UNCHANGED <<outbox, active, del, robbed, unheard, faults>>

\* Create or get: the pair is unique.
Ensure(p) == \E d \in pass[p].left :
    /\ pass[p].pc = "ensure"
    /\ IF del[d].status = "NONE"
       THEN Row(d, [NoDelivery EXCEPT !.status = "PENDING", !.ready = pass[p].age])
       ELSE UNCHANGED del
    /\ pass' = [pass EXCEPT ![p].left = @ \ {d}]
    /\ UNCHANGED <<outbox, active, robbed, unheard, faults>>

ListForOutbox(p) ==
    /\ pass[p].pc = "ensure" /\ pass[p].left = {}
    /\ pass' = [pass EXCEPT ![p].pc = "claim", ![p].left = Of(pass[p].change)]
    /\ UNCHANGED <<outbox, active, del, robbed, unheard, faults>>

-----------------------------------------------------------------------------
(* Dispatch of one delivery.                                                *)

ClaimableTwice(p, d) ==    \* mutant: what another pass runs is claimed as well
    del[d].status \in {"PENDING", "FAILED", "PROCESSING"}
ClaimableOnce(p, d) ==    \* mutant: a failed delivery is not claimed again
    del[d].status = "PENDING" /\ del[d].ready >= pass[p].age
ClaimableEver(p, d) ==    \* mutant: what was delivered is claimed again
    del[d].status \in {"PENDING", "FAILED", "SUCCEEDED"}
\* Due before the pass started, and nobody else's.
Claimable(p, d) ==
    del[d].status \in {"PENDING", "FAILED"} /\ del[d].ready >= pass[p].age
Claim(p) == \E d \in pass[p].left :
    /\ pass[p].pc = "claim"
    /\ IF Claimable(p, d)
       THEN /\ Row(d, [del[d] EXCEPT !.status = "PROCESSING", !.attempts = @ + 1,
                                     !.ready = 0, !.held = pass[p].age])
            /\ pass' = [pass EXCEPT ![p].left = @ \ {d}, ![p].pc = "handle",
                            ![p].run = {d}, ![p].attempt = del[d].attempts + 1]
       ELSE pass' = [pass EXCEPT ![p].left = @ \ {d}] /\ UNCHANGED del
    /\ UNCHANGED <<outbox, active, robbed, unheard, faults>>

Returns(p) ==
    pass' = [pass EXCEPT ![p].pc = "claim", ![p].run = {}, ![p].attempt = 0]

\* The handler's outcome goes to the row by its id, whatever the row is now.
Succeeded(d) == [del[d] EXCEPT !.status = "SUCCEEDED", !.ready = 0, !.held = 0]
MarkSucceeded(p) == \E d \in pass[p].run :
    /\ pass[p].pc = "handle" /\ d[2] \in pass[p].subs
    /\ Row(d, Succeeded(d)) /\ Returns(p)
    /\ UNCHANGED <<outbox, active, robbed, unheard, faults>>

\* The write of a success commits and its answer is lost: the exception is
\* caught with the handler's own.
SucceedUnheard(p) == \E d \in pass[p].run :
    /\ pass[p].pc = "handle" /\ d[2] \in pass[p].subs
    /\ faults < MaxFaults /\ faults' = faults + 1
    /\ Row(d, Succeeded(d)) /\ Goes(p, "fail")
    /\ unheard' = unheard \cup {d}
    /\ UNCHANGED <<outbox, active, robbed>>

FailedTwiceAsLate(p, d) ==    \* mutant: the back-off is counted twice
    IF del[d].attempts >= MaxAttempts
    THEN [del[d] EXCEPT !.status = "DEAD_LETTERED", !.ready = 0, !.held = 0]
    ELSE [del[d] EXCEPT !.status = "FAILED", !.held = 0,
                        !.ready = pass[p].age - 2 * RetryDelay]
\* The handler throws, or there is none: the subscription was not active when
\* this pass matched, or its key is unknown.
Failed(p, d) ==
    IF del[d].attempts >= MaxAttempts
    THEN [del[d] EXCEPT !.status = "DEAD_LETTERED", !.ready = 0, !.held = 0]
    ELSE [del[d] EXCEPT !.status = "FAILED", !.held = 0,
                        !.ready = pass[p].age - RetryDelay]
MarkFailed(p) == \E d \in pass[p].run :
    /\ pass[p].pc \in {"handle", "fail"}
    /\ Row(d, Failed(p, d)) /\ Returns(p)
    /\ UNCHANGED <<outbox, active, robbed, unheard, faults>>

-----------------------------------------------------------------------------
(* reconcileParent: the deliveries are read, then the parent is written by  *)
(* its id.                                                                  *)

RequiredDeadNever(c) == FALSE    \* mutant: a required subscriber is optional
RequiredDead(c) ==
    \E d \in Of(c) : d[2] \in RequiredSubs /\ del[d].status = "DEAD_LETTERED"
AllStarted(c) ==    \* mutant: a delivery that failed once is left behind
    \A d \in Of(c) : del[d].status \in Final \cup {"FAILED"}
AllTerminal(c) == \A d \in Of(c) : del[d].status \in Final
ReadDeliveries(p) ==
    LET c == pass[p].change IN
    /\ pass[p].pc = "claim" /\ pass[p].left = {}
    /\ pass' = [pass EXCEPT ![p].pc = "conclude", ![p].verdict =
           CASE RequiredDead(c) -> "DEAD_LETTERED"
             [] ~RequiredDead(c) /\ AllTerminal(c) -> "PUBLISHED"
             [] OTHER -> "OPEN"]
    /\ UNCHANGED <<outbox, active, del, robbed, unheard, faults>>
ReconcileParent(p) ==
    /\ pass[p].pc = "conclude"
    /\ outbox' = IF pass[p].verdict = "OPEN" THEN outbox
                 ELSE [outbox EXCEPT ![pass[p].change] = pass[p].verdict]
    /\ Proceeds(p, pass[p].todo \ {pass[p].change})
    /\ UNCHANGED <<active, del, robbed, unheard, faults>>

-----------------------------------------------------------------------------
\* The process dies, is killed, or a statement fails: the pass is over.
Die(p) ==
    /\ pass[p].pc # "idle" /\ faults < MaxFaults /\ faults' = faults + 1
    /\ pass' = [pass EXCEPT ![p] = IdlePass]
    /\ UNCHANGED <<outbox, active, del, robbed, unheard>>

\* Ages saturate where no comparison tells them apart.
Older(n, limit) == IF n < limit THEN n + 1 ELSE n
Tick ==
    /\ \A p \in Passes : pass[p].pc # "idle" => pass[p].age < PassLife
    /\ pass' = [p \in Passes |->
           IF pass[p].pc = "idle" THEN pass[p] ELSE [pass[p] EXCEPT !.age = @ + 1]]
    /\ del' = [d \in Deliveries |->
           CASE del[d].status \in {"PENDING", "FAILED"} ->
                    [del[d] EXCEPT !.ready = Older(@, PassLife)]
             [] del[d].status = "PROCESSING" ->
                    [del[d] EXCEPT !.held = Older(@, Lease + PassLife + 1)]
             [] OTHER -> del[d]]
    /\ UNCHANGED <<outbox, active, robbed, unheard, faults>>

Run(p) ==
    \/ FindStale(p)     \/ ReclaimStale(p)   \/ ListActive(p)
    \/ MarkProcessing(p) \/ FindMatching(p)  \/ Ensure(p)
    \/ ListForOutbox(p) \/ Claim(p)          \/ MarkSucceeded(p)
    \/ MarkFailed(p)    \/ ReadDeliveries(p) \/ ReconcileParent(p)

Next ==
    \/ \E c \in Changes : Enqueue(c)
    \/ \E s \in Switched : SetStatus(s)
    \/ \E p \in Passes : Start(p) \/ Run(p) \/ SucceedUnheard(p) \/ Die(p)
    \/ Tick

Spec == Init /\ [][Next]_vars

\* The drain is scheduled, a pass that does not die goes on, time passes.
FairSpec ==
    /\ Spec /\ WF_vars(Tick)
    /\ \A p \in Passes : WF_vars(Start(p) \/ Run(p))

-----------------------------------------------------------------------------
DeliveryRow ==
    [status : {"NONE", "PENDING", "PROCESSING", "FAILED", "SUCCEEDED", "DEAD_LETTERED"},
     attempts : Nat, ready : -RetryDelay .. PassLife, held : 0 .. Lease + PassLife + 1]
Places == {"idle", "recover", "reclaim", "next", "match", "ensure", "claim",
           "handle", "fail", "conclude"}
PassRecord ==
    [pc : Places, age : 0 .. PassLife, stale : SUBSET (Deliveries \X Nat),
     todo : SUBSET Changes, fresh : SUBSET Changes, change : Changes \cup {None},
     subs : SUBSET Subs, left : SUBSET Deliveries, run : SUBSET Deliveries,
     attempt : Nat, verdict : {"OPEN"} \cup Concluded]
TypeOK ==
    /\ outbox \in [Changes -> {"NONE"} \cup Working \cup Concluded]
    /\ active \subseteq Subs
    /\ del \in [Deliveries -> DeliveryRow]
    /\ pass \in [Passes -> PassRecord]
    /\ robbed \subseteq Deliveries /\ unheard \subseteq Deliveries
    /\ faults \in 0 .. MaxFaults

\* Two passes never run one delivery at once, unless a reclaim took it from a
\* claim newer than the one it had read (no-double-dispatch).
NoDoubleDispatch == \A p, q \in Passes :
    p # q => pass[p].run \cap pass[q].run \subseteq robbed

\* The pass that runs a delivery still holds it when it writes the outcome, so the
\* unconditional write overwrites nobody's: the lease outlives the pass.  Excepted are
\* deliveries that a reclaim took from a newer claim than it had read (robbed), and
\* those whose success was written and its acknowledgement lost (unheard).
HandlerHoldsTheDelivery == \A p \in Passes : \A d \in pass[p].run \ (robbed \cup unheard) :
    del[d].status = "PROCESSING" /\ del[d].attempts = pass[p].attempt

\* A delivery is tried MaxAttempts times at most, crashes counted, unless a reclaim
\* judged its attempts by an older claim than the one it took (robbed).
AttemptsAreBounded == \A d \in Deliveries \ robbed : del[d].attempts <= MaxAttempts

\* "A REQUIRED subscriber that dead-letters fails the parent, closed rather than
\* silent": what is PUBLISHED was refused by no required subscriber, but for deliveries
\* taken from a newer claim (robbed) or failed after their success was lost (unheard).
PublishedMeansDelivered == \A d \in Deliveries \ (robbed \cup unheard) :
    outbox[d[1]] = "PUBLISHED" /\ d[2] \in RequiredSubs =>
        del[d].status # "DEAD_LETTERED"

\* A success is final, whatever else fails, unless its claim was taken or its
\* acknowledgement lost ("never re-dispatched once it has succeeded").
SuccessStands == [][\A d \in Deliveries \ (robbed' \cup unheard') :
    del[d].status = "SUCCEEDED" => del'[d].status = "SUCCEEDED"]_vars

\* A row that was published or given up stays so, although every pass writes it
\* unconditionally, unless one of its deliveries was robbed or unheard.
ConclusionStands == [][\A c \in Changes :
    outbox[c] \in Concluded => \/ outbox'[c] = outbox[c]
                              \/ \E s \in Subs : <<c, s>> \in robbed \cup unheard]_vars

\* Every change is published or visibly given up, whoever dies.
EveryChangeConcludes == \A c \in Changes :
    outbox[c] = "PENDING" ~> outbox[c] \in Concluded

\* "A claimed delivery always reaches a terminal state. It succeeds, retries with
\* back-off, or dead-letters" (at-least-once).
ClaimedDeliveryEnds == \A d \in Deliveries :
    del[d].status = "PROCESSING" ~> del[d].status \in Final
=============================================================================
