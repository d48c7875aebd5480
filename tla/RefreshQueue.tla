---------------------------- MODULE RefreshQueue ----------------------------
(***************************************************************************)
(* The refresh requests of one intelligence target, the reading they keep  *)
(* fresh, and the passes that serve them (IntelligenceRefreshQueue-        *)
(* Repository, runIntelligencePass, runIntelligenceProducerCycle).  One    *)
(* step is one database statement or transaction, or one call of the       *)
(* producer.                                                               *)
(*                                                                         *)
(* Evidence is numbered in the order it came to be; a fingerprint is the   *)
(* number of the evidence it was taken of.  Request counts, reasons and    *)
(* instants are left out: a request is due whenever a pass looks.          *)
(***************************************************************************)
EXTENDS Integers

CONSTANTS
    Rows,          \* names of requests, reused once nobody remembers them
    Passes, Owners, Leases,   \* a leaseOwner for each pass, in one of several ways
    MaxAttempts, MaxEvidence,
    MaxFaults      \* bound: passes that die or are slow, statements that fail

None == "none"
ASSUME NoneAssumption == None \notin Rows \cup Passes \cup Owners
ASSUME LeasesAssumption == Leases \subseteq [Passes -> Owners]
ASSUME BoundsAssumption ==
    MaxAttempts \in Nat \ {0} /\ MaxEvidence \in Nat \ {0} /\ MaxFaults \in Nat

VARIABLES
    req,        \* intelligence_refresh_queue, the rows of the target
    digest,     \* the stored reading
    evidence,   \* what a producer would gather now
    owner,      \* leaseOwner of each pass
    pass,       \* what each pass is doing
    purging,    \* the HELD request the retention sweep has listed
    asked,      \* the evidence the latest accepted request was made about
    overtaken,  \* a pass has undone the work of one that knew more, or might have
    faults

vars == <<req, digest, evidence, owner, pass, purging, asked, overtaken, faults>>

-----------------------------------------------------------------------------
\* by: the pass of the latest claim; since: the evidence when it was held.
\* late: the lease of the request ran out while the pass served it; robbed: the request
\* was taken from the pass, or from its fold, although the lease had not run out.
NoRow == [state |-> "FREE", owner |-> None, by |-> None, attempts |-> 0,
          expired |-> FALSE, since |-> 0]
IdlePass == [pc |-> "idle", asks |-> 0, tries |-> 0, found |-> None, whose |-> None,
             listed |-> {}, row |-> None, last |-> FALSE, late |-> FALSE,
             robbed |-> FALSE, saw |-> 0, why |-> None, done |-> FALSE, older |-> {}]

Init ==
    /\ req = [r \in Rows |-> NoRow]
    /\ digest = [status |-> "NONE", at |-> 0, seen |-> 0]
    /\ evidence = [at |-> 1, gone |-> FALSE]
    /\ owner \in Leases
    /\ pass = [p \in Passes |-> IdlePass]
    /\ purging = None /\ asked = 0 /\ overtaken = FALSE /\ faults = 0

In(state) == {r \in Rows : req[r].state = state}
Later(m, n) == IF m < n THEN n ELSE m
Moves(p, r) == pass' = [pass EXCEPT ![p] = r]
Goes(p, pc) == Moves(p, [pass[p] EXCEPT !.pc = pc])
Ends(p) == Moves(p, IdlePass)
\* p moves and puts request r back.  It robs a pass about to fold r, and the one that
\* serves r when p takes its claim for an earlier one (mistaken): the name of a lease
\* is not one pass's alone.
Folding(q, r) == pass[q].pc = "fold" /\ pass[q].found = r
ServedBy(q, r) == req[r].by = q /\ pass[q].row = r
Takes(p, r, mistaken, to) == pass' = [q \in Passes |->
    IF q = p THEN to
    ELSE [pass[q] EXCEPT !.robbed = @ \/ (mistaken /\ ServedBy(q, r)) \/ Folding(q, r)]]
Remembered == {pass[p].row : p \in Passes} \cup {pass[p].found : p \in Passes}
    \cup (UNION {pass[p].older : p \in Passes})
    \cup (UNION {{x[1] : x \in pass[p].listed} : p \in Passes}) \cup {purging}

Change == \E gone \in BOOLEAN :
    /\ evidence.at < MaxEvidence
    /\ evidence' = [at |-> evidence.at + 1, gone |-> gone]
    /\ UNCHANGED <<req, digest, owner, pass, purging, asked, overtaken, faults>>

-----------------------------------------------------------------------------
(* A pass: the target is discovered and asked for, or it is not.            *)

\* enqueue: the pending request is read, if there is one ...
Finds(p, rec) ==
    \/ In("PENDING") = {} /\ Moves(p, [rec EXCEPT !.pc = "put"])
    \/ \E r \in In("PENDING") : Moves(p, [rec EXCEPT !.pc = "put", !.found = r])
Discover(p) ==
    /\ pass[p].pc = "idle"
    /\ Finds(p, [IdlePass EXCEPT !.asks = evidence.at]) \/ Goes(p, "recover")
    /\ UNCHANGED <<req, digest, evidence, owner, purging, asked, overtaken, faults>>
FindAgain(p) ==
    /\ pass[p].pc = "find" /\ Finds(p, pass[p])
    /\ UNCHANGED <<req, digest, evidence, owner, purging, asked, overtaken, faults>>

\* ... takes the new one in, as long as nobody has claimed it;
Coalescable(r) == req[r].state = "PENDING"
Accepts(p) ==
    /\ asked' = Later(asked, pass[p].asks)
    /\ Moves(p, [IdlePass EXCEPT !.pc = "recover"])
Coalesce(p) ==
    /\ pass[p].pc = "put" /\ pass[p].found # None /\ Coalescable(pass[p].found)
    /\ Accepts(p)
    /\ UNCHANGED <<req, digest, evidence, owner, purging, overtaken, faults>>
\* without one a request is created, at most one being PENDING;
Create(p) == \E r \in In("FREE") \ Remembered :
    /\ pass[p].pc = "put" /\ pass[p].found = None /\ In("PENDING") = {}
    /\ req' = [req EXCEPT ![r] = [NoRow EXCEPT !.state = "PENDING"]]
    /\ Accepts(p)
    /\ UNCHANGED <<digest, evidence, owner, purging, overtaken, faults>>
\* a lost race is tried again, three times in all;
LoseRace(p) ==
    /\ pass[p].pc = "put"
    /\ IF pass[p].found = None THEN In("PENDING") # {} ELSE ~Coalescable(pass[p].found)
    /\ Moves(p, [pass[p] EXCEPT !.found = None, !.tries = @ + 1,
                                !.pc = IF pass[p].tries < 2 THEN "find" ELSE "standing"])
    /\ UNCHANGED <<req, digest, evidence, owner, purging, asked, overtaken, faults>>
\* then whatever request stands is the answer, or a refusal.
Standing(p) ==
    /\ pass[p].pc = "standing"
    /\ IF In("PENDING") \cup In("CLAIMED") # {} THEN Accepts(p)
       ELSE Moves(p, [IdlePass EXCEPT !.pc = "recover"]) /\ UNCHANGED asked
    /\ UNCHANGED <<req, digest, evidence, owner, purging, overtaken, faults>>

-----------------------------------------------------------------------------
(* claim: expired leases are recovered first.                               *)

ExpiredOrNot == In("CLAIMED")    \* mutant: leases are not looked at
Expired == {r \in In("CLAIMED") : req[r].expired}
Recover(p) ==
    /\ pass[p].pc = "recover"
    /\ Moves(p, [pass[p] EXCEPT !.pc = "return",
                                !.listed = {<<r, req[r].owner, req[r].expired>> : r \in Expired}])
    /\ UNCHANGED <<req, digest, evidence, owner, purging, asked, overtaken, faults>>

Holds(r, name) == req[r].state = "CLAIMED" /\ req[r].owner = name
ReleasedWithLease(r) == [req[r] EXCEPT !.state = "PENDING"]    \* mutant: the lease stays
Released(r) == [req[r] EXCEPT !.state = "PENDING", !.owner = None, !.by = None,
                              !.expired = FALSE]
\* The claim that was listed had run out; one of the same name was made since.
MadeAgain(x) == x[3] /\ ~req[x[1]].expired /\ req[x[1]].owner = x[2]
\* returnToPending for a recovered request.  A newer pending one takes it in, in a
\* transaction of its own.  Either knows the claim by the name of its lease.
Return(p) == \E x \in pass[p].listed :
    /\ pass[p].pc = "return"
    /\ IF Holds(x[1], x[2]) /\ In("PENDING") # {}
       THEN /\ Moves(p, [pass[p] EXCEPT !.pc = "fold", !.listed = @ \ {x},
                                        !.found = x[1], !.whose = x[2]])
            /\ UNCHANGED req
       ELSE IF Holds(x[1], x[2])
       THEN /\ Takes(p, x[1], MadeAgain(x), [pass[p] EXCEPT !.listed = @ \ {x}])
            /\ req' = [req EXCEPT ![x[1]] = Released(x[1])]
       ELSE Moves(p, [pass[p] EXCEPT !.listed = @ \ {x}]) /\ UNCHANGED req
    /\ UNCHANGED <<digest, evidence, owner, purging, asked, overtaken, faults>>
Fold(p) ==
    /\ pass[p].pc = "fold"
    /\ req' = IF Holds(pass[p].found, pass[p].whose)
              THEN [req EXCEPT ![pass[p].found] = NoRow] ELSE req
    /\ overtaken' = (overtaken \/ (Holds(pass[p].found, pass[p].whose) /\ pass[p].robbed))
    /\ Moves(p, [pass[p] EXCEPT !.pc = "return", !.found = None, !.whose = None,
                                !.robbed = FALSE])
    /\ UNCHANGED <<digest, evidence, owner, purging, asked, faults>>

Candidates(p) ==
    /\ pass[p].pc = "return" /\ pass[p].listed = {}
    /\ \/ In("PENDING") = {} /\ Ends(p)
       \/ \E r \in In("PENDING") : Moves(p, [pass[p] EXCEPT !.pc = "claim", !.found = r])
    /\ UNCHANGED <<req, digest, evidence, owner, purging, asked, overtaken, faults>>

Claimable(r) == req[r].state = "PENDING"
Claim(p) ==
    LET r == pass[p].found
        n == IF req[r].attempts < MaxAttempts THEN req[r].attempts + 1 ELSE MaxAttempts IN
    /\ pass[p].pc = "claim"
    /\ IF Claimable(r)
       THEN /\ req' = [req EXCEPT ![r] = [@ EXCEPT !.state = "CLAIMED", !.by = p,
                           !.owner = owner[p], !.attempts = n, !.expired = FALSE]]
            /\ Moves(p, [IdlePass EXCEPT !.pc = "begin", !.row = r,
                                         !.last = (n = MaxAttempts)])
       ELSE Ends(p) /\ UNCHANGED req
    /\ UNCHANGED <<digest, evidence, owner, purging, asked, overtaken, faults>>

-----------------------------------------------------------------------------
(* The producer loop, one claim.                                            *)

\* refreshStartedAt: what is HELD by now was last touched before.
Begin(p) ==
    /\ pass[p].pc = "begin"
    /\ Moves(p, [pass[p] EXCEPT !.pc = "gather", !.older = In("HELD")])
    /\ UNCHANGED <<req, digest, evidence, owner, purging, asked, overtaken, faults>>

\* What a refresh without a reading does first: the reading is to be STALE, because
\* there is no evidence, because the target is not fit to be read (no producer, not
\* permitted, refused), or because the attempts are spent.  Otherwise it is retried.
Settles(p, pc) ==
    Moves(p, [IdlePass EXCEPT !.pc = pc, !.row = pass[p].row, !.late = pass[p].late,
                              !.robbed = pass[p].robbed])
Verdict(p, why, saw) ==
    Moves(p, [pass[p] EXCEPT !.pc = "stale", !.why = why, !.saw = saw, !.older = {},
                             !.done = FALSE])
Retries(p, saw) ==
    IF pass[p].last THEN Verdict(p, "spent", saw) ELSE Settles(p, "retry")

Gather(p) ==
    /\ pass[p].pc = "gather"
    /\ \/ Verdict(p, "unfit", evidence.at)
       \/ Retries(p, evidence.at)
       \/ evidence.gone /\ Verdict(p, "nothing", evidence.at)
       \/ /\ ~evidence.gone
          /\ Moves(p, [pass[p] EXCEPT !.pc = "compare", !.saw = evidence.at])
    /\ UNCHANGED <<req, digest, evidence, owner, purging, asked, overtaken, faults>>

\* The reading is judged by what p gathered.
Judged(p, status, at) ==
    /\ digest' = [status |-> status, at |-> at, seen |-> Later(digest.seen, pass[p].saw)]
    /\ overtaken' = (overtaken \/ (status = "CURRENT" /\ pass[p].saw < digest.seen))

StaleNever(p) == UNCHANGED <<digest, overtaken>>    \* mutant: the reading is left
MarkStale(p) ==
    Judged(p, IF digest.status = "CURRENT" THEN "STALE" ELSE digest.status, digest.at)
StaleTarget(p) ==
    /\ pass[p].pc = "stale" /\ MarkStale(p)
    /\ IF pass[p].why = "nothing"
       THEN Moves(p, [pass[p] EXCEPT !.pc = "complete", !.why = None])
       ELSE Settles(p, "hold")
    /\ UNCHANGED <<req, evidence, owner, purging, asked, faults>>
\* The write fails: a request with no evidence is retried, the others are held.
StaleFails(p) ==
    /\ pass[p].pc = "stale" /\ faults < MaxFaults /\ faults' = faults + 1
    /\ IF pass[p].why = "nothing" THEN Retries(p, pass[p].saw) ELSE Settles(p, "hold")
    /\ UNCHANGED <<req, digest, evidence, owner, purging, asked, overtaken>>

\* The cost gate and the model-read interval: the stored reading stands.  The stored
\* fingerprint may differ although the evidence does not (another way of reading), and
\* then it is read.
Stands(p) == Moves(p, [pass[p] EXCEPT !.pc = "complete", !.done = TRUE])
Compare(p) ==
    /\ pass[p].pc = "compare"
    /\ \/ digest.status = "CURRENT" /\ digest.at = pass[p].saw
          /\ Stands(p) /\ UNCHANGED digest
       \/ digest.status = "STALE" /\ digest.at = pass[p].saw
          /\ Goes(p, "reaffirm") /\ UNCHANGED digest
       \/ digest.status = "CURRENT" /\ digest.at # pass[p].saw
          /\ digest' = [digest EXCEPT !.seen = Later(@, pass[p].saw)]
          /\ Moves(p, [pass[p] EXCEPT !.pc = "complete", !.older = {}])
       \/ Goes(p, "write") /\ UNCHANGED digest
    /\ UNCHANGED <<req, evidence, owner, purging, asked, overtaken, faults>>
Reaffirm(p) ==
    /\ pass[p].pc = "reaffirm" /\ Stands(p)
    /\ IF digest.status = "STALE" /\ digest.at = pass[p].saw
       THEN Judged(p, "CURRENT", digest.at) ELSE UNCHANGED <<digest, overtaken>>
    /\ UNCHANGED <<req, evidence, owner, purging, asked, faults>>

\* The producer reads and the reading is stored, whatever is stored there; or it
\* is not read, or the reading is refused.
Write(p) ==
    /\ pass[p].pc = "write"
    /\ \/ Judged(p, "CURRENT", pass[p].saw) /\ Stands(p)
       \/ /\ Verdict(p, "unfit", pass[p].saw) \/ Retries(p, pass[p].saw)
          /\ UNCHANGED <<digest, overtaken>>
    /\ UNCHANGED <<req, evidence, owner, purging, asked, faults>>

\* An exception on the way: the request is retried.
Throw(p) ==
    /\ pass[p].pc \in {"compare", "reaffirm", "write", "complete"}
    /\ faults < MaxFaults /\ faults' = faults + 1
    /\ Retries(p, pass[p].saw)
    /\ UNCHANGED <<req, digest, evidence, owner, purging, asked, overtaken>>

-----------------------------------------------------------------------------
(* complete, retry, hold: only for the lease holder, by name.               *)

Mine(p) == Holds(pass[p].row, owner[p])
Lost(p) == pass[p].late \/ pass[p].robbed
\* What p has lost is claimed under the name of its lease.
Mistaken(p) == Lost(p) /\ req[pass[p].row].owner = owner[p]
Robs(p) == Mine(p) /\ req[pass[p].row].by # p    \* the claim is of another pass
Complete(p) ==
    /\ pass[p].pc = "complete"
    /\ req' = IF Mine(p) THEN [req EXCEPT ![pass[p].row] = NoRow] ELSE req
    /\ overtaken' = (overtaken \/ Robs(p))
    /\ IF pass[p].done THEN Goes(p, "resolve") ELSE Ends(p)
    /\ UNCHANGED <<digest, evidence, owner, purging, asked, faults>>
Retry(p) ==
    /\ pass[p].pc = "retry"
    /\ IF Mine(p) /\ In("PENDING") # {} THEN Goes(p, "refold") /\ UNCHANGED req
       ELSE IF Mine(p)
       THEN /\ Takes(p, pass[p].row, Mistaken(p), IdlePass)
            /\ req' = [req EXCEPT ![pass[p].row] = Released(pass[p].row)]
       ELSE Ends(p) /\ UNCHANGED req
    /\ UNCHANGED <<digest, evidence, owner, purging, asked, overtaken, faults>>
Refold(p) ==
    /\ pass[p].pc = "refold" /\ Ends(p)
    /\ req' = IF Mine(p) THEN [req EXCEPT ![pass[p].row] = NoRow] ELSE req
    /\ overtaken' = (overtaken \/ Robs(p))
    /\ UNCHANGED <<digest, evidence, owner, purging, asked, faults>>
Hold(p) ==
    /\ pass[p].pc = "hold" /\ Ends(p)
    /\ req' = IF Mine(p)
              THEN [req EXCEPT ![pass[p].row] = [NoRow EXCEPT !.state = "HELD",
                                                    !.since = evidence.at]]
              ELSE req
    /\ UNCHANGED <<digest, evidence, owner, purging, asked, overtaken, faults>>

\* After a success: HELD requests the refresh supersedes, if the reading is still its.
SupersededAny(p) == In("HELD")    \* mutant: those held meanwhile as well
Superseded(p) == In("HELD") \cap pass[p].older
ResolveSuperseded(p) ==
    /\ pass[p].pc = "resolve" /\ Ends(p)
    /\ req' = IF digest.status = "CURRENT" /\ digest.at = pass[p].saw
              THEN [r \in Rows |-> IF r \in Superseded(p) THEN NoRow ELSE req[r]] ELSE req
    /\ UNCHANGED <<digest, evidence, owner, purging, asked, overtaken, faults>>

-----------------------------------------------------------------------------
(* The retention sweep, leases running out, and passes that die.            *)

\* Requests are HELD for days: what was gathered before is written by now.
PurgeList == \E r \in In("HELD") :
    /\ \A p \in Passes : pass[p].saw = 0 \/ r \in pass[p].older
    /\ purging = None /\ purging' = r
    /\ UNCHANGED <<req, digest, evidence, owner, pass, asked, overtaken, faults>>
PurgeHeld ==
    /\ purging # None /\ purging' = None
    /\ digest' = [digest EXCEPT !.status = IF @ = "CURRENT" THEN "STALE" ELSE @]
    /\ req' = IF req[purging].state = "HELD" THEN [req EXCEPT ![purging] = NoRow] ELSE req
    /\ UNCHANGED <<evidence, owner, pass, asked, overtaken, faults>>

Attended(r) == \E p \in Passes : ServedBy(p, r)
Abandon(r) ==
    /\ req[r].state = "CLAIMED" /\ ~req[r].expired /\ ~Attended(r)
    /\ req' = [req EXCEPT ![r].expired = TRUE]
    /\ UNCHANGED <<digest, evidence, owner, pass, purging, asked, overtaken, faults>>
\* A pass serves all its claims under one lease: it may be slower.
Outlive(r) ==
    /\ req[r].state = "CLAIMED" /\ ~req[r].expired /\ Attended(r)
    /\ faults < MaxFaults /\ faults' = faults + 1
    /\ req' = [req EXCEPT ![r].expired = TRUE]
    /\ pass' = [pass EXCEPT ![req[r].by].late = TRUE]
    /\ UNCHANGED <<digest, evidence, owner, purging, asked, overtaken>>
Die(p) ==
    /\ pass[p].pc # "idle" /\ faults < MaxFaults /\ faults' = faults + 1
    /\ Ends(p)
    /\ UNCHANGED <<req, digest, evidence, owner, purging, asked, overtaken>>

Enqueue(p) == FindAgain(p) \/ Coalesce(p) \/ Create(p) \/ LoseRace(p) \/ Standing(p)
Take(p) == Recover(p) \/ Return(p) \/ Fold(p) \/ Candidates(p) \/ Claim(p)
Refresh(p) ==
    \/ Begin(p)    \/ Gather(p)  \/ StaleTarget(p) \/ Compare(p)
    \/ Reaffirm(p) \/ Write(p)   \/ Complete(p)    \/ Retry(p)
    \/ Refold(p)   \/ Hold(p)    \/ ResolveSuperseded(p)
Work(p) == Discover(p) \/ Enqueue(p) \/ Take(p) \/ Refresh(p)

Next ==
    \/ \E p \in Passes : Work(p) \/ StaleFails(p) \/ Throw(p) \/ Die(p)
    \/ \E r \in Rows : Abandon(r) \/ Outlive(r)
    \/ Change \/ PurgeList \/ PurgeHeld

Spec == Init /\ [][Next]_vars

-----------------------------------------------------------------------------
States == {"FREE", "PENDING", "CLAIMED", "HELD"}
Times == 0 .. MaxEvidence
Request ==
    [state : States, owner : Owners \cup {None}, by : Passes \cup {None},
     attempts : 0 .. MaxAttempts, expired : BOOLEAN, since : Times]
Places == {"idle", "find", "put", "standing", "recover", "return", "fold", "claim",
           "begin", "gather", "stale", "compare", "reaffirm", "write", "complete",
           "retry", "refold", "hold", "resolve"}
PassRecord ==
    [pc : Places, asks : Times, tries : 0 .. 3, found : Rows \cup {None},
     whose : Owners \cup {None}, listed : SUBSET (Rows \X Owners \X BOOLEAN),
     row : Rows \cup {None}, last : BOOLEAN, late : BOOLEAN, robbed : BOOLEAN, saw : Times,
     why : {None, "nothing", "unfit", "spent"}, done : BOOLEAN, older : SUBSET Rows]
TypeOK ==
    /\ req \in [Rows -> Request]
    /\ \A r \in Rows : req[r].state = "CLAIMED" <=> req[r].owner # None
    /\ digest \in [status : {"NONE", "CURRENT", "STALE"}, at : Times,
                   seen : Times]
    /\ evidence \in [at : Times \ {0}, gone : BOOLEAN]
    /\ owner \in Leases /\ pass \in [Passes -> PassRecord]
    /\ purging \in Rows \cup {None} /\ asked \in Times
    /\ overtaken \in BOOLEAN /\ faults \in 0 .. MaxFaults

\* "A request is owned by exactly one claimer": two passes serve one request only when
\* the lease of it ran out while one of them served it, or one of them was robbed: its
\* claim, still in time, was put back by a pass that had listed an earlier claim of the
\* same lease name as run out, or that had itself lost an earlier claim of that name.
OneClaimer == \A p, q \in Passes :
    p # q /\ pass[p].row = pass[q].row /\ pass[p].row # None =>
        Lost(p) \/ Lost(q)

\* The queue is the freshness barrier: a CURRENT reading without a request was judged
\* by a refresh that knew all that any accepted request was made about, unless the
\* work of such a refresh was undone, or a request ended by a pass that had lost it
\* to another of the same lease name.
FreshOrBarred ==
    digest.status = "CURRENT" /\ In("FREE") = Rows /\ ~overtaken => digest.seen >= asked

\* "The barrier is never cleared without a current reading from a successful refresh"
\* of what there was when it was raised; or the reading is not CURRENT.
HeldIsAnswered == [][\A r \in Rows :
    req[r].state = "HELD" /\ req'[r].state # "HELD" =>
        digest'.status # "CURRENT" \/ digest'.at >= req[r].since]_vars
=============================================================================
