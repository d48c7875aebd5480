------------------------- MODULE RefreshQueue_proofs -------------------------
(***************************************************************************)
(* Theorems of RefreshQueue, for any requests, passes and lease names, and *)
(* any bounds.                                                             *)
(*                                                                         *)
(* QInv is the inductive invariant.  A pass that was neither late nor      *)
(* robbed serves a request that still names it, or that is over and cannot *)
(* be asked for again while the pass remembers it (ServedIsClaimed): what  *)
(* is listed to be recovered had run out (PlaceOK), and a request whose    *)
(* lease has run out is served by a late pass (RanOutIsLate), so nobody    *)
(* else loses one to a recovery.  This gives OneClaimer.  What a pass may  *)
(* resolve was held by evidence it knows (OlderIsKnown); this gives        *)
(* HeldIsAnswered.                                                         *)
(*                                                                         *)
(* FInv, on top of it, follows what was asked to the reading: until one    *)
(* knows as much, a request bars, or nobody can make the reading CURRENT   *)
(* from less (Barred); this gives FreshOrBarred.                           *)
(***************************************************************************)
EXTENDS RefreshQueue, TLAPS

\* Where a pass may be; and what it has listed had run out.
Unserving == {"idle", "find", "put", "standing", "recover", "return", "fold", "claim"}
PlaceOK(r) ==
    /\ r.pc \in {"find", "put"} => r.tries <= 2
    /\ r.pc = "claim" => r.found \in Rows
    /\ r.row = None <=> r.pc \in Unserving
    /\ \A x \in r.listed : x[3]
PlacesOK == \A p \in Passes : PlaceOK(pass[p])

\* A pass in time that is not robbed serves a request that names it, or that is over.
Serves(p, r) == pass[p].row = r /\ ~Lost(p)
ServedIsClaimed == \A p \in Passes : \A r \in Rows : Serves(p, r) =>
    req[r].state \in {"FREE", "HELD"} \/ (req[r].state = "CLAIMED" /\ req[r].by = p)

\* The pass that serves a request whose lease has run out is late.
RanOutIsLate == \A p \in Passes : \A r \in Rows :
    req[r].state = "CLAIMED" /\ req[r].expired /\ ServedBy(p, r) => pass[p].late

\* The requests a pass may resolve are over, or held by evidence it knows.
Knows(p) == IF pass[p].pc = "gather" THEN evidence.at ELSE pass[p].saw
OlderIsKnown == \A p \in Passes : \A r \in pass[p].older :
    req[r].state = "FREE" \/ (req[r].state = "HELD" /\ req[r].since <= Knows(p))
HeldSince == \A r \in Rows : req[r].since <= evidence.at

QInv ==
    /\ TypeOK /\ PlacesOK /\ ServedIsClaimed /\ RanOutIsLate /\ OlderIsKnown /\ HeldSince
    /\ OneClaimer

\* What HeldIsAnswered says of a step.
Answered == \A r \in Rows : req[r].state = "HELD" /\ req'[r].state # "HELD" =>
    digest'.status # "CURRENT" \/ digest'.at >= req[r].since

-----------------------------------------------------------------------------
DigestRow == [status : {"NONE", "CURRENT", "STALE"}, at : Times, seen : Times]
\* The types of all but the requests and the passes.
RestOK ==
    /\ digest \in DigestRow /\ evidence \in [at : Times \ {0}, gone : BOOLEAN]
    /\ owner \in Leases /\ purging \in Rows \cup {None} /\ asked \in Times
    /\ overtaken \in BOOLEAN /\ faults \in 0 .. MaxFaults

\* The type of each variable, and of the fields of its records.
LEMMA Typed ==
    ASSUME TypeOK
    PROVE  /\ RestOK /\ req \in [Rows -> Request] /\ pass \in [Passes -> PassRecord]
           /\ \A p \in Passes :
                /\ pass[p] \in PassRecord /\ owner[p] \in Owners
                /\ pass[p].pc \in Places /\ pass[p].asks \in Times /\ pass[p].tries \in 0 .. 3
                /\ pass[p].found \in Rows \cup {None} /\ pass[p].whose \in Owners \cup {None}
                /\ pass[p].listed \subseteq Rows \X Owners \X BOOLEAN /\ pass[p].row \in Rows \cup {None}
                /\ pass[p].last \in BOOLEAN /\ pass[p].late \in BOOLEAN
                /\ pass[p].robbed \in BOOLEAN
                /\ pass[p].saw \in Times /\ pass[p].older \subseteq Rows
           /\ \A r \in Rows :
                /\ req[r] \in Request /\ req[r].state \in States
                /\ req[r].owner \in Owners \cup {None} /\ req[r].by \in Passes \cup {None}
                /\ req[r].attempts \in 0 .. MaxAttempts /\ req[r].since \in Times
                /\ req[r].expired \in BOOLEAN
                /\ req[r].state = "CLAIMED" <=> req[r].owner # None
           /\ digest.status \in {"NONE", "CURRENT", "STALE"} /\ digest.at \in Times
           /\ digest.seen \in Times /\ evidence.at \in Times /\ evidence.at # 0
<1>1. /\ RestOK /\ req \in [Rows -> Request] /\ pass \in [Passes -> PassRecord]
      /\ \A r \in Rows : req[r].state = "CLAIMED" <=> req[r].owner # None
  BY DEF TypeOK, RestOK, DigestRow
<1>2. \A p \in Passes : owner[p] \in Owners
  BY <1>1, LeasesAssumption DEF RestOK
<1>3. /\ digest.status \in {"NONE", "CURRENT", "STALE"} /\ digest.at \in Times
      /\ digest.seen \in Times /\ evidence.at \in Times /\ evidence.at # 0
  BY <1>1 DEF RestOK, DigestRow
<1>4. ASSUME NEW p \in Passes
      PROVE /\ pass[p] \in PassRecord
            /\ pass[p].pc \in Places /\ pass[p].asks \in Times /\ pass[p].tries \in 0 .. 3
            /\ pass[p].found \in Rows \cup {None} /\ pass[p].whose \in Owners \cup {None}
            /\ pass[p].listed \subseteq Rows \X Owners \X BOOLEAN /\ pass[p].row \in Rows \cup {None}
            /\ pass[p].last \in BOOLEAN /\ pass[p].late \in BOOLEAN
            /\ pass[p].robbed \in BOOLEAN
            /\ pass[p].saw \in Times /\ pass[p].older \subseteq Rows
  BY <1>1 DEF PassRecord
<1>5. ASSUME NEW r \in Rows
      PROVE /\ req[r] \in Request /\ req[r].state \in States
            /\ req[r].owner \in Owners \cup {None} /\ req[r].by \in Passes \cup {None}
            /\ req[r].attempts \in 0 .. MaxAttempts /\ req[r].since \in Times
            /\ req[r].expired \in BOOLEAN
  BY <1>1 DEF Request
<1> QED
  BY <1>1, <1>2, <1>3, <1>4, <1>5

\* The later of two times is one.
LEMMA LaterIsATime == \A m, n \in Times : Later(m, n) \in Times
BY DEF Later

\* The records of a pass at rest, and of no request.
LEMMA Rests ==
    /\ IdlePass \in PassRecord /\ PlaceOK(IdlePass)
    /\ IdlePass.pc = "idle" /\ IdlePass.row = None /\ IdlePass.late = FALSE
    /\ IdlePass.robbed = FALSE /\ IdlePass.listed = {}
    /\ IdlePass.older = {} /\ IdlePass.tries = 0 /\ IdlePass.found = None
    /\ NoRow \in Request /\ NoRow.state = "FREE" /\ NoRow.owner = None /\ NoRow.since = 0
<1>1. 0 \in Times /\ 0 \in 0 .. 3 /\ 0 \in 0 .. MaxAttempts
  BY BoundsAssumption DEF Times
<1>2. IdlePass \in PassRecord
  BY <1>1 DEF IdlePass, PassRecord, Places
<1>3. NoRow \in Request
  BY <1>1 DEF NoRow, Request, States
<1> QED
  BY <1>2, <1>3 DEF IdlePass, NoRow, PlaceOK, Unserving

\* What a move of one pass does to the passes.
LEMMA PassSteps ==
    ASSUME TypeOK, NEW p \in Passes, NEW s \in PassRecord, Moves(p, s)
    PROVE  /\ pass' \in [Passes -> PassRecord] /\ pass'[p] = s
           /\ \A q \in Passes : q # p => pass'[q] = pass[q]
BY DEF TypeOK, Moves

-----------------------------------------------------------------------------
\* The record s of a pass p that goes on with what it had, or drops it.
Follows(p, s) ==
    /\ PlaceOK(s)
    /\ \/ s.row = None
       \/ s.row = pass[p].row /\ s.late = pass[p].late /\ s.robbed = pass[p].robbed
    /\ s.older \subseteq pass[p].older
    /\ s.older = {} \/ (s.pc # "gather" /\ s.saw = Knows(p))
GoesOn(p) == \E s \in PassRecord : Follows(p, s) /\ Moves(p, s)

\* The ways a pass goes on: it ends.
LEMMA EndsGoesOn == ASSUME TypeOK, NEW p \in Passes, Ends(p) PROVE GoesOn(p)
BY Rests DEF Ends, GoesOn, Follows

\* It goes to another place of the refresh.
LEMMA GoesGoesOn ==
    ASSUME TypeOK, PlacesOK, NEW p \in Passes, NEW pc \in Places \ (Unserving \cup {"gather"}),
           pass[p].pc \notin Unserving \cup {"gather"}, Goes(p, pc)
    PROVE  GoesOn(p)
<1> DEFINE s == [pass[p] EXCEPT !.pc = pc]
<1>1. pass[p] \in PassRecord
  BY Typed
<1>2. /\ s \in PassRecord /\ s.pc = pc /\ s.row = pass[p].row /\ s.late = pass[p].late
      /\ s.robbed = pass[p].robbed /\ s.listed = pass[p].listed
      /\ s.older = pass[p].older /\ s.saw = pass[p].saw
  BY <1>1 DEF PassRecord
<1>3. Moves(p, s)
  BY DEF Goes
<1> HIDE DEF s
<1> QED
  BY <1>2, <1>3 DEF GoesOn, Follows, PlacesOK, PlaceOK, Unserving, Knows

\* It goes on to put its request back or aside.
LEMMA SettlesGoesOn ==
    ASSUME TypeOK, PlacesOK, NEW p \in Passes, pass[p].pc \notin Unserving,
           NEW pc \in {"retry", "hold"}, Settles(p, pc)
    PROVE  GoesOn(p)
<1> DEFINE s == [IdlePass EXCEPT !.pc = pc, !.row = pass[p].row, !.late = pass[p].late,
                                 !.robbed = pass[p].robbed]
<1>1. pass[p].row \in Rows \cup {None} /\ pass[p].late \in BOOLEAN /\ pc \in Places
      /\ pass[p].robbed \in BOOLEAN
  BY Typed DEF Places
<1>2. /\ s \in PassRecord /\ s.pc = pc /\ s.row = pass[p].row /\ s.late = pass[p].late
      /\ s.robbed = pass[p].robbed /\ s.listed = IdlePass.listed
      /\ s.older = IdlePass.older
  BY <1>1, Rests DEF PassRecord
<1>3. Moves(p, s)
  BY DEF Settles
<1> HIDE DEF s
<1> QED
  BY <1>2, <1>3, Rests DEF GoesOn, Follows, PlacesOK, PlaceOK, Unserving

\* It goes on to take the reading down.
LEMMA VerdictGoesOn ==
    ASSUME TypeOK, PlacesOK, NEW p \in Passes, pass[p].pc \notin Unserving,
           NEW why \in {"nothing", "unfit", "spent"}, NEW saw \in Times, Verdict(p, why, saw)
    PROVE  GoesOn(p)
<1> DEFINE s == [pass[p] EXCEPT !.pc = "stale", !.why = why, !.saw = saw, !.older = {},
                             !.done = FALSE]
<1>1. pass[p] \in PassRecord
  BY Typed
<1>2. /\ s \in PassRecord /\ s.pc = "stale" /\ s.row = pass[p].row /\ s.late = pass[p].late
      /\ s.robbed = pass[p].robbed /\ s.listed = pass[p].listed
      /\ s.older = {}
  BY <1>1 DEF PassRecord, Places
<1>3. Moves(p, s)
  BY DEF Verdict
<1> HIDE DEF s
<1> QED
  BY <1>2, <1>3 DEF GoesOn, Follows, PlacesOK, PlaceOK, Unserving

\* It does one or the other.
LEMMA RetriesGoesOn ==
    ASSUME TypeOK, PlacesOK, NEW p \in Passes, pass[p].pc \notin Unserving,
           NEW saw \in Times, Retries(p, saw)
    PROVE  GoesOn(p)
BY SettlesGoesOn, VerdictGoesOn DEF Retries

\* It lets the reading stand.
LEMMA StandsGoesOn ==
    ASSUME TypeOK, PlacesOK, NEW p \in Passes, pass[p].pc \notin Unserving \cup {"gather"},
           Stands(p)
    PROVE  GoesOn(p)
<1> DEFINE s == [pass[p] EXCEPT !.pc = "complete", !.done = TRUE]
<1>1. pass[p] \in PassRecord
  BY Typed
<1>2. /\ s \in PassRecord /\ s.pc = "complete" /\ s.row = pass[p].row /\ s.late = pass[p].late
      /\ s.robbed = pass[p].robbed /\ s.listed = pass[p].listed
      /\ s.older = pass[p].older /\ s.saw = pass[p].saw
  BY <1>1 DEF PassRecord, Places
<1>3. Moves(p, s)
  BY DEF Stands
<1> HIDE DEF s
<1> QED
  BY <1>2, <1>3 DEF GoesOn, Follows, PlacesOK, PlaceOK, Unserving, Knows

-----------------------------------------------------------------------------
\* A step of one pass that makes no request PENDING and claims none.
Held(r) == req'[r].state = "HELD" /\ req'[r].since = evidence.at /\ req'[r].owner = None
QuietStep(p) ==
    /\ GoesOn(p) /\ RestOK' /\ UNCHANGED evidence
    /\ req' \in [Rows -> Request]
    /\ \A r \in Rows :
        \/ req'[r] = req[r]
        \/ req'[r] = NoRow /\ req[r].state \in {"CLAIMED", "HELD"}
        \/ Held(r) /\ req[r].state = "CLAIMED"
    /\ Answered

\* A step that leaves the requests alone is quiet.
LEMMA Unasked ==
    ASSUME TypeOK, NEW p \in Passes, GoesOn(p), RestOK', UNCHANGED <<req, evidence>>
    PROVE  QuietStep(p)
BY Typed DEF QuietStep, Answered

\* So is one that ends a claim.
LEMMA EndsAClaim ==
    ASSUME TypeOK, NEW p \in Passes, GoesOn(p), RestOK', UNCHANGED evidence,
           NEW r, NEW name, name # None,
           req' = IF Holds(r, name) THEN [req EXCEPT ![r] = NoRow] ELSE req
    PROVE  QuietStep(p)
<1>1. /\ req \in [Rows -> Request] /\ NoRow \in Request
  BY Typed, Rests
<1>2. /\ req' \in [Rows -> Request]
      /\ \A x \in Rows : req'[x] = req[x] \/ (req'[x] = NoRow /\ req[x].state = "CLAIMED")
  BY <1>1 DEF Holds
<1> QED
  BY <1>2 DEF QuietStep, Answered

\* The steps of enqueue, but for the creation of a request.
LEMMA EnqueueSteps ==
    ASSUME TypeOK, PlacesOK, NEW p \in Passes,
           Discover(p) \/ FindAgain(p) \/ Coalesce(p) \/ LoseRace(p) \/ Standing(p)
    PROVE  QuietStep(p)
<1>t. /\ pass[p] \in PassRecord /\ PlaceOK(pass[p]) /\ RestOK /\ evidence.at \in Times
      /\ pass[p].asks \in Times
  BY Typed DEF PlacesOK
<1>1. ASSUME Moves(p, [IdlePass EXCEPT !.pc = "recover"]) PROVE GoesOn(p)
  <2> DEFINE s == [IdlePass EXCEPT !.pc = "recover"]
  <2>1. /\ s \in PassRecord /\ s.pc = "recover" /\ s.row = IdlePass.row /\ s.older = IdlePass.older
        /\ s.listed = IdlePass.listed
    BY Rests DEF PassRecord, Places
  <2>2. Moves(p, s)
    BY <1>1
  <2> HIDE DEF s
  <2> QED
    BY <2>1, <2>2, Rests DEF GoesOn, Follows, PlaceOK, Unserving
<1>2. ASSUME Accepts(p) PROVE GoesOn(p) /\ asked' \in Times
  BY <1>1, <1>2, <1>t, LaterIsATime DEF Accepts, RestOK
<1>3. ASSUME NEW rec \in PassRecord, rec.tries <= 2, rec.row = None, rec.older \subseteq pass[p].older,
             \A x \in rec.listed : x[3],
             rec.older = {} \/ (pass[p].pc # "gather" /\ rec.saw = pass[p].saw),
             Finds(p, rec)
      PROVE GoesOn(p)
  <2> DEFINE a == [rec EXCEPT !.pc = "put"]
             b(r) == [rec EXCEPT !.pc = "put", !.found = r]
  <2>1. /\ a \in PassRecord /\ a.pc = "put" /\ a.row = None /\ a.older = rec.older
        /\ a.tries = rec.tries /\ a.saw = rec.saw /\ a.listed = rec.listed
    BY <1>3 DEF PassRecord, Places
  <2>2. \A r \in Rows : /\ b(r) \in PassRecord /\ b(r).pc = "put" /\ b(r).row = None
                        /\ b(r).older = rec.older /\ b(r).tries = rec.tries /\ b(r).saw = rec.saw
                        /\ b(r).listed = rec.listed
    BY <1>3 DEF PassRecord, Places
  <2>3. Moves(p, a) \/ \E r \in Rows : Moves(p, b(r))
    BY <1>3 DEF Finds, In
  <2> HIDE DEF a, b
  <2>4. Follows(p, a) /\ \A r \in Rows : Follows(p, b(r))
    BY <1>3, <2>1, <2>2 DEF Follows, PlaceOK, Unserving, Knows
  <2> QED
    BY <2>1, <2>2, <2>3, <2>4 DEF GoesOn
<1>4. CASE Discover(p)
  <2>1. UNCHANGED <<req, digest, evidence, owner, purging, asked, overtaken, faults>>
    BY <1>4 DEF Discover
  <2>2. CASE Finds(p, [IdlePass EXCEPT !.asks = evidence.at])
    <3> DEFINE s == [IdlePass EXCEPT !.asks = evidence.at]
    <3>1. /\ s \in PassRecord /\ s.tries = IdlePass.tries /\ s.row = IdlePass.row
          /\ s.older = IdlePass.older /\ s.listed = IdlePass.listed
      BY <1>t, Rests DEF PassRecord
    <3>2. Finds(p, s)
      BY <2>2
    <3> HIDE DEF s
    <3>3. GoesOn(p)
      BY <1>3, <3>1, <3>2, Rests
    <3> QED
      BY <2>1, <3>3, <1>t, Unasked DEF RestOK
  <2>3. CASE Goes(p, "recover")
    <3> DEFINE s == [pass[p] EXCEPT !.pc = "recover"]
    <3>1. /\ s \in PassRecord /\ s.pc = "recover" /\ s.row = pass[p].row /\ s.late = pass[p].late
          /\ s.robbed = pass[p].robbed /\ s.listed = pass[p].listed
          /\ s.older = pass[p].older /\ s.saw = pass[p].saw
      BY <1>t DEF PassRecord, Places
    <3>2. Moves(p, s) /\ pass[p].pc = "idle"
      BY <1>4, <2>3 DEF Goes, Discover
    <3> HIDE DEF s
    <3>3. GoesOn(p)
      BY <1>t, <3>1, <3>2 DEF GoesOn, Follows, PlaceOK, Unserving, Knows
    <3> QED
      BY <2>1, <3>3, <1>t, Unasked DEF RestOK
  <2> QED
    BY <1>4, <2>2, <2>3 DEF Discover
<1>5. CASE FindAgain(p)
  <2>1. GoesOn(p)
    BY <1>3, <1>5, <1>t DEF FindAgain, PlaceOK, Unserving
  <2> QED
    BY <1>5, <2>1, <1>t, Unasked DEF FindAgain, RestOK
<1>6. CASE Coalesce(p)
  <2>1. GoesOn(p) /\ asked' \in Times
    BY <1>2, <1>6 DEF Coalesce
  <2> QED
    BY <1>6, <2>1, <1>t, Unasked DEF Coalesce, RestOK
<1>7. CASE Standing(p)
  <2>1. GoesOn(p) /\ asked' \in Times
    BY <1>1, <1>2, <1>7, <1>t DEF Standing, RestOK
  <2> QED
    BY <1>7, <2>1, <1>t, Unasked DEF Standing, RestOK
<1>8. CASE LoseRace(p)
  <2> DEFINE n == pass[p].tries + 1
             pc == IF pass[p].tries < 2 THEN "find" ELSE "standing"
             s == [pass[p] EXCEPT !.found = None, !.tries = n, !.pc = pc]
  <2>1. pass[p].tries \in 0 .. 3 /\ pass[p].tries <= 2 /\ pass[p].pc = "put"
    BY <1>8, <1>t DEF LoseRace, PlaceOK, PassRecord
  <2>2. n \in 0 .. 3 /\ pc \in Places /\ (pc = "find" => n <= 2) /\ pc \in {"find", "standing"}
    BY <2>1 DEF Places
  <2>3. Moves(p, s)
    BY <1>8 DEF LoseRace
  <2> HIDE DEF n, pc
  <2>4. /\ s \in PassRecord /\ s.pc = pc /\ s.row = pass[p].row /\ s.late = pass[p].late
        /\ s.robbed = pass[p].robbed /\ s.listed = pass[p].listed
        /\ s.older = pass[p].older /\ s.saw = pass[p].saw /\ s.tries = n
    BY <1>t, <2>2 DEF PassRecord
  <2> HIDE DEF s
  <2>5. GoesOn(p)
    BY <1>t, <2>1, <2>2, <2>3, <2>4 DEF GoesOn, Follows, PlaceOK, Unserving, Knows
  <2> QED
    BY <1>8, <2>5, <1>t, Unasked DEF LoseRace, RestOK
<1> QED
  BY <1>4, <1>5, <1>6, <1>7, <1>8

\* The steps of claim, but for a request that is returned or claimed.
LEMMA TakeSteps ==
    ASSUME TypeOK, PlacesOK, NEW p \in Passes,
           \/ Recover(p) \/ Candidates(p) \/ Fold(p)
           \/ Return(p) /\ UNCHANGED req
           \/ Claim(p) /\ ~Claimable(pass[p].found)
    PROVE  QuietStep(p)
<1>t. /\ pass[p] \in PassRecord /\ PlaceOK(pass[p]) /\ RestOK
      /\ pass[p].listed \subseteq Rows \X Owners \X BOOLEAN
  BY Typed DEF PlacesOK
<1>1. CASE Recover(p)
  <2> DEFINE l == {<<r, req[r].owner, req[r].expired>> : r \in Expired}
             s == [pass[p] EXCEPT !.pc = "return", !.listed = l]
  <2>1. l \in SUBSET (Rows \X Owners \X BOOLEAN) /\ \A x \in l : x[3]
    BY Typed DEF Expired, In
  <2>2. Moves(p, s) /\ pass[p].pc = "recover"
    BY <1>1 DEF Recover
  <2> HIDE DEF l
  <2>3. /\ s \in PassRecord /\ s.pc = "return" /\ s.row = pass[p].row /\ s.late = pass[p].late
        /\ s.robbed = pass[p].robbed /\ s.listed = l
        /\ s.older = pass[p].older /\ s.saw = pass[p].saw
    BY <1>t, <2>1 DEF PassRecord, Places
  <2> HIDE DEF s
  <2>4. GoesOn(p)
    BY <1>t, <2>1, <2>2, <2>3 DEF GoesOn, Follows, PlaceOK, Unserving, Knows
  <2> QED
    BY <1>1, <2>4, <1>t, Unasked DEF Recover, RestOK
<1>2. CASE Candidates(p)
  <2>1. CASE Ends(p)
    BY <1>2, <2>1, <1>t, EndsGoesOn, Unasked DEF Candidates, RestOK
  <2>2. ASSUME NEW r \in Rows, Moves(p, [pass[p] EXCEPT !.pc = "claim", !.found = r])
        PROVE QuietStep(p)
    <3> DEFINE s == [pass[p] EXCEPT !.pc = "claim", !.found = r]
    <3>1. /\ s \in PassRecord /\ s.pc = "claim" /\ s.row = pass[p].row /\ s.late = pass[p].late
          /\ s.robbed = pass[p].robbed /\ s.listed = pass[p].listed
          /\ s.older = pass[p].older /\ s.saw = pass[p].saw /\ s.found = r
      BY <1>t DEF PassRecord, Places
    <3>2. Moves(p, s) /\ pass[p].pc = "return"
      BY <1>2, <2>2 DEF Candidates
    <3> HIDE DEF s
    <3>3. GoesOn(p)
      BY <1>t, <3>1, <3>2 DEF GoesOn, Follows, PlaceOK, Unserving, Knows
    <3> QED
      BY <1>2, <3>3, <1>t, Unasked DEF Candidates, RestOK
  <2> QED
    BY <1>2, <2>1, <2>2 DEF Candidates, In
<1>3. CASE Fold(p)
  <2> DEFINE s == [pass[p] EXCEPT !.pc = "return", !.found = None, !.whose = None,
                                  !.robbed = FALSE]
  <2>1. /\ s \in PassRecord /\ s.pc = "return" /\ s.row = pass[p].row
        /\ s.listed = pass[p].listed
        /\ s.older = pass[p].older /\ s.saw = pass[p].saw
    BY <1>t DEF PassRecord, Places
  <2>2. Moves(p, s) /\ pass[p].pc = "fold"
    BY <1>3 DEF Fold
  <2> HIDE DEF s
  <2>3. GoesOn(p)
    BY <1>t, <2>1, <2>2 DEF GoesOn, Follows, PlaceOK, Unserving, Knows
  <2>4. \/ UNCHANGED req
        \/ /\ pass[p].whose # None
           /\ req' = IF Holds(pass[p].found, pass[p].whose)
                     THEN [req EXCEPT ![pass[p].found] = NoRow] ELSE req
    <3>1. CASE pass[p].whose = None
      <4>1. pass[p].found \in Rows => ~Holds(pass[p].found, None)
        BY Typed DEF Holds
      <4>2. pass[p].found \notin Rows => [req EXCEPT ![pass[p].found] = NoRow] = req
        BY Typed
      <4> QED
        BY <1>3, <3>1, <4>1, <4>2 DEF Fold
    <3> QED
      BY <1>3, <3>1 DEF Fold
  <2>5. RestOK' /\ UNCHANGED evidence
    BY <1>3, <1>t DEF Fold, RestOK
  <2> QED
    BY <2>3, <2>4, <2>5, Unasked, EndsAClaim
<1>4. CASE Return(p) /\ UNCHANGED req
  <2>1. PICK x \in pass[p].listed :
          \/ Moves(p, [pass[p] EXCEPT !.pc = "fold", !.listed = @ \ {x},
                                      !.found = x[1], !.whose = x[2]])
          \/ Holds(x[1], x[2]) /\ req' = [req EXCEPT ![x[1]] = Released(x[1])]
          \/ Moves(p, [pass[p] EXCEPT !.listed = @ \ {x}])
    BY <1>4 DEF Return
  <2>2. x[1] \in Rows /\ x[2] \in Owners /\ pass[p].pc = "return"
    BY <1>4, <1>t DEF Return
  <2>3. ~(Holds(x[1], x[2]) /\ req' = [req EXCEPT ![x[1]] = Released(x[1])])
    <3> SUFFICES ASSUME Holds(x[1], x[2]), req' = [req EXCEPT ![x[1]] = Released(x[1])]
                 PROVE FALSE
      OBVIOUS
    <3>1. Released(x[1]).state = "PENDING" /\ req[x[1]].state = "CLAIMED"
      BY Typed, <2>2 DEF Released, Holds, Request
    <3> QED
      BY <1>4, <2>2, <3>1, Typed
  <2> DEFINE l == pass[p].listed \ {x}
             a == [pass[p] EXCEPT !.pc = "fold", !.listed = l, !.found = x[1], !.whose = x[2]]
             b == [pass[p] EXCEPT !.listed = l]
  <2>4. Moves(p, a) \/ Moves(p, b)
    BY <2>1, <2>3
  <2>5. l \in SUBSET (Rows \X Owners \X BOOLEAN) /\ l \subseteq pass[p].listed
    BY <1>t
  <2> HIDE DEF l
  <2>6. /\ a \in PassRecord /\ a.pc = "fold" /\ a.row = pass[p].row /\ a.late = pass[p].late
        /\ a.robbed = pass[p].robbed /\ a.listed = l
        /\ a.older = pass[p].older /\ a.saw = pass[p].saw
        /\ b \in PassRecord /\ b.pc = pass[p].pc /\ b.row = pass[p].row /\ b.late = pass[p].late
        /\ b.robbed = pass[p].robbed /\ b.listed = l
        /\ b.older = pass[p].older /\ b.saw = pass[p].saw
    BY <1>t, <2>2, <2>5 DEF PassRecord, Places
  <2> HIDE DEF a, b
  <2>7. GoesOn(p)
    BY <1>t, <2>2, <2>4, <2>5, <2>6 DEF GoesOn, Follows, PlaceOK, Unserving, Knows
  <2> QED
    BY <1>4, <2>7, <1>t, Unasked DEF Return, RestOK
<1>5. CASE Claim(p) /\ ~Claimable(pass[p].found)
  BY <1>5, <1>t, EndsGoesOn, Unasked DEF Claim, RestOK
<1> QED
  BY <1>1, <1>2, <1>3, <1>4, <1>5

\* The steps of a refresh, but for its beginning and a request that is retried.
LEMMA RefreshSteps ==
    ASSUME TypeOK, PlacesOK, OlderIsKnown, NEW p \in Passes,
           \/ Gather(p) \/ StaleTarget(p) \/ StaleFails(p) \/ Compare(p) \/ Reaffirm(p)
           \/ Write(p) \/ Throw(p) \/ Complete(p) \/ Refold(p) \/ Hold(p)
           \/ ResolveSuperseded(p) \/ Die(p)
           \/ Retry(p) /\ UNCHANGED req
    PROVE  QuietStep(p)
<1>t. /\ pass[p] \in PassRecord /\ PlaceOK(pass[p]) /\ RestOK /\ pass[p].saw \in Times
      /\ evidence.at \in Times /\ digest.status \in {"NONE", "CURRENT", "STALE"}
      /\ digest.at \in Times /\ digest.seen \in Times /\ overtaken \in BOOLEAN
      /\ owner[p] \in Owners /\ owner[p] # None /\ req \in [Rows -> Request]
  BY Typed, NoneAssumption DEF PlacesOK, RestOK
<1>f. faults < MaxFaults => faults + 1 \in 0 .. MaxFaults
  BY <1>t, BoundsAssumption DEF RestOK
<1>p. /\ \A pc \in {"gather", "stale", "compare", "reaffirm", "write", "complete"} :
           pc \notin Unserving
      /\ \A pc \in {"reaffirm", "write", "resolve"} :
           pc \in Places \ (Unserving \cup {"gather"})
  BY DEF Unserving, Places
<1>j. ASSUME NEW status \in {"NONE", "CURRENT", "STALE"}, NEW at \in Times, Judged(p, status, at)
      PROVE digest' \in DigestRow /\ overtaken' \in BOOLEAN
  <2>1. Later(digest.seen, pass[p].saw) \in Times
    BY <1>t, LaterIsATime
  <2>2. digest' \in DigestRow
    BY <1>j, <2>1 DEF Judged, DigestRow
  <2>3. overtaken' \in BOOLEAN
    BY <1>j DEF Judged
  <2> QED
    BY <2>2, <2>3
<1>1. CASE Gather(p)
  <2>1. ASSUME Moves(p, [pass[p] EXCEPT !.pc = "compare", !.saw = evidence.at])
        PROVE GoesOn(p)
    <3> DEFINE s == [pass[p] EXCEPT !.pc = "compare", !.saw = evidence.at]
    <3>1. /\ s \in PassRecord /\ s.pc = "compare" /\ s.row = pass[p].row /\ s.late = pass[p].late
          /\ s.robbed = pass[p].robbed /\ s.listed = pass[p].listed
          /\ s.older = pass[p].older /\ s.saw = evidence.at
      BY <1>t DEF PassRecord, Places
    <3>2. Moves(p, s) /\ pass[p].pc = "gather"
      BY <1>1, <2>1 DEF Gather
    <3> HIDE DEF s
    <3> QED
      BY <3>1, <3>2 DEF GoesOn, Follows, PlacesOK, PlaceOK, Unserving, Knows
  <2>2. GoesOn(p)
    BY <1>1, <2>1, <1>p, <1>t, VerdictGoesOn, RetriesGoesOn DEF Gather
  <2> QED
    BY <1>1, <2>2, <1>t, Unasked DEF Gather, RestOK
<1>2. CASE StaleTarget(p)
  <2>1. digest' \in DigestRow /\ overtaken' \in BOOLEAN
    <3>1. (IF digest.status = "CURRENT" THEN "STALE" ELSE digest.status)
             \in {"NONE", "CURRENT", "STALE"}
      BY <1>t
    <3> QED
      BY <1>2, <1>j, <1>t, <3>1 DEF StaleTarget, MarkStale
  <2>2. ASSUME Moves(p, [pass[p] EXCEPT !.pc = "complete", !.why = None])
        PROVE GoesOn(p)
    <3> DEFINE s == [pass[p] EXCEPT !.pc = "complete", !.why = None]
    <3>1. /\ s \in PassRecord /\ s.pc = "complete" /\ s.row = pass[p].row /\ s.late = pass[p].late
          /\ s.robbed = pass[p].robbed /\ s.listed = pass[p].listed
          /\ s.older = pass[p].older /\ s.saw = pass[p].saw
      BY <1>t DEF PassRecord, Places
    <3>2. Moves(p, s) /\ pass[p].pc = "stale"
      BY <1>2, <2>2 DEF StaleTarget
    <3> HIDE DEF s
    <3> QED
      BY <3>1, <3>2 DEF GoesOn, Follows, PlacesOK, PlaceOK, Unserving, Knows
  <2>3. GoesOn(p)
    BY <1>2, <2>2, <1>p, SettlesGoesOn DEF StaleTarget
  <2> QED
    BY <1>2, <2>1, <2>3, <1>t, Unasked DEF StaleTarget, RestOK
<1>3. CASE StaleFails(p)
  <2>1. GoesOn(p)
    BY <1>3, <1>p, <1>t, SettlesGoesOn, RetriesGoesOn DEF StaleFails
  <2> QED
    BY <1>3, <2>1, <1>t, <1>f, Unasked DEF StaleFails, RestOK
<1>4. CASE Compare(p)
  <2>1. digest' \in DigestRow
    <3>1. CASE digest' = [digest EXCEPT !.seen = Later(digest.seen, pass[p].saw)]
      <4>1. Later(digest.seen, pass[p].saw) \in Times /\ digest \in DigestRow
        BY <1>t, LaterIsATime DEF RestOK
      <4> QED
        BY <3>1, <4>1 DEF DigestRow
    <3> QED
      BY <1>4, <3>1, <1>t DEF Compare, RestOK
  <2>2. ASSUME Moves(p, [pass[p] EXCEPT !.pc = "complete", !.older = {}])
        PROVE GoesOn(p)
    <3> DEFINE s == [pass[p] EXCEPT !.pc = "complete", !.older = {}]
    <3>1. /\ s \in PassRecord /\ s.pc = "complete" /\ s.row = pass[p].row /\ s.late = pass[p].late
          /\ s.robbed = pass[p].robbed /\ s.listed = pass[p].listed
          /\ s.older = {}
      BY <1>t DEF PassRecord, Places
    <3>2. Moves(p, s) /\ pass[p].pc = "compare"
      BY <1>4, <2>2 DEF Compare
    <3> HIDE DEF s
    <3> QED
      BY <3>1, <3>2 DEF GoesOn, Follows, PlacesOK, PlaceOK, Unserving
  <2>3. pass[p].pc = "compare" /\ "reaffirm" \in Places \ (Unserving \cup {"gather"})
        /\ "write" \in Places \ (Unserving \cup {"gather"})
    BY <1>4 DEF Compare, Places, Unserving
  <2>4. GoesOn(p)
    BY <1>4, <2>2, <2>3, <1>p, StandsGoesOn, GoesGoesOn DEF Compare
  <2> QED
    BY <1>4, <2>1, <2>4, <1>t, Unasked DEF Compare, RestOK
<1>5. CASE Reaffirm(p)
  <2>1. digest' \in DigestRow /\ overtaken' \in BOOLEAN
    BY <1>5, <1>j, <1>t DEF Reaffirm, RestOK
  <2> QED
    BY <1>5, <2>1, <1>p, <1>t, StandsGoesOn, Unasked DEF Reaffirm, RestOK
<1>6. CASE Write(p)
  <2>1. digest' \in DigestRow /\ overtaken' \in BOOLEAN
    BY <1>6, <1>j, <1>t DEF Write, RestOK
  <2>2. GoesOn(p)
    BY <1>6, <1>p, <1>t, StandsGoesOn, VerdictGoesOn, RetriesGoesOn DEF Write
  <2> QED
    BY <1>6, <2>1, <2>2, <1>t, Unasked DEF Write, RestOK
<1>7. CASE Throw(p)
  <2>1. GoesOn(p)
    BY <1>7, <1>p, <1>t, RetriesGoesOn DEF Throw
  <2> QED
    BY <1>7, <2>1, <1>t, <1>f, Unasked DEF Throw, RestOK
<1>8. CASE Complete(p)
  <2>1. overtaken' \in BOOLEAN
    BY <1>8 DEF Complete
  <2>2. pass[p].pc = "complete" /\ "resolve" \in Places \ (Unserving \cup {"gather"})
    BY <1>8 DEF Complete, Places, Unserving
  <2>3. GoesOn(p)
    BY <1>8, <2>2, <1>p, EndsGoesOn, GoesGoesOn DEF Complete
  <2>4. RestOK' /\ UNCHANGED evidence
    BY <1>8, <1>t, <2>1 DEF Complete, RestOK
  <2> QED
    BY <1>8, <2>3, <2>4, <1>t, EndsAClaim DEF Complete, Mine
<1>9. CASE Refold(p)
  <2>1. RestOK' /\ UNCHANGED evidence /\ GoesOn(p)
    BY <1>9, <1>t, EndsGoesOn DEF Refold, RestOK
  <2> QED
    BY <1>9, <2>1, <1>t, EndsAClaim DEF Refold, Mine
<1>10. CASE Hold(p)
  <2>1. RestOK' /\ UNCHANGED evidence /\ GoesOn(p)
    BY <1>10, <1>t, EndsGoesOn DEF Hold, RestOK
  <2> DEFINE r == pass[p].row
             h == [NoRow EXCEPT !.state = "HELD", !.since = evidence.at]
  <2>2. h \in Request /\ h.state = "HELD" /\ h.since = evidence.at /\ h.owner = None
    BY <1>t, Rests DEF Request, States
  <2>3. req' = IF Mine(p) THEN [req EXCEPT ![r] = h] ELSE req
    BY <1>10 DEF Hold
  <2> HIDE DEF h
  <2>4. /\ req' \in [Rows -> Request]
        /\ \A x \in Rows : req'[x] = req[x] \/ (x = r /\ req'[x] = h /\ req[x].state = "CLAIMED")
    BY <2>2, <2>3, <1>t DEF Mine, Holds
  <2> QED
    BY <2>1, <2>2, <2>4 DEF QuietStep, Answered, Held
<1>11. CASE ResolveSuperseded(p)
  <2>1. RestOK' /\ UNCHANGED <<evidence, digest>> /\ GoesOn(p)
    BY <1>11, <1>t, EndsGoesOn DEF ResolveSuperseded, RestOK
  <2>2. /\ req' \in [Rows -> Request]
        /\ \A r \in Rows : \/ req'[r] = req[r]
              \/ /\ req'[r] = NoRow /\ req[r].state = "HELD" /\ r \in pass[p].older
                 /\ digest.at = pass[p].saw
    <3>1. \A r \in Superseded(p) : req[r].state = "HELD" /\ r \in pass[p].older
      BY DEF Superseded, In
    <3> QED
      BY <1>11, <3>1, <1>t, Rests DEF ResolveSuperseded
  <2>3. \A r \in pass[p].older : req[r].state = "HELD" => req[r].since <= pass[p].saw
    BY <1>11 DEF OlderIsKnown, Knows, ResolveSuperseded
  <2>4. Answered
    BY <2>1, <2>2, <2>3, Typed DEF Answered
  <2> QED
    BY <2>1, <2>2, <2>4 DEF QuietStep
<1>12. CASE Die(p)
  BY <1>12, <1>t, <1>f, EndsGoesOn, Unasked DEF Die, RestOK
<1>13. CASE Retry(p) /\ UNCHANGED req
  <2>1. \/ Goes(p, "refold") \/ Ends(p)
        \/ Mine(p) /\ req' = [req EXCEPT ![pass[p].row] = Released(pass[p].row)]
    BY <1>13 DEF Retry
  <2>2. ASSUME Mine(p), pass[p].row \in Rows,
               req' = [req EXCEPT ![pass[p].row] = Released(pass[p].row)]
        PROVE FALSE
    <3>1. Released(pass[p].row).state = "PENDING" /\ req[pass[p].row].state = "CLAIMED"
      BY Typed, <2>2 DEF Released, Mine, Holds, Request
    <3> QED
      BY <1>13, <2>2, <3>1, <1>t
  <2>3. pass[p].row \in Rows
    BY <1>13, <1>t, Typed DEF Retry, PlaceOK, Unserving
  <2>4. /\ "refold" \in Places \ (Unserving \cup {"gather"})
        /\ pass[p].pc \notin Unserving \cup {"gather"}
    BY <1>13 DEF Retry, Places, Unserving
  <2>5. GoesOn(p)
    BY <2>1, <2>2, <2>3, <2>4, EndsGoesOn, GoesGoesOn
  <2> QED
    BY <1>13, <2>5, <1>t, Unasked DEF Retry, RestOK
<1> QED
  BY <1>1, <1>2, <1>3, <1>4, <1>5, <1>6, <1>7, <1>8, <1>9, <1>10, <1>11, <1>12,
     <1>13

-----------------------------------------------------------------------------
\* A quiet step keeps the invariant: what a pass serves or may resolve can only end.
LEMMA QuietKeeps ==
    ASSUME QInv, NEW p \in Passes, QuietStep(p)
    PROVE  QInv' /\ Answered
<1>1. PICK s \in PassRecord : Follows(p, s) /\ Moves(p, s)
  BY DEF QuietStep, GoesOn
<1>2. /\ pass' \in [Passes -> PassRecord] /\ pass'[p] = s
      /\ \A q \in Passes : q # p => pass'[q] = pass[q]
  BY <1>1, PassSteps DEF QInv
<1>3. PlacesOK'
  BY <1>1, <1>2 DEF QInv, PlacesOK, Follows
<1>4. /\ \A r \in Rows :
            \/ req'[r] = req[r]
            \/ req'[r] = NoRow /\ req[r].state \in {"CLAIMED", "HELD"}
            \/ Held(r) /\ req[r].state = "CLAIMED"
      /\ UNCHANGED evidence /\ req' \in [Rows -> Request] /\ RestOK'
  BY DEF QuietStep
<1>5. TypeOK'
  <2>1. \A r \in Rows : req'[r].state = "CLAIMED" <=> req'[r].owner # None
    BY <1>4, Typed, Rests DEF Held, QInv
  <2> QED
    BY <1>2, <1>4, <2>1 DEF TypeOK, RestOK, DigestRow
<1>6. \A q \in Passes : \A r \in Rows : Serves(q, r)' => Serves(q, r)
  BY <1>1, <1>2, NoneAssumption DEF Serves, Lost, Follows
<1>7. ServedIsClaimed'
  BY <1>4, <1>6, Rests DEF QInv, ServedIsClaimed, Held
<1>8. OlderIsKnown'
  <2> SUFFICES ASSUME NEW q \in Passes, NEW r \in pass'[q].older
      PROVE req'[r].state = "FREE" \/ (req'[r].state = "HELD" /\ req'[r].since <= Knows(q)')
    BY DEF OlderIsKnown
  <2>1. r \in pass[q].older /\ r \in Rows
    BY <1>1, <1>2, Typed DEF Follows, QInv
  <2>2. Knows(q)' = Knows(q)
    BY <1>1, <1>2, <1>4 DEF Knows, Follows
  <2> QED
    BY <2>1, <2>2, <1>4, Rests DEF QInv, OlderIsKnown
<1>9. HeldSince'
  BY <1>4, Typed, Rests DEF QInv, HeldSince, Held, Times
<1>10. OneClaimer'
  <2> SUFFICES ASSUME NEW o \in Passes, NEW q \in Passes, o # q, pass'[o].row = pass'[q].row,
                      pass'[o].row # None
      PROVE Lost(o)' \/ Lost(q)'
    BY DEF OneClaimer
  <2>1. /\ pass'[o].row = pass[o].row /\ pass'[o].late = pass[o].late
        /\ pass'[q].row = pass[q].row /\ pass'[q].late = pass[q].late
        /\ pass'[o].robbed = pass[o].robbed /\ pass'[q].robbed = pass[q].robbed
    BY <1>1, <1>2 DEF Follows
  <2> QED
    BY <2>1 DEF QInv, OneClaimer, Lost
<1>11. Answered
  BY DEF QuietStep
<1>12. RanOutIsLate'
  <2> SUFFICES ASSUME NEW q \in Passes, NEW r \in Rows, req'[r].state = "CLAIMED",
                      req'[r].expired, ServedBy(q, r)'
      PROVE pass'[q].late
    BY DEF RanOutIsLate
  <2>1. req'[r] = req[r]
    BY <1>4, Rests DEF Held
  <2>2. pass'[q].row = pass[q].row /\ pass'[q].late = pass[q].late
    BY <1>1, <1>2, NoneAssumption DEF ServedBy, Follows
  <2> QED
    BY <2>1, <2>2 DEF QInv, RanOutIsLate, ServedBy
<1> QED
  BY <1>3, <1>5, <1>7, <1>8, <1>9, <1>10, <1>11, <1>12 DEF QInv

\* A request is created under a name that nobody remembers.
LEMMA CreateKeeps ==
    ASSUME QInv, NEW p \in Passes, Create(p)
    PROVE  QInv' /\ Answered
<1>1. PICK r \in In("FREE") \ Remembered :
         req' = [req EXCEPT ![r] = [NoRow EXCEPT !.state = "PENDING"]]
  BY DEF Create
<1> DEFINE n == [NoRow EXCEPT !.state = "PENDING"]
           s == [IdlePass EXCEPT !.pc = "recover"]
<1>2. n \in Request /\ n.state = "PENDING" /\ n.owner = None /\ n.since = 0
  BY Rests DEF Request, States
<1>3. /\ s \in PassRecord /\ s.pc = "recover" /\ s.row = None /\ s.older = {}
      /\ s.listed = {}
  BY Rests DEF PassRecord, Places
<1>4. Moves(p, s) /\ UNCHANGED <<digest, evidence, owner, purging, overtaken, faults>>
      /\ asked' = Later(asked, pass[p].asks)
  BY DEF Create, Accepts
<1>5. /\ r \in Rows /\ req[r].state = "FREE"
      /\ \A q \in Passes : pass[q].row # r /\ r \notin pass[q].older
  BY <1>1 DEF In, Remembered
<1>6. req' \in [Rows -> Request] /\ req'[r] = n /\ \A x \in Rows : x # r => req'[x] = req[x]
  BY <1>1, <1>2, <1>5, Typed DEF QInv
<1> HIDE DEF n, s
<1>7. /\ pass' \in [Passes -> PassRecord] /\ pass'[p] = s
      /\ \A q \in Passes : q # p => pass'[q] = pass[q]
  BY <1>3, <1>4, PassSteps DEF QInv
<1>8. PlacesOK'
  BY <1>3, <1>7 DEF QInv, PlacesOK, PlaceOK, Unserving
<1>9. TypeOK'
  <2>1. asked' \in Times
    BY <1>4, Typed, LaterIsATime DEF QInv, RestOK
  <2>2. \A x \in Rows : req'[x].state = "CLAIMED" <=> req'[x].owner # None
    BY <1>2, <1>6, Typed DEF QInv
  <2> QED
    BY <1>4, <1>6, <1>7, <2>1, <2>2 DEF QInv, TypeOK
<1>10. ServedIsClaimed'
  BY <1>3, <1>5, <1>6, <1>7, NoneAssumption DEF QInv, ServedIsClaimed, Serves, Lost
<1>11. OlderIsKnown'
  <2> SUFFICES ASSUME NEW q \in Passes, NEW x \in pass'[q].older
      PROVE req'[x].state = "FREE" \/ (req'[x].state = "HELD" /\ req'[x].since <= Knows(q)')
    BY DEF OlderIsKnown
  <2>1. q # p /\ x \in pass[q].older /\ x \in Rows /\ x # r
    BY <1>3, <1>5, <1>7, Typed DEF QInv
  <2> QED
    BY <2>1, <1>4, <1>6, <1>7 DEF QInv, OlderIsKnown, Knows
<1>12. HeldSince'
  BY <1>2, <1>4, <1>6, Typed DEF QInv, HeldSince, Times
<1>13. OneClaimer'
  BY <1>3, <1>7 DEF QInv, OneClaimer, Lost
<1>14. Answered
  BY <1>5, <1>6 DEF Answered
<1>15. RanOutIsLate'
  BY <1>2, <1>3, <1>6, <1>7, NoneAssumption DEF QInv, RanOutIsLate, ServedBy
<1> QED
  BY <1>8, <1>9, <1>10, <1>11, <1>12, <1>13, <1>14, <1>15 DEF QInv

\* A claim takes a PENDING request: whoever served it before is late or robbed.
LEMMA ClaimKeeps ==
    ASSUME QInv, NEW p \in Passes, Claim(p), Claimable(pass[p].found)
    PROVE  QInv' /\ Answered
<1> DEFINE r == pass[p].found
           m == IF req[r].attempts < MaxAttempts THEN req[r].attempts + 1 ELSE MaxAttempts
           l == (m = MaxAttempts)
           n == [req[r] EXCEPT !.state = "CLAIMED", !.by = p,
                               !.owner = owner[p], !.attempts = m, !.expired = FALSE]
           s == [IdlePass EXCEPT !.pc = "begin", !.row = r, !.last = l]
<1>1. /\ r \in Rows /\ req[r].state = "PENDING" /\ owner[p] \in Owners /\ owner[p] # None
      /\ req[r].attempts \in 0 .. MaxAttempts /\ req[r] \in Request
  BY Typed, NoneAssumption DEF QInv, PlacesOK, PlaceOK, Claim, Claimable
<1>2. req' = [req EXCEPT ![r] = n] /\ Moves(p, s)
      /\ UNCHANGED <<digest, evidence, owner, purging, asked, overtaken, faults>>
  BY DEF Claim
<1>3. m \in 0 .. MaxAttempts /\ l \in BOOLEAN
  BY <1>1, BoundsAssumption
<1> HIDE DEF m, l, r
<1>4. /\ n \in Request /\ n.state = "CLAIMED" /\ n.by = p /\ n.owner = owner[p]
      /\ n.since = req[r].since /\ n.expired = FALSE
  BY <1>1, <1>3 DEF Request, States
<1>5. /\ s \in PassRecord /\ s.pc = "begin" /\ s.row = r /\ s.late = IdlePass.late
      /\ s.older = IdlePass.older /\ s.robbed = IdlePass.robbed /\ s.listed = IdlePass.listed
  BY <1>1, <1>3, Rests DEF PassRecord, Places
<1> HIDE DEF n, s
<1>6. req' \in [Rows -> Request] /\ req'[r] = n /\ \A x \in Rows : x # r => req'[x] = req[x]
  BY <1>1, <1>2, <1>4, Typed DEF QInv
<1>7. /\ pass' \in [Passes -> PassRecord] /\ pass'[p] = s
      /\ \A q \in Passes : q # p => pass'[q] = pass[q]
  BY <1>2, <1>5, PassSteps DEF QInv
<1>8. PlacesOK'
  BY <1>1, <1>5, <1>7, Rests, NoneAssumption DEF QInv, PlacesOK, PlaceOK, Unserving
<1>9. TypeOK'
  <2>1. \A x \in Rows : req'[x].state = "CLAIMED" <=> req'[x].owner # None
    BY <1>1, <1>4, <1>6, Typed DEF QInv
  <2> QED
    BY <1>2, <1>6, <1>7, <2>1 DEF QInv, TypeOK
<1>10. \A q \in Passes : ~Serves(q, r) /\ r \notin pass[q].older
  BY <1>1 DEF QInv, ServedIsClaimed, OlderIsKnown
<1>11. ServedIsClaimed'
  <2> SUFFICES ASSUME NEW q \in Passes, NEW x \in Rows, Serves(q, x)'
      PROVE req'[x].state \in {"FREE", "HELD"} \/ (req'[x].state = "CLAIMED" /\ req'[x].by = q)
    BY DEF ServedIsClaimed
  <2>1. CASE q = p
    BY <2>1, <1>4, <1>5, <1>6, <1>7 DEF Serves
  <2>2. CASE q # p
    <3>1. Serves(q, x) /\ x # r
      BY <2>2, <1>7, <1>10 DEF Serves, Lost
    <3> QED
      BY <3>1, <1>6 DEF QInv, ServedIsClaimed
  <2> QED
    BY <2>1, <2>2
<1>12. OlderIsKnown'
  <2> SUFFICES ASSUME NEW q \in Passes, NEW x \in pass'[q].older
      PROVE req'[x].state = "FREE" \/ (req'[x].state = "HELD" /\ req'[x].since <= Knows(q)')
    BY DEF OlderIsKnown
  <2>1. q # p /\ x \in pass[q].older /\ x \in Rows /\ x # r
    BY <1>5, <1>7, <1>10, Typed, Rests DEF QInv
  <2> QED
    BY <2>1, <1>2, <1>6, <1>7 DEF QInv, OlderIsKnown, Knows
<1>13. HeldSince'
  BY <1>1, <1>2, <1>4, <1>6 DEF QInv, HeldSince
<1>14. OneClaimer'
  <2> SUFFICES ASSUME NEW o \in Passes, NEW q \in Passes, o # q, pass'[o].row = pass'[q].row,
                      pass'[o].row # None
      PROVE Lost(o)' \/ Lost(q)'
    BY DEF OneClaimer
  <2> QED
    BY <1>5, <1>7, <1>10 DEF QInv, OneClaimer, Serves, Lost
<1>15. Answered
  BY <1>1, <1>6 DEF Answered
<1>16. RanOutIsLate'
  <2> SUFFICES ASSUME NEW q \in Passes, NEW x \in Rows, req'[x].state = "CLAIMED",
                      req'[x].expired, ServedBy(q, x)'
      PROVE pass'[q].late
    BY DEF RanOutIsLate
  <2>1. x # r /\ req'[x] = req[x]
    BY <1>4, <1>6
  <2>2. q # p
    BY <2>1, <1>5, <1>7 DEF ServedBy
  <2> QED
    BY <2>1, <2>2, <1>7 DEF QInv, RanOutIsLate, ServedBy
<1> QED
  BY <1>8, <1>9, <1>11, <1>12, <1>13, <1>14, <1>15, <1>16 DEF QInv

\* A pass begins to refresh: what is HELD was held by evidence it will know.
LEMMA BeginKeeps ==
    ASSUME QInv, NEW p \in Passes, Begin(p)
    PROVE  QInv' /\ Answered
<1> DEFINE l == In("HELD")
           s == [pass[p] EXCEPT !.pc = "gather", !.older = l]
<1>1. l \in SUBSET Rows /\ pass[p] \in PassRecord /\ \A r \in l : req[r].state = "HELD"
  BY Typed DEF QInv, In
<1>2. Moves(p, s) /\ UNCHANGED <<req, digest, evidence, owner, purging, asked, overtaken, faults>>
      /\ pass[p].pc = "begin"
  BY DEF Begin
<1> HIDE DEF l
<1>3. /\ s \in PassRecord /\ s.pc = "gather" /\ s.row = pass[p].row /\ s.late = pass[p].late
      /\ s.robbed = pass[p].robbed /\ s.listed = pass[p].listed
      /\ s.older = l
  BY <1>1 DEF PassRecord, Places
<1> HIDE DEF s
<1>4. /\ pass' \in [Passes -> PassRecord] /\ pass'[p] = s
      /\ \A q \in Passes : q # p => pass'[q] = pass[q]
  BY <1>2, <1>3, PassSteps DEF QInv
<1>5. TypeOK' /\ PlacesOK'
  BY <1>2, <1>3, <1>4 DEF QInv, TypeOK, PlacesOK, PlaceOK, Unserving
<1>6. ServedIsClaimed' /\ RanOutIsLate' /\ OneClaimer' /\ HeldSince'
  BY <1>2, <1>3, <1>4
     DEF QInv, ServedIsClaimed, Serves, RanOutIsLate, ServedBy, OneClaimer, Lost, HeldSince
<1>7. OlderIsKnown'
  <2> SUFFICES ASSUME NEW q \in Passes, NEW x \in pass'[q].older
      PROVE req[x].state = "FREE" \/ (req[x].state = "HELD" /\ req[x].since <= Knows(q)')
    BY <1>2 DEF OlderIsKnown
  <2>1. CASE q = p
    BY <2>1, <1>1, <1>2, <1>3, <1>4 DEF QInv, HeldSince, Knows
  <2>2. CASE q # p
    BY <2>2, <1>2, <1>4 DEF QInv, OlderIsKnown, Knows
  <2> QED
    BY <2>1, <2>2
<1> QED
  BY <1>2, <1>5, <1>6, <1>7 DEF QInv, Answered

\* A request is put back: whoever served it is late, or robbed if the one who puts it
\* back is mistaken.
LEMMA TakesKeeps ==
    ASSUME QInv, NEW p \in Passes, NEW r \in Rows, req[r].state = "CLAIMED",
           NEW s \in PassRecord, Follows(p, s), NEW m \in BOOLEAN, Takes(p, r, m, s),
           \A q \in Passes : q # p /\ ServedBy(q, r) => m \/ pass[q].late,
           s.row = None, req' = [req EXCEPT ![r] = Released(r)],
           UNCHANGED <<digest, evidence, owner, purging, asked, overtaken, faults>>
    PROVE  QInv' /\ Answered
<1> DEFINE n == Released(r)
           robbed(q) == pass[q].robbed \/ (m /\ ServedBy(q, r)) \/ Folding(q, r)
<1>1. req[r] \in Request /\ \A q \in Passes : pass[q] \in PassRecord
  BY Typed DEF QInv
<1>2. n \in Request /\ n.state = "PENDING" /\ n.owner = None /\ n.since = req[r].since
  BY <1>1 DEF Released, Request, States
<1>3. req' \in [Rows -> Request] /\ req'[r] = n /\ \A x \in Rows : x # r => req'[x] = req[x]
  BY <1>2, Typed DEF QInv
<1> HIDE DEF n
<1>4. /\ pass' \in [Passes -> PassRecord] /\ pass'[p] = s
      /\ \A q \in Passes : q # p =>
            /\ pass'[q].pc = pass[q].pc /\ pass'[q].row = pass[q].row
            /\ pass'[q].older = pass[q].older /\ pass'[q].saw = pass[q].saw
            /\ pass'[q].found = pass[q].found /\ pass'[q].tries = pass[q].tries
            /\ pass'[q].listed = pass[q].listed /\ pass'[q].late = pass[q].late
            /\ (pass'[q].robbed <=> robbed(q))
  <2> DEFINE With(x, b) == [x EXCEPT !.robbed = b]
             Same(x, y) == /\ y.pc = x.pc /\ y.row = x.row /\ y.older = x.older
                           /\ y.saw = x.saw /\ y.found = x.found /\ y.tries = x.tries
                           /\ y.listed = x.listed /\ y.late = x.late
  <2>1. pass' = [q \in Passes |-> IF q = p THEN s ELSE With(pass[q], robbed(q))]
    BY DEF Takes
  <2>2. \A q \in Passes : robbed(q) \in BOOLEAN
    OBVIOUS
  <2>3. \A x \in PassRecord : \A b \in BOOLEAN :
          With(x, b) \in PassRecord /\ Same(x, With(x, b)) /\ With(x, b).robbed = b
    BY DEF PassRecord
  <2> HIDE DEF robbed, With, Same
  <2>4. ASSUME NEW q \in Passes, q # p
        PROVE pass'[q] \in PassRecord /\ Same(pass[q], pass'[q]) /\ pass'[q].robbed = robbed(q)
    <3>1. pass'[q] = With(pass[q], robbed(q))
      BY <2>1, <2>4
    <3>2. pass[q] \in PassRecord /\ robbed(q) \in BOOLEAN
      BY <1>1, <2>2
    <3> QED
      BY <2>3, <3>1, <3>2, Zenon
  <2>5. pass'[p] = s
    BY <2>1
  <2>6. pass' \in [Passes -> PassRecord]
    BY <2>1, <2>4, <2>5, Zenon
  <2>7. \A q \in Passes : q # p => (pass'[q].robbed <=> robbed(q))
    BY <2>4
  <2> QED
    BY <2>4, <2>5, <2>6, <2>7 DEF Same
<1>5. PlacesOK'
  BY <1>4 DEF QInv, PlacesOK, PlaceOK, Follows
<1>6. TypeOK'
  <2>1. \A x \in Rows : req'[x].state = "CLAIMED" <=> req'[x].owner # None
    BY <1>2, <1>3, Typed DEF QInv
  <2> QED
    BY <1>3, <1>4, <2>1 DEF QInv, TypeOK
<1>7. ServedIsClaimed'
  <2> SUFFICES ASSUME NEW q \in Passes, NEW x \in Rows, Serves(q, x)'
      PROVE req'[x].state \in {"FREE", "HELD"} \/ (req'[x].state = "CLAIMED" /\ req'[x].by = q)
    BY DEF ServedIsClaimed
  <2>1. q # p /\ Serves(q, x)
    BY <1>4, NoneAssumption DEF Serves, Lost
  <2>2. x # r
    <3>1. x = r => ServedBy(q, r)
      BY <2>1 DEF QInv, ServedIsClaimed, Serves, ServedBy
    <3>2. ServedBy(q, r) => Lost(q)'
      BY <2>1, <1>4 DEF Lost
    <3> QED
      BY <3>1, <3>2 DEF Serves
  <2> QED
    BY <2>1, <2>2, <1>3 DEF QInv, ServedIsClaimed
<1>8. OlderIsKnown'
  <2> SUFFICES ASSUME NEW q \in Passes, NEW x \in pass'[q].older
      PROVE req'[x].state = "FREE" \/ (req'[x].state = "HELD" /\ req'[x].since <= Knows(q)')
    BY DEF OlderIsKnown
  <2>1. x \in pass[q].older /\ x \in Rows
    BY <1>4, Typed DEF Follows, QInv
  <2>2. Knows(q)' = Knows(q)
    BY <1>4 DEF Knows, Follows
  <2>3. x # r
    BY <2>1 DEF QInv, OlderIsKnown
  <2> QED
    BY <2>1, <2>2, <2>3, <1>3 DEF QInv, OlderIsKnown
<1>9. HeldSince'
  BY <1>2, <1>3 DEF QInv, HeldSince
<1>10. OneClaimer'
  BY <1>4 DEF QInv, OneClaimer, Lost
<1>11. Answered
  BY <1>3 DEF Answered
<1>12. RanOutIsLate'
  BY <1>2, <1>3, <1>4, NoneAssumption DEF QInv, RanOutIsLate, ServedBy
<1> QED
  BY <1>5, <1>6, <1>7, <1>8, <1>9, <1>10, <1>11, <1>12 DEF QInv

\* Returning and retrying take a request from its pass, or are quiet.
LEMMA ReturnKeeps ==
    ASSUME QInv, NEW p \in Passes, Return(p) \/ Retry(p)
    PROVE  QInv' /\ Answered
<1>t. /\ pass[p] \in PassRecord /\ PlaceOK(pass[p]) /\ pass[p].listed \subseteq Rows \X Owners \X BOOLEAN
      /\ pass[p].row \in Rows \cup {None}
  BY Typed DEF QInv, PlacesOK
<1>1. CASE UNCHANGED req
  <2>1. QuietStep(p)
    BY <1>1, TakeSteps, RefreshSteps DEF QInv
  <2> QED
    BY <2>1, QuietKeeps
<1>2. CASE Return(p) /\ ~UNCHANGED req
  <2>1. PICK x \in pass[p].listed :
          /\ Holds(x[1], x[2]) /\ Takes(p, x[1], MadeAgain(x), [pass[p] EXCEPT !.listed = @ \ {x}])
          /\ req' = [req EXCEPT ![x[1]] = Released(x[1])]
    BY <1>2 DEF Return
  <2> DEFINE l == pass[p].listed \ {x}
             s == [pass[p] EXCEPT !.listed = l]
  <2>2. /\ x[1] \in Rows /\ l \in SUBSET (Rows \X Owners \X BOOLEAN) /\ pass[p].pc = "return"
        /\ l \subseteq pass[p].listed /\ MadeAgain(x) \in BOOLEAN
        /\ req[x[1]].state = "CLAIMED"
    BY <1>2, <1>t, <2>1 DEF Return, Holds, MadeAgain
  <2>3. Takes(p, x[1], MadeAgain(x), s) /\ UNCHANGED <<digest, evidence, owner, purging, asked, overtaken, faults>>
    BY <1>2, <2>1 DEF Return
  <2> HIDE DEF l
  <2>4. /\ s \in PassRecord /\ s.pc = pass[p].pc /\ s.row = pass[p].row /\ s.late = pass[p].late
        /\ s.robbed = pass[p].robbed /\ s.listed = l
        /\ s.older = pass[p].older /\ s.saw = pass[p].saw
    BY <1>t, <2>2 DEF PassRecord
  <2> HIDE DEF s
  <2>5. Follows(p, s) /\ s.row = None
    BY <1>t, <2>2, <2>4 DEF Follows, PlaceOK, Unserving, Knows
  <2>6. ASSUME NEW q \in Passes, ServedBy(q, x[1])
        PROVE  MadeAgain(x) \/ pass[q].late
    <3>1. x[3] /\ req[x[1]].owner = x[2]
      BY <1>t, <2>1 DEF PlaceOK, Holds
    <3>2. req[x[1]].expired => pass[q].late
      BY <2>2, <2>6 DEF QInv, RanOutIsLate
    <3> QED
      BY <3>1, <3>2 DEF MadeAgain
  <2> QED
    BY <2>1, <2>2, <2>3, <2>4, <2>5, <2>6, TakesKeeps
<1>3. CASE Retry(p) /\ ~UNCHANGED req
  <2>1. /\ Mine(p) /\ Takes(p, pass[p].row, Mistaken(p), IdlePass)
        /\ req' = [req EXCEPT ![pass[p].row] = Released(pass[p].row)]
        /\ UNCHANGED <<digest, evidence, owner, purging, asked, overtaken, faults>>
    BY <1>3 DEF Retry
  <2>2. pass[p].row \in Rows /\ req[pass[p].row].state = "CLAIMED"
    BY <1>3, <1>t, <2>1 DEF Retry, PlaceOK, Unserving, Mine, Holds
  <2>3. Follows(p, IdlePass) /\ IdlePass.row = None /\ IdlePass \in PassRecord
    BY Rests DEF Follows
  <2>4. ASSUME NEW q \in Passes, q # p, ServedBy(q, pass[p].row)
        PROVE  Mistaken(p)
    BY <2>1, <2>2, <2>4 DEF QInv, ServedIsClaimed, Serves, ServedBy, Mistaken, Mine, Holds
  <2>5. Mistaken(p) \in BOOLEAN
    BY DEF Mistaken
  <2> HIDE DEF IdlePass
  <2> QED
    BY <2>1, <2>2, <2>3, <2>4, <2>5, TakesKeeps
<1> QED
  BY <1>1, <1>2, <1>3

\* A lease runs out: the request stays claimed, its pass is late if there is one.
LEMMA LeaseKeeps ==
    ASSUME QInv, NEW r \in Rows, Abandon(r) \/ Outlive(r)
    PROVE  QInv' /\ Answered
<1> DEFINE n == [req[r] EXCEPT !.expired = TRUE]
<1>1. req[r] \in Request /\ req[r].state = "CLAIMED" /\ req' = [req EXCEPT ![r] = n]
      /\ UNCHANGED <<digest, evidence, owner, purging, asked, overtaken>>
  BY Typed DEF QInv, Abandon, Outlive
<1>2. /\ n \in Request /\ n.state = req[r].state /\ n.owner = req[r].owner /\ n.by = req[r].by
      /\ n.since = req[r].since /\ n.expired = TRUE
  BY <1>1 DEF Request
<1> HIDE DEF n
<1>3. /\ req' \in [Rows -> Request]
      /\ \A x \in Rows : /\ req'[x].state = req[x].state /\ req'[x].owner = req[x].owner
                         /\ req'[x].by = req[x].by /\ req'[x].since = req[x].since
                         /\ x # r => req'[x].expired = req[x].expired
  BY <1>1, <1>2, Typed DEF QInv
<1>4. /\ pass' \in [Passes -> PassRecord] /\ faults' \in 0 .. MaxFaults
      /\ \A q \in Passes :
            /\ pass'[q].pc = pass[q].pc /\ pass'[q].row = pass[q].row
            /\ pass'[q].older = pass[q].older /\ pass'[q].saw = pass[q].saw
            /\ pass'[q].found = pass[q].found /\ pass'[q].tries = pass[q].tries
            /\ pass'[q].listed = pass[q].listed /\ pass'[q].robbed = pass[q].robbed
            /\ pass[q].late => pass'[q].late
            /\ ServedBy(q, r) => pass'[q].late
  <2>1. CASE Abandon(r)
    BY <2>1, Typed DEF QInv, Abandon, RestOK, Attended
  <2>2. CASE Outlive(r)
    <3> DEFINE p == req[r].by
               s == [pass[p] EXCEPT !.late = TRUE]
    <3>1. p \in Passes /\ pass[p] \in PassRecord /\ pass \in [Passes -> PassRecord]
          /\ faults \in 0 .. MaxFaults
      BY <2>2, Typed DEF QInv, Outlive, Attended, ServedBy, RestOK
    <3>2. pass' = [pass EXCEPT ![p] = s] /\ faults' = faults + 1 /\ faults < MaxFaults
      BY <2>2 DEF Outlive
    <3> HIDE DEF p
    <3>3. /\ s \in PassRecord /\ s.pc = pass[p].pc /\ s.row = pass[p].row /\ s.late = TRUE
          /\ s.older = pass[p].older /\ s.saw = pass[p].saw
          /\ s.found = pass[p].found /\ s.tries = pass[p].tries
          /\ s.listed = pass[p].listed /\ s.robbed = pass[p].robbed
      BY <3>1 DEF PassRecord
    <3> HIDE DEF s
    <3>4. pass'[p] = s /\ \A q \in Passes : q # p => pass'[q] = pass[q]
      BY <3>1, <3>2
    <3>5. pass' \in [Passes -> PassRecord] /\ faults' \in 0 .. MaxFaults
      BY <3>1, <3>2, <3>3, BoundsAssumption
    <3>6. ASSUME NEW q \in Passes, ServedBy(q, r) PROVE q = p
      BY <3>6 DEF p, ServedBy
    <3> QED
      BY <3>3, <3>4, <3>5, <3>6
  <2> QED
    BY <2>1, <2>2
<1>5. TypeOK'
  BY <1>1, <1>3, <1>4, Typed DEF QInv, TypeOK
<1>6. PlacesOK'
  BY <1>4 DEF QInv, PlacesOK, PlaceOK
<1>7. ServedIsClaimed' /\ OneClaimer'
  BY <1>3, <1>4 DEF QInv, ServedIsClaimed, Serves, OneClaimer, Lost
<1>9. RanOutIsLate'
  BY <1>3, <1>4 DEF QInv, RanOutIsLate, ServedBy
<1>8. OlderIsKnown' /\ HeldSince' /\ Answered
  <2>1. \A q \in Passes : pass[q].older \subseteq Rows /\ Knows(q)' = Knows(q)
    BY <1>1, <1>4, Typed DEF QInv, Knows
  <2> QED
    BY <1>1, <1>3, <1>4, <2>1 DEF QInv, OlderIsKnown, HeldSince, Answered
<1> QED
  BY <1>5, <1>6, <1>7, <1>8, <1>9 DEF QInv

\* The evidence changes: what a pass may resolve was held before.
LEMMA ChangeKeeps ==
    ASSUME QInv, Change
    PROVE  QInv' /\ Answered
<1>1. /\ UNCHANGED <<req, digest, owner, pass, purging, asked, overtaken, faults>>
      /\ evidence.at \in Times /\ evidence.at < MaxEvidence
  BY Typed DEF QInv, Change
<1>2. PICK gone \in BOOLEAN : evidence' = [at |-> evidence.at + 1, gone |-> gone]
  BY DEF Change
<1>3. evidence' \in [at : Times \ {0}, gone : BOOLEAN] /\ evidence'.at = evidence.at + 1
  BY <1>1, <1>2, BoundsAssumption DEF Times
<1>4. /\ TypeOK' /\ PlacesOK' /\ ServedIsClaimed' /\ RanOutIsLate' /\ OneClaimer'
      /\ Answered
  BY <1>1, <1>3 DEF QInv, TypeOK, PlacesOK, ServedIsClaimed, Serves, RanOutIsLate,
     ServedBy, OneClaimer, Lost, Answered
<1>5. HeldSince'
  BY <1>1, <1>3, Typed DEF QInv, HeldSince, Times
<1>6. OlderIsKnown'
  <2> SUFFICES ASSUME NEW q \in Passes, NEW x \in pass[q].older
      PROVE req[x].state = "FREE" \/ (req[x].state = "HELD" /\ req[x].since <= Knows(q)')
    BY <1>1 DEF OlderIsKnown
  <2>1. req[x].since \in Times
    BY Typed DEF QInv
  <2>2. /\ Knows(q) = IF pass[q].pc = "gather" THEN evidence.at ELSE pass[q].saw
        /\ Knows(q)' = IF pass[q].pc = "gather" THEN evidence.at + 1 ELSE pass[q].saw
    BY <1>1, <1>3 DEF Knows
  <2> QED
    BY <1>1, <2>1, <2>2 DEF QInv, OlderIsKnown, Times
<1> QED
  BY <1>4, <1>5, <1>6 DEF QInv

\* The retention sweep takes a reading down before the request that barred it.
LEMMA PurgeKeeps ==
    ASSUME QInv, PurgeList \/ PurgeHeld \/ UNCHANGED vars
    PROVE  QInv' /\ Answered
<1>1. UNCHANGED <<evidence, owner, pass, asked, overtaken, faults>>
  BY DEF PurgeList, PurgeHeld, vars
<1>2. /\ req' \in [Rows -> Request] /\ purging' \in Rows \cup {None}
      /\ digest' \in DigestRow
      /\ \/ UNCHANGED req
         \/ /\ digest'.status # "CURRENT"
            /\ \A r \in Rows : req'[r] = req[r] \/ (req'[r] = NoRow /\ req[r].state = "HELD")
  <2>1. CASE PurgeList
    BY <2>1, Typed DEF QInv, PurgeList, RestOK, In
  <2>2. CASE UNCHANGED vars
    BY <2>2, Typed DEF QInv, vars, RestOK
  <2>3. CASE PurgeHeld
    <3>1. digest' \in DigestRow /\ digest'.status # "CURRENT"
      BY <2>3, Typed DEF QInv, PurgeHeld, RestOK, DigestRow
    <3>2. \A r \in Rows : req'[r] = req[r] \/ (req'[r] = NoRow /\ req[r].state = "HELD")
      BY <2>3, Typed DEF QInv, PurgeHeld
    <3>3. req' \in [Rows -> Request]
      BY <2>3, Typed, Rests DEF QInv, PurgeHeld
    <3> QED
      BY <2>3, <3>1, <3>2, <3>3 DEF PurgeHeld
  <2> QED
    BY <2>1, <2>2, <2>3
<1>3. TypeOK'
  <2>1. \A r \in Rows : req'[r].state = "CLAIMED" <=> req'[r].owner # None
    BY <1>2, Typed, Rests DEF QInv
  <2> QED
    BY <1>1, <1>2, <2>1, Typed DEF QInv, TypeOK, DigestRow
<1>4. PlacesOK' /\ OneClaimer'
  BY <1>1 DEF QInv, PlacesOK, OneClaimer, Lost
<1>5. ServedIsClaimed' /\ RanOutIsLate'
  BY <1>1, <1>2, Rests DEF QInv, ServedIsClaimed, Serves, Lost, RanOutIsLate, ServedBy
<1>6. OlderIsKnown'
  <2>1. \A q \in Passes : pass[q].older \subseteq Rows /\ Knows(q)' = Knows(q)
    BY <1>1, Typed DEF QInv, Knows
  <2> QED
    BY <1>1, <1>2, <2>1, Rests DEF QInv, OlderIsKnown
<1>7. HeldSince'
  BY <1>1, <1>2, Typed, Rests DEF QInv, HeldSince, Times
<1>8. Answered
  BY <1>2 DEF Answered
<1> QED
  BY <1>3, <1>4, <1>5, <1>6, <1>7, <1>8 DEF QInv

\* The initial state: no request, no pass at work.
LEMMA QInvInit == Init => QInv
<1> SUFFICES ASSUME Init PROVE QInv
  OBVIOUS
<1>1. 0 \in Times /\ 1 \in Times /\ 0 \in 0 .. MaxFaults
  BY BoundsAssumption DEF Times
<1>2. TypeOK
  <2>1. /\ evidence \in [at : Times \ {0}, gone : BOOLEAN] /\ digest \in DigestRow
    BY <1>1 DEF Init, DigestRow
  <2>2. /\ req \in [Rows -> Request] /\ pass \in [Passes -> PassRecord]
        /\ \A r \in Rows : req[r].state = "CLAIMED" <=> req[r].owner # None
    BY Rests DEF Init
  <2> QED
    BY <1>1, <2>1, <2>2 DEF Init, TypeOK, DigestRow
<1>3. /\ PlacesOK /\ ServedIsClaimed /\ RanOutIsLate /\ OlderIsKnown /\ HeldSince
      /\ OneClaimer
  BY Rests, NoneAssumption
     DEF Init, PlacesOK, ServedIsClaimed, Serves, RanOutIsLate, OlderIsKnown, HeldSince,
         OneClaimer
<1> QED
  BY <1>2, <1>3 DEF QInv

\* Every step keeps QInv, and answers the requests it takes from HELD.
LEMMA QInvNext == ASSUME QInv, [Next]_vars PROVE QInv' /\ Answered
<1>1. ASSUME NEW p \in Passes, Work(p) \/ StaleFails(p) \/ Throw(p) \/ Die(p)
      PROVE  QInv' /\ Answered
  <2>1. CASE Discover(p) \/ FindAgain(p) \/ Coalesce(p) \/ LoseRace(p) \/ Standing(p)
    BY <2>1, EnqueueSteps, QuietKeeps DEF QInv
  <2>2. CASE Create(p)
    BY <2>2, CreateKeeps
  <2>3. CASE Recover(p) \/ Candidates(p) \/ Fold(p)
    BY <2>3, TakeSteps, QuietKeeps DEF QInv
  <2>4. CASE Claim(p)
    BY <2>4, ClaimKeeps, TakeSteps, QuietKeeps DEF QInv
  <2>5. CASE Return(p) \/ Retry(p)
    BY <2>5, ReturnKeeps
  <2>6. CASE Begin(p)
    BY <2>6, BeginKeeps
  <2>7. CASE \/ Gather(p) \/ StaleTarget(p) \/ StaleFails(p) \/ Compare(p) \/ Reaffirm(p)
             \/ Write(p) \/ Throw(p) \/ Complete(p) \/ Refold(p) \/ Hold(p)
             \/ ResolveSuperseded(p) \/ Die(p)
    BY <2>7, RefreshSteps, QuietKeeps DEF QInv
  <2> QED
    BY <1>1, <2>1, <2>2, <2>3, <2>4, <2>5, <2>6, <2>7 DEF Work, Enqueue, Take,
       Refresh
<1> QED
  BY <1>1, LeaseKeeps, ChangeKeeps, PurgeKeeps DEF Next

-----------------------------------------------------------------------------
\* QInv holds in every state, for any number of requests, passes and lease names.
THEOREM Invariance == Spec => []QInv
<1>1. QInv /\ [Next]_vars => QInv'
  BY QInvNext
<1> QED
  BY <1>1, QInvInit, PTL DEF Spec

\* Every variable keeps its type, and a lease is held exactly while a request is
\* CLAIMED.
THEOREM Types == Spec => []TypeOK
<1>1. QInv => TypeOK
  BY DEF QInv
<1> QED
  BY <1>1, Invariance, PTL

\* A request is owned by one claimer, for any number of requests, passes and lease
\* names, until its lease runs out under one or its claim, still in time, is put back by
\* a pass that acts on an earlier claim of the same lease name (robbed): recoverExpired
\* and retry put back no other, and claim takes none.
THEOREM OneClaimerHolds == Spec => []OneClaimer
<1>1. QInv => OneClaimer
  BY DEF QInv
<1> QED
  BY <1>1, Invariance, PTL

\* resolveSupersededHolds and purgeHeld leave no CURRENT reading that is older than
\* what a HELD request barred.
THEOREM HeldIsAnsweredHolds == Spec => HeldIsAnswered
<1>1. QInv /\ [Next]_vars => [Answered]_vars
  BY QInvNext
<1> QED
  BY <1>1, Invariance, PTL DEF Spec, HeldIsAnswered, Answered

-----------------------------------------------------------------------------
(* The freshness barrier.                                                   *)

\* The places from which the reading may be made CURRENT, and those that come after
\* what the pass saw was compared with it.
Works == {"compare", "reaffirm", "write"}
Compared == {"reaffirm", "complete", "resolve"}

\* A request that is served bars until it is served with what it was made about: its
\* pass is yet to gather, or puts the request back or aside, or saw that much.  One
\* that is about to be folded bars nothing: another one does.
AwareOf(s, a) ==
    \/ s.pc \in {"begin", "gather", "retry", "hold"}
    \/ s.pc # "refold" /\ s.saw >= a
Unaware(r, a) == \E p \in Passes :
    \/ Folding(p, r) /\ ~pass[p].robbed
    \/ req[r].by = p /\ pass[p].row = r /\ ~AwareOf(pass[p], a)
Bars(r, a) ==
    \/ req[r].state = "PENDING"
    \/ req[r].state = "HELD" /\ req[r].since >= a
    \/ req[r].state = "CLAIMED" /\ ~Unaware(r, a)
\* No reading is left CURRENT that knows less than a, unless there is a request.
Barred(a) ==
    \/ overtaken \/ digest.seen >= a
    \/ \E r \in Rows : Bars(r, a)
    \/ digest.status # "CURRENT" /\ \A p \in Passes : pass[p].pc \in Works => pass[p].saw >= a
Asking(p) == pass[p].pc \in {"find", "standing"} \/ (pass[p].pc = "put" /\ pass[p].found # None)
BarredOK == Barred(asked) /\ \A p \in Passes : Asking(p) => Barred(pass[p].asks)

\* What is asked about is there; what was compared with the reading was counted; what a
\* pass makes CURRENT it has seen.
AskedOK == asked <= evidence.at /\ \A p \in Passes : pass[p].asks <= evidence.at
JudgedOK ==
    /\ digest.at <= digest.seen
    /\ \A p \in Passes : pass[p].pc \in Compared => pass[p].saw <= digest.seen
SawOK == \A p \in Passes : pass[p].pc \in Works => pass[p].saw # 0
\* A request to be folded that was put back meanwhile is no more the pass's to fold.
FoldOK == \A p \in Passes : pass[p].pc = "fold" =>
    pass[p].found \in Rows /\ (pass[p].robbed \/ req[pass[p].found].state # "PENDING")
\* Nobody makes the reading CURRENT from what there was before the request that is
\* about to be purged was held.
PurgeOK ==
    \/ purging = None
    \/ /\ req[purging].state \in {"FREE", "HELD"}
       /\ req[purging].state = "HELD" =>
             \A p \in Passes : pass[p].pc \in Works => pass[p].saw >= req[purging].since
FInv == AskedOK /\ JudgedOK /\ SawOK /\ FoldOK /\ PurgeOK /\ BarredOK

\* What a step of p does to the passes ...
Alike(q) ==
    /\ pass'[q].pc = pass[q].pc /\ pass'[q].row = pass[q].row /\ pass'[q].saw = pass[q].saw
    /\ pass'[q].found = pass[q].found /\ pass'[q].asks = pass[q].asks
    /\ pass[q].robbed => pass'[q].robbed
Treads(p) ==
    /\ \A q \in Passes : q # p => Alike(q)
    /\ pass'[p].asks <= evidence.at
    /\ pass'[p].pc \in Works =>
          /\ pass'[p].saw # 0
          /\ pass'[p].saw = evidence.at \/ (pass[p].pc \in Works /\ pass'[p].saw = pass[p].saw)
    /\ pass'[p].pc \in Compared => pass'[p].saw <= digest'.seen
    /\ pass'[p].pc = "fold" => pass'[p].found \in Rows /\ req'[pass'[p].found].state = "CLAIMED"
\* ... to the reading and to what is left alone ...
Judges(p) ==
    /\ UNCHANGED <<evidence, purging>> /\ (overtaken => overtaken')
    /\ digest'.at <= digest'.seen /\ digest.seen <= digest'.seen
    /\ \/ digest'.status = "CURRENT" => digest.status = "CURRENT"
       \/ pass[p].pc \in Works /\ digest'.seen >= pass[p].saw
\* ... and to a request.
Frees(p, r) ==
    \/ req[r].state = "HELD" /\ req[r].since <= digest.seen
    \/ /\ req[r].state = "CLAIMED"
       /\ \/ overtaken' \/ (Folding(p, r) /\ ~pass[p].robbed)
          \/ req[r].by = p /\ pass[p].row = r /\ pass[p].pc \in {"complete", "refold"}
Serving(p, r) ==
    \/ req'[r] = req[r]
    \/ req[r].state = "CLAIMED" /\ Held(r)
    \/ req'[r] = NoRow /\ Frees(p, r)
\* A step of p after which what barred bars still, or is not needed.
Minds(p) ==
    /\ Treads(p) /\ Judges(p) /\ \A r \in Rows : Serving(p, r)
    /\ pass'[p].pc # "fold"
    /\ \/ pass'[p].row = None
       \/ /\ pass'[p].row = pass[p].row /\ pass'[p].pc # "refold"
          /\ \/ pass'[p].pc \in {"gather", "retry", "hold"} \/ pass'[p].saw = evidence.at
             \/ /\ pass[p].pc \notin {"begin", "gather", "retry", "hold"}
                /\ pass'[p].saw = pass[p].saw
    /\ Asking(p)' => (Asking(p) /\ pass'[p].asks = pass[p].asks) \/ In("PENDING") # {}
    /\ \/ asked' = asked
       \/ asked' = Later(asked, pass[p].asks) /\ (Asking(p) \/ In("PENDING") # {})

\* The parts of FInv but the last are kept by any step of a pass that puts no request
\* back but those that nobody is about to fold in time or to purge.
Small == AskedOK /\ JudgedOK /\ SawOK /\ FoldOK /\ PurgeOK

\* Such a step keeps all the parts but the last.
LEMMA SmallKept ==
    ASSUME QInv, QInv', Small, NEW p \in Passes, Treads(p), Judges(p), asked' <= evidence.at,
           \A r \in Rows :
              \/ Serving(p, r)
              \/ req'[r].state = "CLAIMED" /\ req[r].state = "PENDING"
              \/ /\ req'[r].state = "PENDING" /\ r # purging
                 /\ \A q \in Passes : Folding(q, r)' => pass'[q].robbed
    PROVE  Small'
<1>t. /\ evidence.at \in Nat /\ digest.seen \in Nat /\ digest'.seen \in Nat
      /\ digest.at \in Nat /\ digest'.at \in Nat
      /\ \A q \in Passes : /\ pass[q].saw \in Nat /\ pass'[q].saw \in Nat
                           /\ pass[q].asks \in Nat /\ pass'[q].asks \in Nat
      /\ \A r \in Rows : req[r].since \in Nat /\ req'[r].since \in Nat
  <2>1. Times \subseteq Nat
    BY BoundsAssumption DEF Times
  <2>2. digest'.seen \in Times /\ digest'.at \in Times
        /\ \A q \in Passes : pass'[q].saw \in Times /\ pass'[q].asks \in Times
        /\ \A r \in Rows : req'[r].since \in Times
    BY DEF QInv, TypeOK, PassRecord, Request
  <2> QED BY <2>1, <2>2, Typed DEF QInv
<1>1. AskedOK' /\ SawOK'
  BY DEF Small, AskedOK, SawOK, Treads, Judges, Alike
<1>2. JudgedOK'
  BY <1>t DEF Small, JudgedOK, Treads, Judges, Alike
<1>3. \A r \in Rows : req'[r].state = "PENDING" /\ req[r].state # "PENDING" =>
         \A q \in Passes : Folding(q, r)' => pass'[q].robbed
  BY Rests DEF Serving, Held
<1>4. FoldOK'
  BY <1>3 DEF Small, FoldOK, Treads, Alike, Folding
<1>5. PurgeOK'
  <2> SUFFICES ASSUME purging # None
               PROVE  /\ req'[purging].state \in {"FREE", "HELD"}
                      /\ req'[purging].state = "HELD" =>
                            \A q \in Passes : pass'[q].pc \in Works =>
                               pass'[q].saw >= req'[purging].since
    BY DEF PurgeOK, Judges
  <2>1. purging \in Rows /\ req[purging].state \in {"FREE", "HELD"}
    BY DEF Small, PurgeOK, QInv, TypeOK
  <2>2. req'[purging] = req[purging] \/ req'[purging] = NoRow
    BY <2>1 DEF Serving
  <2>3. req[purging].since <= evidence.at
    BY <2>1 DEF QInv, HeldSince
  <2>4. ASSUME req[purging].state = "HELD", NEW q \in Passes, pass'[q].pc \in Works
        PROVE  pass'[q].saw >= req[purging].since
    BY <1>t, <2>1, <2>3, <2>4 DEF Small, PurgeOK, Treads, Alike
  <2> QED BY <2>1, <2>2, <2>4, Rests
<1> QED BY <1>1, <1>2, <1>4, <1>5 DEF Small

\* With a PENDING request everything is barred.
LEMMA PendingBars ==
    ASSUME NEW a
    PROVE  /\ In("PENDING") # {} => Barred(a)
           /\ In("PENDING")' # {} => Barred(a)'
BY DEF Barred, Bars, In

\* What bars goes on barring in a step of a pass that minds it.
LEMMA BarsStay ==
    ASSUME QInv, QInv', Small, NEW p \in Passes, Minds(p), NEW a \in Times, a <= evidence.at,
           NEW r \in Rows, Bars(r, a)
    PROVE  Bars(r, a)' \/ overtaken' \/ digest'.seen >= a
<1>t. /\ a \in Nat /\ evidence.at \in Nat /\ digest.seen \in Nat /\ digest'.seen \in Nat
      /\ req[r].since \in Nat
      /\ \A q \in Passes : pass[q].saw \in Nat /\ pass'[q].saw \in Nat
  <2>1. Times \subseteq Nat
    BY BoundsAssumption DEF Times
  <2>2. digest'.seen \in Times /\ \A q \in Passes : pass'[q].saw \in Times
    BY DEF QInv, TypeOK, PassRecord
  <2> QED BY <2>1, <2>2, Typed DEF QInv
<1>1. digest.seen <= digest'.seen /\ Treads(p)
  BY DEF Minds, Judges
<1>2. CASE req'[r] = req[r]
  <2>1. CASE req[r].state \in {"PENDING", "HELD"}
    BY <1>2, <2>1 DEF Bars
  <2>2. CASE req[r].state = "CLAIMED"
    <3>1. ~Unaware(r, a)
      BY <2>2 DEF Bars
    <3>2. ASSUME NEW q \in Passes, Folding(q, r)', ~pass'[q].robbed PROVE FALSE
      BY <1>1, <3>1, <3>2 DEF Unaware, Folding, Treads, Alike, Minds
    <3>3. ASSUME NEW q \in Passes, req[r].by = q, pass'[q].row = r, ~AwareOf(pass'[q], a)
          PROVE  FALSE
      <4>1. CASE q = p
        BY <1>t, <3>1, <3>3, <4>1, NoneAssumption DEF Minds, Unaware, AwareOf
      <4>2. CASE q # p
        BY <1>1, <3>1, <3>3, <4>2 DEF Unaware, AwareOf, Treads, Alike
      <4> QED BY <4>1, <4>2
    <3> QED BY <1>2, <2>2, <3>2, <3>3 DEF Bars, Unaware
  <2> QED BY <2>1, <2>2 DEF Bars
<1>3. CASE req[r].state = "CLAIMED" /\ Held(r)
  BY <1>3 DEF Held, Bars
<1>4. CASE req'[r] = NoRow /\ Frees(p, r)
  <2>1. CASE req[r].state = "HELD" /\ req[r].since <= digest.seen
    BY <1>t, <1>1, <2>1 DEF Bars
  <2>2. CASE req[r].state = "CLAIMED" /\ req[r].by = p /\ pass[p].row = r
             /\ pass[p].pc \in {"complete", "refold"}
    <3>1. AwareOf(pass[p], a)
      BY <2>2 DEF Bars, Unaware
    <3>2. pass[p].pc = "complete" /\ pass[p].saw >= a
      BY <2>2, <3>1 DEF AwareOf
    <3>3. pass[p].saw <= digest.seen
      BY <3>2 DEF Small, JudgedOK, Compared
    <3> QED BY <1>t, <1>1, <3>2, <3>3
  <2>3. CASE req[r].state = "CLAIMED" /\ Folding(p, r) /\ ~pass[p].robbed
    BY <2>3 DEF Bars, Unaware
  <2> QED BY <1>4, <2>1, <2>2, <2>3 DEF Frees
<1> QED BY <1>2, <1>3, <1>4 DEF Minds, Serving

\* What is barred after a step, named before it.
LEMMA BarredThen ==
    ASSUME NEW a, Barred(a)'
    PROVE  /\ a = asked' => Barred(asked)'
           /\ \A q \in Passes : a = pass'[q].asks => Barred(pass[q].asks)'
BY DEF Barred, Bars, Unaware, AwareOf, Folding

\* So FInv is kept by such a step.
LEMMA MindsKeeps ==
    ASSUME QInv, QInv', FInv, NEW p \in Passes, Minds(p)
    PROVE  FInv'
<1>t. /\ evidence.at \in Nat /\ digest.seen \in Nat /\ digest'.seen \in Nat
      /\ asked \in Times /\ Times \subseteq Nat
      /\ \A q \in Passes : pass[q].saw \in Nat /\ pass[q].asks \in Times /\ pass'[q].saw \in Nat
  <2>1. Times \subseteq Nat
    BY BoundsAssumption DEF Times
  <2>2. digest'.seen \in Times /\ \A q \in Passes : pass'[q].saw \in Times
    BY DEF QInv, TypeOK, PassRecord
  <2> QED BY <2>1, <2>2, Typed DEF QInv, RestOK
<1>a. asked <= evidence.at /\ \A q \in Passes : pass[q].asks <= evidence.at
  BY DEF FInv, AskedOK
<1>1. Small'
  <2>1. asked' <= evidence.at
    BY <1>a, <1>t DEF Minds, Later
  <2> QED BY <2>1, SmallKept DEF FInv, Small, Minds
<1>2. ASSUME NEW a \in Times, a <= evidence.at, Barred(a) PROVE Barred(a)'
  <2>1. CASE overtaken \/ digest.seen >= a
    BY <1>t, <2>1 DEF Minds, Judges, Barred
  <2>2. ASSUME NEW r \in Rows, Bars(r, a) PROVE Barred(a)'
    BY <1>2, <2>2, BarsStay DEF FInv, Small, Barred
  <2>3. CASE /\ digest.status # "CURRENT"
             /\ \A q \in Passes : pass[q].pc \in Works => pass[q].saw >= a
    <3>1. CASE digest'.status = "CURRENT"
      <4>1. pass[p].pc \in Works /\ digest'.seen >= pass[p].saw
        BY <2>3, <3>1 DEF Minds, Judges
      <4> QED BY <1>t, <2>3, <4>1 DEF Barred
    <3>2. CASE digest'.status # "CURRENT"
      <4>1. ASSUME NEW q \in Passes, pass'[q].pc \in Works PROVE pass'[q].saw >= a
        BY <1>2, <1>t, <2>3, <4>1 DEF Minds, Treads, Alike
      <4> QED BY <3>2, <4>1 DEF Barred
    <3> QED BY <3>1, <3>2
  <2> QED BY <1>2, <2>1, <2>2, <2>3 DEF Barred
<1>3. ASSUME NEW a \in Times, a <= evidence.at, In("PENDING") # {} PROVE Barred(a)'
  BY <1>2, <1>3, PendingBars
<1>4. ASSUME NEW q \in Passes, Asking(q)' PROVE Barred(pass[q].asks)'
  <2>1. \/ Asking(q) /\ pass'[q].asks = pass[q].asks
        \/ In("PENDING") # {}
    BY <1>4 DEF Minds, Treads, Alike, Asking
  <2>2. CASE Asking(q) /\ pass'[q].asks = pass[q].asks
    <3>1. PICK a \in Times : a = pass[q].asks /\ a <= evidence.at
      BY <1>a, <1>t
    <3>2. Barred(a)
      BY <2>2, <3>1 DEF FInv, BarredOK
    <3>3. Barred(a)'
      BY <1>2, <3>1, <3>2
    <3> QED BY <2>2, <3>1, <3>3, BarredThen
  <2>3. CASE In("PENDING") # {}
    <3>1. PICK a \in Times : a = pass'[q].asks /\ a <= evidence.at
      <4>1. pass'[q].asks \in Times
        BY DEF QInv, TypeOK, PassRecord
      <4> QED BY <1>1, <4>1 DEF Small, AskedOK, Minds, Judges
    <3> QED BY <1>3, <2>3, <3>1, BarredThen
  <2> QED BY <2>1, <2>2, <2>3
<1>5. Barred(asked)'
  <2>1. PICK a \in Times : a = asked' /\ a <= evidence.at
    <3>1. asked' \in Times
      BY DEF QInv, TypeOK
    <3> QED BY <1>1, <3>1 DEF Small, AskedOK, Minds, Judges
  <2>2. CASE In("PENDING") # {}
    BY <1>3, <2>1, <2>2, BarredThen
  <2>3. CASE a = asked \/ (a = pass[p].asks /\ Asking(p))
    <3>1. Barred(a)
      BY <2>3 DEF FInv, BarredOK
    <3> QED BY <1>2, <2>1, <3>1, BarredThen
  <2> QED BY <2>1, <2>2, <2>3 DEF Minds, Later
<1> QED BY <1>1, <1>4, <1>5 DEF FInv, Small, BarredOK

-----------------------------------------------------------------------------
\* The fields of the record of a pass after a move of it.
LEMMA Shapes ==
    ASSUME TypeOK, NEW p \in Passes
    PROVE  /\ \A s : Moves(p, s) => pass'[p] = s /\ \A q \in Passes : q # p => Alike(q)
           /\ Ends(p) => /\ \A q \in Passes : q # p => Alike(q)
                         /\ pass'[p].pc = "idle" /\ pass'[p].row = None /\ pass'[p].asks = 0
           /\ \A pc : Goes(p, pc) =>
                 /\ \A q \in Passes : q # p => Alike(q)
                 /\ pass'[p].pc = pc /\ pass'[p].row = pass[p].row
                 /\ pass'[p].asks = pass[p].asks /\ pass'[p].saw = pass[p].saw
           /\ \A pc : Settles(p, pc) =>
                 /\ \A q \in Passes : q # p => Alike(q)
                 /\ pass'[p].pc = pc /\ pass'[p].row = pass[p].row /\ pass'[p].asks = 0
           /\ \A why, saw : Verdict(p, why, saw) =>
                 /\ \A q \in Passes : q # p => Alike(q)
                 /\ pass'[p].pc = "stale" /\ pass'[p].row = pass[p].row
                 /\ pass'[p].asks = pass[p].asks /\ pass'[p].saw = saw
           /\ Stands(p) =>
                 /\ \A q \in Passes : q # p => Alike(q)
                 /\ pass'[p].pc = "complete" /\ pass'[p].row = pass[p].row
                 /\ pass'[p].asks = pass[p].asks /\ pass'[p].saw = pass[p].saw
<1>1. ASSUME NEW s, Moves(p, s)
      PROVE  pass'[p] = s /\ \A q \in Passes : q # p => Alike(q)
  BY <1>1 DEF TypeOK, Moves, Alike
<1>2. pass[p] \in PassRecord
  BY DEF TypeOK
<1>3. Ends(p) => pass'[p].pc = "idle" /\ pass'[p].row = None /\ pass'[p].asks = 0
  BY <1>1 DEF Ends, IdlePass
<1>4. \A pc : Goes(p, pc) => /\ pass'[p].pc = pc /\ pass'[p].row = pass[p].row
                             /\ pass'[p].asks = pass[p].asks /\ pass'[p].saw = pass[p].saw
  BY <1>1, <1>2 DEF Goes, PassRecord
<1>5. ASSUME NEW pc, Settles(p, pc)
      PROVE  pass'[p].pc = pc /\ pass'[p].row = pass[p].row /\ pass'[p].asks = 0
  <2>1. pass'[p] = [IdlePass EXCEPT !.pc = pc, !.row = pass[p].row, !.late = pass[p].late,
                                    !.robbed = pass[p].robbed]
    BY <1>1, <1>5 DEF Settles
  <2> QED BY <2>1 DEF IdlePass
<1>6. ASSUME NEW why, NEW saw, Verdict(p, why, saw)
      PROVE  /\ pass'[p].pc = "stale" /\ pass'[p].row = pass[p].row
             /\ pass'[p].asks = pass[p].asks /\ pass'[p].saw = saw
  <2>1. pass'[p] = [pass[p] EXCEPT !.pc = "stale", !.why = why, !.saw = saw, !.older = {},
                                   !.done = FALSE]
    BY <1>1, <1>6 DEF Verdict
  <2> QED BY <1>2, <2>1 DEF PassRecord
<1>7. ASSUME Stands(p)
      PROVE  /\ pass'[p].pc = "complete" /\ pass'[p].row = pass[p].row
             /\ pass'[p].asks = pass[p].asks /\ pass'[p].saw = pass[p].saw
  <2>1. pass'[p] = [pass[p] EXCEPT !.pc = "complete", !.done = TRUE]
    BY <1>1, <1>7 DEF Stands
  <2> QED BY <1>2, <2>1 DEF PassRecord
<1> QED BY <1>1, <1>3, <1>4, <1>5, <1>6, <1>7 DEF Ends, Goes, Settles, Verdict, Stands

\* The reading is left alone.
LEMMA SparesJudges ==
    ASSUME QInv, FInv, NEW p \in Passes, UNCHANGED <<digest, evidence, purging>>,
           overtaken => overtaken'
    PROVE  Judges(p)
BY Typed DEF QInv, Times, Judges, FInv, JudgedOK

\* The steps of enqueue, but for the creation of a request.
LEMMA EnqueueMinds ==
    ASSUME QInv, FInv, NEW p \in Passes,
           Discover(p) \/ FindAgain(p) \/ Coalesce(p) \/ LoseRace(p) \/ Standing(p)
    PROVE  Minds(p)
<1>t. /\ pass[p] \in PassRecord /\ PlaceOK(pass[p]) /\ TypeOK
      /\ evidence.at \in Nat /\ pass[p].asks <= evidence.at
      /\ \A s : Moves(p, s) => pass'[p] = s /\ \A q \in Passes : q # p => Alike(q)
  BY Typed, Shapes DEF QInv, PlacesOK, FInv, AskedOK, Times
<1>1. Judges(p) /\ UNCHANGED req
  BY SparesJudges DEF Discover, FindAgain, Coalesce, LoseRace, Standing, Accepts
<1>2. ASSUME /\ pass'[p].asks <= evidence.at /\ pass'[p].row = None
             /\ pass'[p].pc \notin Works \cup Compared \cup {"fold"}
             /\ \A q \in Passes : q # p => Alike(q)
             /\ Asking(p)' => (Asking(p) /\ pass'[p].asks = pass[p].asks)
                              \/ In("PENDING") # {}
             /\ \/ asked' = asked
                \/ asked' = Later(asked, pass[p].asks) /\ (Asking(p) \/ In("PENDING") # {})
      PROVE  Minds(p)
  BY <1>1, <1>2 DEF Minds, Treads, Serving
<1>3. ASSUME NEW rec \in PassRecord, Finds(p, rec), rec.asks <= evidence.at, rec.row = None,
             rec.found = None \/ (Asking(p) /\ rec.asks = pass[p].asks), UNCHANGED asked
      PROVE  Minds(p)
  <2>1. CASE In("PENDING") = {} /\ Moves(p, [rec EXCEPT !.pc = "put"])
    <3>1. pass'[p] = [rec EXCEPT !.pc = "put"] /\ \A q \in Passes : q # p => Alike(q)
      BY <1>t, <2>1
    <3>2. /\ pass'[p].pc = "put" /\ pass'[p].asks = rec.asks /\ pass'[p].row = None
          /\ pass'[p].found = rec.found
      BY <1>3, <3>1 DEF PassRecord
    <3> QED BY <1>2, <1>3, <3>1, <3>2 DEF Works, Compared, Asking
  <2>2. ASSUME NEW r \in In("PENDING"), Moves(p, [rec EXCEPT !.pc = "put", !.found = r])
        PROVE  Minds(p)
    <3>1. /\ pass'[p] = [rec EXCEPT !.pc = "put", !.found = r]
          /\ \A q \in Passes : q # p => Alike(q)
      BY <1>t, <2>2
    <3>2. pass'[p].pc = "put" /\ pass'[p].asks = rec.asks /\ pass'[p].row = None
      BY <1>3, <3>1 DEF PassRecord
    <3>3. In("PENDING") # {}
      BY <2>2
    <3> QED BY <1>2, <1>3, <3>1, <3>2, <3>3 DEF Works, Compared
  <2> QED BY <1>3, <2>1, <2>2 DEF Finds
<1>4. ASSUME Moves(p, [IdlePass EXCEPT !.pc = "recover"])
      PROVE  /\ pass'[p].pc = "recover" /\ pass'[p].asks = 0 /\ pass'[p].row = None
             /\ \A q \in Passes : q # p => Alike(q)
  BY <1>t, <1>4 DEF IdlePass
<1>5. CASE Discover(p)
  <2>1. CASE Finds(p, [IdlePass EXCEPT !.asks = evidence.at])
    <3> DEFINE s == [IdlePass EXCEPT !.asks = evidence.at]
    <3>1. s.asks = evidence.at /\ s.row = None /\ s.found = None
      BY DEF IdlePass
    <3>2. s \in PassRecord
      BY Rests, Typed DEF QInv, PassRecord
    <3>3. Finds(p, s)
      BY <2>1
    <3> HIDE DEF s
    <3> QED BY <1>3, <1>5, <1>t, <3>1, <3>2, <3>3 DEF Discover
  <2>2. CASE Goes(p, "recover")
    <3>1. /\ pass'[p].pc = "recover" /\ pass'[p].asks = pass[p].asks
          /\ pass'[p].row = pass[p].row /\ \A q \in Passes : q # p => Alike(q)
      BY <1>t, <2>2, Shapes
    <3>2. pass[p].row = None
      BY <1>5, <1>t DEF Discover, PlaceOK, Unserving
    <3> QED BY <1>2, <1>5, <1>t, <3>1, <3>2 DEF Discover, Works, Compared, Asking
  <2> QED BY <1>5, <2>1, <2>2 DEF Discover
<1>6. CASE FindAgain(p)
  <2>1. pass[p].row = None /\ Asking(p)
    BY <1>6, <1>t DEF FindAgain, PlaceOK, Unserving, Asking
  <2> QED BY <1>3, <1>6, <1>t, <2>1 DEF FindAgain
<1>7. CASE Coalesce(p) \/ Standing(p)
  <2>1. Moves(p, [IdlePass EXCEPT !.pc = "recover"])
    BY <1>7 DEF Coalesce, Standing, Accepts
  <2>2. asked' = asked \/ (asked' = Later(asked, pass[p].asks) /\ Asking(p))
    BY <1>7 DEF Coalesce, Standing, Accepts, Asking
  <2> QED BY <1>2, <1>4, <1>t, <2>1, <2>2 DEF Works, Compared, Asking
<1>8. CASE LoseRace(p)
  <2> DEFINE n == pass[p].tries + 1
             pc == IF pass[p].tries < 2 THEN "find" ELSE "standing"
             s == [pass[p] EXCEPT !.found = None, !.tries = n, !.pc = pc]
  <2>1. pc \in {"find", "standing"}
    OBVIOUS
  <2>2. Moves(p, s) /\ pass[p].pc = "put" /\ UNCHANGED asked
    BY <1>8 DEF LoseRace
  <2> HIDE DEF n, pc
  <2>3. s.pc = pc /\ s.asks = pass[p].asks /\ s.row = pass[p].row
    BY <1>t DEF PassRecord
  <2>4. pass'[p] = s /\ \A q \in Passes : q # p => Alike(q)
    BY <1>t, <2>2
  <2> HIDE DEF s
  <2>5. Asking(p) \/ In("PENDING") # {}
    BY <1>8 DEF LoseRace, Asking
  <2>6. pass[p].row = None
    BY <1>t, <2>2 DEF PlaceOK, Unserving
  <2> QED BY <1>2, <1>t, <2>1, <2>2, <2>3, <2>4, <2>5, <2>6 DEF Works, Compared
<1> QED BY <1>5, <1>6, <1>7, <1>8

\* The steps of claim, but for a request that is returned, folded or claimed.
LEMMA TakeMinds ==
    ASSUME QInv, FInv, NEW p \in Passes,
           \/ Recover(p) \/ Candidates(p) \/ Fold(p)
           \/ Return(p) /\ UNCHANGED req /\ pass'[p].pc # "fold"
           \/ Claim(p) /\ ~Claimable(pass[p].found)
    PROVE  Minds(p)
<1>t. /\ pass[p] \in PassRecord /\ PlaceOK(pass[p]) /\ TypeOK
      /\ evidence.at \in Nat /\ pass[p].asks <= evidence.at /\ 0 <= evidence.at
      /\ \A s : Moves(p, s) => pass'[p] = s /\ \A q \in Passes : q # p => Alike(q)
  BY Typed, Shapes DEF QInv, PlacesOK, FInv, AskedOK, Times
<1>1. Judges(p) /\ UNCHANGED asked
  <2>1. UNCHANGED <<digest, evidence, purging, asked>>
    BY DEF Recover, Candidates, Fold, Return, Claim
  <2>2. overtaken => overtaken'
    BY DEF Recover, Candidates, Fold, Return, Claim
  <2> QED BY <2>1, <2>2, SparesJudges
<1>2. ASSUME /\ pass'[p].asks <= evidence.at /\ pass'[p].row = None
             /\ pass'[p].pc \in {"idle", "return", "claim"}
             /\ \A q \in Passes : q # p => Alike(q)
             /\ \A r \in Rows : Serving(p, r)
      PROVE  Minds(p)
  BY <1>1, <1>2 DEF Minds, Treads, Works, Compared, Asking
<1>3. pass[p].row = None
  BY <1>t DEF PlaceOK, Unserving, Recover, Candidates, Fold, Return, Claim
<1>4. CASE Recover(p)
  <2> DEFINE l == {<<r, req[r].owner, req[r].expired>> : r \in Expired}
             s == [pass[p] EXCEPT !.pc = "return", !.listed = l]
  <2>1. pass'[p] = s /\ \A q \in Passes : q # p => Alike(q)
    BY <1>4, <1>t DEF Recover
  <2> HIDE DEF l
  <2>2. s.pc = "return" /\ s.asks = pass[p].asks /\ s.row = pass[p].row
    BY <1>t DEF PassRecord
  <2> HIDE DEF s
  <2> QED BY <1>2, <1>3, <1>4, <1>t, <2>1, <2>2 DEF Recover, Serving
<1>5. CASE Candidates(p)
  <2>1. CASE Ends(p)
    BY <1>2, <1>5, <1>t, <2>1, Shapes DEF Candidates, Serving
  <2>2. ASSUME NEW r \in In("PENDING"), Moves(p, [pass[p] EXCEPT !.pc = "claim", !.found = r])
        PROVE  Minds(p)
    <3>1. /\ pass'[p] = [pass[p] EXCEPT !.pc = "claim", !.found = r]
          /\ \A q \in Passes : q # p => Alike(q)
      BY <1>t, <2>2
    <3>2. pass'[p].pc = "claim" /\ pass'[p].asks = pass[p].asks /\ pass'[p].row = pass[p].row
      BY <1>t, <3>1 DEF PassRecord
    <3> QED BY <1>2, <1>3, <1>5, <1>t, <3>1, <3>2 DEF Candidates, Serving
  <2> QED BY <1>5, <2>1, <2>2 DEF Candidates
<1>6. CASE Fold(p)
  <2>1. /\ pass'[p] = [pass[p] EXCEPT !.pc = "return", !.found = None, !.whose = None,
                                      !.robbed = FALSE]
        /\ \A q \in Passes : q # p => Alike(q)
    BY <1>6, <1>t DEF Fold
  <2>2. pass'[p].pc = "return" /\ pass'[p].asks = pass[p].asks /\ pass'[p].row = pass[p].row
    BY <1>t, <2>1 DEF PassRecord
  <2>3. ASSUME NEW r \in Rows PROVE Serving(p, r)
    <3>1. req \in [Rows -> Request]
      BY <1>t DEF TypeOK
    <3>2. CASE r = pass[p].found /\ Holds(r, pass[p].whose)
      <4>1. req'[r] = NoRow /\ req[r].state = "CLAIMED" /\ Folding(p, r)
        BY <1>6, <3>1, <3>2 DEF Fold, Holds, Folding
      <4>2. overtaken' \/ ~pass[p].robbed
        BY <1>6, <3>2 DEF Fold
      <4> QED BY <4>1, <4>2 DEF Serving, Frees
    <3>3. CASE ~(r = pass[p].found /\ Holds(r, pass[p].whose))
      BY <1>6, <3>1, <3>3 DEF Fold, Serving
    <3> QED BY <3>2, <3>3
  <2> QED BY <1>2, <1>3, <1>t, <2>1, <2>2, <2>3
<1>7. CASE Return(p) /\ UNCHANGED req /\ pass'[p].pc # "fold"
  <2>1. PICK x \in pass[p].listed :
          \/ Moves(p, [pass[p] EXCEPT !.pc = "fold", !.listed = @ \ {x},
                                      !.found = x[1], !.whose = x[2]])
          \/ Holds(x[1], x[2]) /\ req' = [req EXCEPT ![x[1]] = Released(x[1])]
          \/ Moves(p, [pass[p] EXCEPT !.listed = @ \ {x}])
    BY <1>7 DEF Return
  <2>2. x[1] \in Rows
    BY <1>t DEF PassRecord
  <2>3. ~(Holds(x[1], x[2]) /\ req' = [req EXCEPT ![x[1]] = Released(x[1])])
    <3> SUFFICES ASSUME Holds(x[1], x[2]), req' = [req EXCEPT ![x[1]] = Released(x[1])]
                 PROVE FALSE
      OBVIOUS
    <3>1. Released(x[1]).state = "PENDING" /\ req[x[1]].state = "CLAIMED"
      BY Typed, <1>t, <2>2 DEF Released, Holds, Request
    <3> QED
      BY <1>7, <2>2, <3>1, <1>t DEF TypeOK
  <2> DEFINE l == pass[p].listed \ {x}
             a == [pass[p] EXCEPT !.pc = "fold", !.listed = l, !.found = x[1], !.whose = x[2]]
             b == [pass[p] EXCEPT !.listed = l]
  <2>4. (pass'[p] = a \/ pass'[p] = b) /\ \A q \in Passes : q # p => Alike(q)
    BY <1>t, <2>1, <2>3
  <2>5. pass[p].pc = "return"
    BY <1>7 DEF Return
  <2> HIDE DEF l
  <2>6. a.pc = "fold" /\ b.pc = "return" /\ b.asks = pass[p].asks /\ b.row = pass[p].row
    BY <1>t, <2>5 DEF PassRecord
  <2> HIDE DEF a, b
  <2> QED BY <1>2, <1>3, <1>7, <1>t, <2>4, <2>6 DEF Serving
<1>8. CASE Claim(p) /\ ~Claimable(pass[p].found)
  <2>1. Ends(p) /\ UNCHANGED req
    BY <1>8 DEF Claim
  <2> QED BY <1>2, <1>t, <2>1, Shapes DEF Serving
<1> QED BY <1>4, <1>5, <1>6, <1>7, <1>8

\* The steps of a refresh, but for a request that is put back or about to be folded.
LEMMA RefreshMinds ==
    ASSUME QInv, FInv, NEW p \in Passes,
           \/ Begin(p) \/ Gather(p) \/ StaleTarget(p) \/ StaleFails(p) \/ Compare(p)
           \/ Reaffirm(p) \/ Write(p) \/ Throw(p) \/ Complete(p) \/ Refold(p) \/ Hold(p)
           \/ ResolveSuperseded(p) \/ Die(p)
           \/ Retry(p) /\ Ends(p) /\ UNCHANGED req
    PROVE  Minds(p)
<1> DEFINE Saw == pass'[p].saw = pass[p].saw
                  /\ pass[p].pc \notin {"begin", "gather", "retry", "hold"}
<1>t. /\ pass[p] \in PassRecord /\ PlaceOK(pass[p]) /\ TypeOK
      /\ evidence.at \in Nat /\ pass[p].asks <= evidence.at /\ 0 <= evidence.at
      /\ evidence.at # 0 /\ digest.seen \in Nat /\ digest.at \in Nat /\ pass[p].saw \in Nat
      /\ digest.at <= digest.seen
      /\ pass[p].pc \in Compared => pass[p].saw <= digest.seen
      /\ pass[p].pc \in Works => pass[p].saw # 0
  <2>1. \A n \in Times : n \in Nat /\ 0 <= n
    BY BoundsAssumption DEF Times
  <2>2. /\ pass[p] \in PassRecord /\ PlaceOK(pass[p]) /\ TypeOK
        /\ evidence.at \in Times /\ digest.seen \in Times /\ digest.at \in Times
        /\ pass[p].saw \in Times /\ evidence.at # 0
    BY Typed DEF QInv, PlacesOK
  <2>3. pass[p].asks <= evidence.at /\ digest.at <= digest.seen
    BY DEF FInv, AskedOK, JudgedOK
  <2>4. /\ pass[p].pc \in Compared => pass[p].saw <= digest.seen
        /\ pass[p].pc \in Works => pass[p].saw # 0
    BY DEF FInv, JudgedOK, SawOK
  <2>5. /\ evidence.at \in Nat /\ 0 <= evidence.at /\ digest.seen \in Nat
        /\ digest.at \in Nat /\ pass[p].saw \in Nat
    BY <2>1, <2>2
  <2> QED BY <2>2, <2>3, <2>4, <2>5
<1>r. req \in [Rows -> Request]
  BY <1>t DEF TypeOK
<1>1. ASSUME /\ Judges(p) /\ UNCHANGED asked /\ \A r \in Rows : Serving(p, r)
             /\ \A q \in Passes : q # p => Alike(q)
             /\ pass'[p].asks <= evidence.at
             /\ pass'[p].row = None \/ pass'[p].row = pass[p].row
             /\ \/ pass'[p].pc = "idle" /\ pass'[p].row = None
                \/ pass'[p].pc \in {"gather", "retry", "hold"}
                \/ pass'[p].pc = "stale" /\ (Saw \/ pass'[p].saw = evidence.at)
                \/ pass'[p].pc \in {"complete", "resolve", "reaffirm"} /\ Saw
                   /\ pass'[p].saw <= digest'.seen
                   /\ (pass'[p].pc = "reaffirm" => pass[p].pc = "compare")
                \/ pass'[p].pc = "compare" /\ pass'[p].saw = evidence.at
                \/ pass'[p].pc = "write" /\ Saw /\ pass[p].pc = "compare"
      PROVE  Minds(p)
  <2>1. Treads(p)
    BY <1>1, <1>t DEF Treads, Works, Compared
  <2> QED BY <1>1, <2>1 DEF Minds, Asking
<1>2. ASSUME UNCHANGED req PROVE \A r \in Rows : Serving(p, r)
  BY <1>2 DEF Serving
<1>3. ASSUME UNCHANGED <<digest, evidence, purging>>, overtaken => overtaken'
      PROVE  Judges(p)
  BY <1>3, SparesJudges
<1>4. ASSUME NEW status, NEW at, Judged(p, status, at), UNCHANGED <<evidence, purging>>,
             at \in Nat, at <= digest.seen \/ at = pass[p].saw,
             status = "CURRENT" => digest.status = "CURRENT" \/ pass[p].pc \in Works
      PROVE  Judges(p) /\ digest'.seen >= pass[p].saw
  <2>1. /\ digest'.status = status /\ digest'.at = at
        /\ digest'.seen = Later(digest.seen, pass[p].saw)
        /\ overtaken => overtaken'
    BY <1>4 DEF Judged
  <2>2. digest'.seen >= digest.seen /\ digest'.seen >= pass[p].saw /\ digest'.seen \in Nat
    BY <1>t, <2>1 DEF Later
  <2>3. digest'.at <= digest'.seen
    BY <1>4, <1>t, <2>1, <2>2
  <2> QED BY <1>4, <2>1, <2>2, <2>3 DEF Judges
<1>5. CASE Begin(p)
  <2>1. /\ pass'[p] = [pass[p] EXCEPT !.pc = "gather", !.older = In("HELD")]
        /\ \A q \in Passes : q # p => Alike(q)
    BY <1>5, <1>t, Shapes DEF Begin
  <2>2. pass'[p].pc = "gather" /\ pass'[p].asks = pass[p].asks /\ pass'[p].row = pass[p].row
    BY <1>t, <2>1 DEF PassRecord
  <2> QED BY <1>1, <1>2, <1>3, <1>5, <1>t, <2>1, <2>2 DEF Begin
<1>6. CASE Gather(p)
  <2>1. CASE Verdict(p, "unfit", evidence.at) \/ Verdict(p, "nothing", evidence.at)
             \/ Retries(p, evidence.at)
    <3>1. /\ pass'[p].pc \in {"retry", "stale"} /\ pass'[p].row = pass[p].row
          /\ pass'[p].asks <= evidence.at /\ \A q \in Passes : q # p => Alike(q)
          /\ pass'[p].pc = "stale" => pass'[p].saw = evidence.at
      BY <1>t, <2>1, Shapes DEF Retries
    <3> QED BY <1>1, <1>2, <1>3, <1>6, <3>1 DEF Gather
  <2>2. CASE Moves(p, [pass[p] EXCEPT !.pc = "compare", !.saw = evidence.at])
    <3>1. /\ pass'[p] = [pass[p] EXCEPT !.pc = "compare", !.saw = evidence.at]
          /\ \A q \in Passes : q # p => Alike(q)
      BY <1>t, <2>2, Shapes
    <3>2. /\ pass'[p].pc = "compare" /\ pass'[p].asks = pass[p].asks
          /\ pass'[p].row = pass[p].row /\ pass'[p].saw = evidence.at
      BY <1>t, <3>1 DEF PassRecord
    <3> QED BY <1>1, <1>2, <1>3, <1>6, <1>t, <3>1, <3>2 DEF Gather
  <2> QED BY <1>6, <2>1, <2>2 DEF Gather
<1>7. CASE StaleTarget(p)
  <2>1. Judges(p) /\ digest'.seen >= pass[p].saw
    BY <1>4, <1>7, <1>t DEF StaleTarget, MarkStale
  <2>2. ASSUME Moves(p, [pass[p] EXCEPT !.pc = "complete", !.why = None])
        PROVE  /\ pass'[p].pc = "complete" /\ pass'[p].asks = pass[p].asks
               /\ pass'[p].row = pass[p].row /\ pass'[p].saw = pass[p].saw
               /\ \A q \in Passes : q # p => Alike(q)
    <3>1. /\ pass'[p] = [pass[p] EXCEPT !.pc = "complete", !.why = None]
          /\ \A q \in Passes : q # p => Alike(q)
      BY <1>t, <2>2, Shapes
    <3> QED BY <1>t, <3>1 DEF PassRecord
  <2>3. CASE pass[p].why = "nothing"
    BY <1>1, <1>2, <1>7, <1>t, <2>1, <2>2, <2>3 DEF StaleTarget
  <2>4. CASE Settles(p, "hold")
    BY <1>1, <1>2, <1>7, <1>t, <2>1, <2>4, Shapes DEF StaleTarget
  <2> QED BY <1>7, <2>3, <2>4 DEF StaleTarget
<1>8. CASE StaleFails(p) \/ Throw(p)
  <2>1. Retries(p, pass[p].saw) \/ Settles(p, "hold")
    BY <1>8 DEF StaleFails, Throw
  <2>2. /\ pass'[p].pc \in {"retry", "hold", "stale"} /\ pass'[p].row = pass[p].row
        /\ pass'[p].asks <= evidence.at /\ \A q \in Passes : q # p => Alike(q)
        /\ pass'[p].pc = "stale" => pass'[p].saw = pass[p].saw
    BY <1>t, <2>1, Shapes DEF Retries
  <2>3. pass[p].pc \in {"stale", "compare", "reaffirm", "write", "complete"}
    BY <1>8 DEF StaleFails, Throw
  <2> QED BY <1>1, <1>2, <1>3, <1>8, <2>2, <2>3 DEF StaleFails, Throw
<1>9. CASE Compare(p)
  <2>1. pass[p].pc = "compare" /\ UNCHANGED <<req, evidence, purging, asked, overtaken>>
    BY <1>9 DEF Compare
  <2>2. CASE digest.at = pass[p].saw /\ Stands(p) /\ UNCHANGED digest
    BY <1>1, <1>2, <1>3, <1>t, <2>1, <2>2, Shapes
  <2>3. CASE digest.at = pass[p].saw /\ Goes(p, "reaffirm") /\ UNCHANGED digest
    BY <1>1, <1>2, <1>3, <1>t, <2>1, <2>3, Shapes
  <2>4. CASE /\ digest' = [digest EXCEPT !.seen = Later(digest.seen, pass[p].saw)]
             /\ Moves(p, [pass[p] EXCEPT !.pc = "complete", !.older = {}])
    <3>1. digest \in DigestRow
      BY <1>t, Typed DEF RestOK
    <3>2. /\ digest'.status = digest.status /\ digest'.at = digest.at
          /\ digest'.seen = Later(digest.seen, pass[p].saw)
      BY <2>4, <3>1 DEF DigestRow
    <3>3. Judges(p) /\ digest'.seen >= pass[p].saw
      BY <1>t, <2>1, <3>2 DEF Judges, Later
    <3>4. /\ pass'[p] = [pass[p] EXCEPT !.pc = "complete", !.older = {}]
          /\ \A q \in Passes : q # p => Alike(q)
      BY <1>t, <2>4, Shapes
    <3>5. /\ pass'[p].pc = "complete" /\ pass'[p].asks = pass[p].asks
          /\ pass'[p].row = pass[p].row /\ pass'[p].saw = pass[p].saw
      BY <1>t, <3>4 DEF PassRecord
    <3> QED BY <1>1, <1>2, <1>t, <2>1, <3>3, <3>4, <3>5
  <2>5. CASE Goes(p, "write") /\ UNCHANGED digest
    BY <1>1, <1>2, <1>3, <1>t, <2>1, <2>5, Shapes
  <2> QED BY <1>9, <2>2, <2>3, <2>4, <2>5 DEF Compare
<1>10. CASE Reaffirm(p)
  <2>1. pass[p].pc = "reaffirm" /\ UNCHANGED <<req, evidence, purging, asked>> /\ Stands(p)
    BY <1>10 DEF Reaffirm
  <2>2. Judges(p) /\ digest'.seen >= pass[p].saw
    <3>1. CASE Judged(p, "CURRENT", digest.at)
      BY <1>4, <1>t, <2>1, <3>1 DEF Works
    <3>2. CASE UNCHANGED <<digest, overtaken>>
      BY <1>3, <1>t, <2>1, <3>2 DEF Compared
    <3> QED BY <1>10, <3>1, <3>2 DEF Reaffirm
  <2> QED BY <1>1, <1>2, <1>t, <2>1, <2>2, Shapes
<1>11. CASE Write(p)
  <2>1. pass[p].pc = "write" /\ UNCHANGED <<req, evidence, purging, asked>>
    BY <1>11 DEF Write
  <2>2. CASE Judged(p, "CURRENT", pass[p].saw) /\ Stands(p)
    <3>1. Judges(p) /\ digest'.seen >= pass[p].saw
      BY <1>4, <1>t, <2>1, <2>2 DEF Works
    <3> QED BY <1>1, <1>2, <1>t, <2>1, <2>2, <3>1, Shapes
  <2>3. CASE /\ Verdict(p, "unfit", pass[p].saw) \/ Retries(p, pass[p].saw)
             /\ UNCHANGED <<digest, overtaken>>
    <3>1. /\ pass'[p].pc \in {"retry", "stale"} /\ pass'[p].row = pass[p].row
          /\ pass'[p].asks <= evidence.at /\ \A q \in Passes : q # p => Alike(q)
          /\ pass'[p].pc = "stale" => pass'[p].saw = pass[p].saw
      BY <1>t, <2>3, Shapes DEF Retries
    <3> QED BY <1>1, <1>2, <1>3, <2>1, <2>3, <3>1
  <2> QED BY <1>11, <2>2, <2>3 DEF Write
<1>12. CASE Complete(p) \/ Refold(p)
  <2>1. /\ pass[p].pc \in {"complete", "refold"}
        /\ UNCHANGED <<digest, evidence, purging, asked>>
        /\ overtaken' = (overtaken \/ Robs(p))
        /\ req' = IF Mine(p) THEN [req EXCEPT ![pass[p].row] = NoRow] ELSE req
    BY <1>12 DEF Complete, Refold
  <2>2. ASSUME NEW r \in Rows PROVE Serving(p, r)
    <3>1. CASE r = pass[p].row /\ Mine(p)
      <4>1. req'[r] = NoRow /\ req[r].state = "CLAIMED"
        BY <1>r, <2>1, <3>1 DEF Mine, Holds
      <4>2. overtaken' \/ req[r].by = p
        BY <2>1, <3>1 DEF Robs
      <4> QED BY <2>1, <3>1, <4>1, <4>2 DEF Serving, Frees
    <3>2. CASE ~(r = pass[p].row /\ Mine(p))
      BY <1>r, <2>1, <3>2 DEF Serving
    <3> QED BY <3>1, <3>2
  <2>3. Ends(p) \/ (pass[p].pc = "complete" /\ Goes(p, "resolve"))
    BY <1>12 DEF Complete, Refold
  <2>4. Judges(p)
    BY <1>3, <2>1
  <2>5. CASE Ends(p)
    BY <1>1, <1>t, <2>1, <2>2, <2>4, <2>5, Shapes
  <2>6. CASE pass[p].pc = "complete" /\ Goes(p, "resolve")
    <3>1. pass[p].saw <= digest'.seen
      BY <1>t, <2>1, <2>6 DEF Compared
    <3> QED BY <1>1, <1>t, <2>1, <2>2, <2>4, <2>6, <3>1, Shapes
  <2> QED BY <2>3, <2>5, <2>6
<1>13. CASE Hold(p)
  <2> DEFINE h == [NoRow EXCEPT !.state = "HELD", !.since = evidence.at]
  <2>1. h.state = "HELD" /\ h.since = evidence.at /\ h.owner = None
    BY DEF NoRow
  <2>2. req' = IF Mine(p) THEN [req EXCEPT ![pass[p].row] = h] ELSE req
    BY <1>13 DEF Hold
  <2> HIDE DEF h
  <2>3. \A r \in Rows : Serving(p, r)
    BY <1>r, <2>1, <2>2 DEF Serving, Held, Mine, Holds
  <2> QED BY <1>1, <1>3, <1>13, <1>t, <2>3, Shapes DEF Hold
<1>14. CASE ResolveSuperseded(p)
  <2>1. pass[p].pc = "resolve" /\ UNCHANGED <<digest, evidence, purging, asked, overtaken>>
    BY <1>14 DEF ResolveSuperseded
  <2>2. ASSUME NEW r \in Rows PROVE Serving(p, r)
    <3>1. CASE req'[r] = req[r]
      BY <3>1 DEF Serving
    <3>2. CASE req'[r] # req[r]
      <4>1. req'[r] = NoRow /\ req[r].state = "HELD" /\ r \in pass[p].older
        BY <1>14, <1>r, <3>2 DEF ResolveSuperseded, Superseded, In
      <4>2. req[r].since <= pass[p].saw /\ req[r].since \in Nat
        BY <2>1, <4>1, Typed DEF QInv, OlderIsKnown, Knows, Times
      <4>3. pass[p].saw <= digest.seen
        BY <1>t, <2>1 DEF Compared
      <4> QED BY <1>t, <4>1, <4>2, <4>3 DEF Serving, Frees
    <3> QED BY <3>1, <3>2
  <2> QED BY <1>1, <1>3, <1>14, <1>t, <2>1, <2>2, Shapes DEF ResolveSuperseded
<1>15. CASE Die(p)
  BY <1>1, <1>2, <1>3, <1>15, <1>t, Shapes DEF Die
<1>16. CASE Retry(p) /\ Ends(p) /\ UNCHANGED req
  BY <1>1, <1>2, <1>3, <1>16, <1>t, Shapes DEF Retry
<1> QED BY <1>5, <1>6, <1>7, <1>8, <1>9, <1>10, <1>11, <1>12, <1>13, <1>14, <1>15, <1>16

\* The steps that leave a request PENDING.
LEMMA PendingKeeps ==
    ASSUME QInv, QInv', FInv, NEW p \in Passes, Treads(p), Judges(p), asked' <= evidence.at,
           \A r \in Rows :
              \/ req'[r] = req[r]
              \/ /\ req'[r].state = "PENDING" /\ r # purging
                 /\ \A q \in Passes : Folding(q, r)' => pass'[q].robbed,
           \E r \in Rows : req'[r].state = "PENDING"
    PROVE  FInv'
<1>1. Small'
  BY SmallKept DEF FInv, Small, Serving
<1>2. In("PENDING")' # {}
  BY DEF In
<1>3. Barred(asked)' /\ \A q \in Passes : Barred(pass[q].asks)'
  BY <1>2 DEF Barred, Bars, In
<1> QED BY <1>1, <1>3 DEF FInv, Small, BarredOK

\* A request is created.
LEMMA CreateMinds ==
    ASSUME QInv, QInv', FInv, NEW p \in Passes, Create(p)
    PROVE  FInv'
<1>1. PICK r \in In("FREE") \ Remembered :
         req' = [req EXCEPT ![r] = [NoRow EXCEPT !.state = "PENDING"]]
  BY DEF Create
<1>2. /\ Moves(p, [IdlePass EXCEPT !.pc = "recover"])
      /\ UNCHANGED <<digest, evidence, purging, overtaken>>
      /\ asked' = Later(asked, pass[p].asks)
  BY DEF Create, Accepts
<1>3. /\ pass'[p] = [IdlePass EXCEPT !.pc = "recover"]
      /\ \A q \in Passes : q # p => Alike(q)
  BY <1>2, Shapes DEF QInv
<1>4. pass'[p].pc = "recover" /\ pass'[p].asks = 0
  BY <1>3 DEF IdlePass
<1>5. Judges(p)
  BY <1>2, SparesJudges
<1>6. asked' <= evidence.at /\ 0 <= evidence.at
  BY <1>2, Typed DEF FInv, AskedOK, QInv, Later, Times
<1>7. Treads(p)
  BY <1>3, <1>4, <1>6 DEF Treads, Works, Compared
<1>8. /\ r \in Rows /\ r # purging /\ \A q \in Passes : pass[q].found # r
      /\ req'[r].state = "PENDING" /\ \A x \in Rows : x # r => req'[x] = req[x]
  <2>1. r \in Rows /\ r \notin Remembered
    BY <1>1 DEF In
  <2>2. req'[r] = [NoRow EXCEPT !.state = "PENDING"] /\ \A x \in Rows : x # r => req'[x] = req[x]
    BY <1>1, <2>1 DEF QInv, TypeOK
  <2>3. r # purging /\ \A q \in Passes : pass[q].found # r
    BY <2>1 DEF Remembered
  <2> QED BY <2>1, <2>2, <2>3 DEF NoRow
<1>9. \A q \in Passes : ~Folding(q, r)'
  BY <1>3, <1>4, <1>8 DEF Folding, Alike
<1> QED BY <1>5, <1>6, <1>7, <1>8, <1>9, PendingKeeps

\* A request is put back, and taken from the pass that was to fold it.
LEMMA TakesMinds ==
    ASSUME QInv, QInv', FInv, NEW p \in Passes, NEW r \in Rows, req[r].state = "CLAIMED",
           NEW s, NEW m \in BOOLEAN, Takes(p, r, m, s), s.pc \in {"idle", "return"}, s.asks <= evidence.at,
           req' = [req EXCEPT ![r] = Released(r)],
           UNCHANGED <<digest, evidence, purging, asked, overtaken>>
    PROVE  FInv'
<1>1. pass'[p] = s /\ \A q \in Passes : q # p => Alike(q) /\ (Folding(q, r) => pass'[q].robbed)
  <2>1. pass'[p] = s
    BY DEF Takes
  <2>2. ASSUME NEW q \in Passes, q # p
        PROVE  Alike(q) /\ (Folding(q, r) => pass'[q].robbed)
    <3>1. pass'[q] = [pass[q] EXCEPT !.robbed = \/ pass[q].robbed \/ Folding(q, r)
                                                \/ (m /\ ServedBy(q, r))]
      BY <2>2 DEF Takes
    <3>2. pass[q] \in PassRecord
      BY Typed DEF QInv
    <3> QED BY <3>1, <3>2 DEF PassRecord, Alike
  <2> QED BY <2>1, <2>2
<1>2. Judges(p) /\ asked' <= evidence.at
  BY SparesJudges DEF FInv, AskedOK
<1>3. Treads(p)
  BY <1>1 DEF Treads, Works, Compared
<1>4. /\ req'[r].state = "PENDING" /\ \A x \in Rows : x # r => req'[x] = req[x]
      /\ r # purging
  <2>1. req[r] \in Request /\ req \in [Rows -> Request]
    BY Typed DEF QInv
  <2>2. Released(r).state = "PENDING"
    BY <2>1 DEF Released, Request
  <2>3. r # purging
    BY NoneAssumption DEF FInv, PurgeOK
  <2> QED BY <2>1, <2>2, <2>3
<1>5. ASSUME NEW q \in Passes, Folding(q, r)' PROVE pass'[q].robbed
  BY <1>1, <1>5 DEF Folding, Alike
<1> QED BY <1>2, <1>3, <1>4, <1>5, PendingKeeps

\* Returning and retrying.
LEMMA ReturnMinds ==
    ASSUME QInv, QInv', FInv, NEW p \in Passes, Return(p) \/ Retry(p)
    PROVE  FInv'
<1>t. /\ pass[p] \in PassRecord /\ PlaceOK(pass[p]) /\ TypeOK
      /\ pass[p].asks <= evidence.at /\ 0 <= evidence.at
      /\ \A s : Moves(p, s) => pass'[p] = s /\ \A q \in Passes : q # p => Alike(q)
  BY Typed, Shapes DEF QInv, PlacesOK, FInv, AskedOK, Times
<1>1. /\ UNCHANGED <<digest, evidence, purging, asked, overtaken>>
      /\ Judges(p) /\ asked' <= evidence.at
  <2>1. UNCHANGED <<digest, evidence, purging, asked, overtaken>>
    BY DEF Return, Retry
  <2>2. asked <= evidence.at
    BY DEF FInv, AskedOK
  <2> QED BY <2>1, <2>2, SparesJudges
<1>2. CASE Return(p)
  <2> DEFINE l(x) == pass[p].listed \ {x}
             a(x) == [pass[p] EXCEPT !.pc = "fold", !.listed = l(x),
                                     !.found = x[1], !.whose = x[2]]
             b(x) == [pass[p] EXCEPT !.listed = l(x)]
  <2>1. PICK x \in pass[p].listed :
          \/ /\ Holds(x[1], x[2]) /\ In("PENDING") # {} /\ UNCHANGED req
             /\ Moves(p, a(x))
          \/ /\ Holds(x[1], x[2]) /\ req' = [req EXCEPT ![x[1]] = Released(x[1])]
             /\ Takes(p, x[1], MadeAgain(x), b(x))
          \/ UNCHANGED req /\ Moves(p, b(x))
    BY <1>2 DEF Return
  <2>2. x[1] \in Rows /\ pass[p].pc = "return"
    BY <1>2, <1>t DEF Return, PassRecord
  <2> HIDE DEF l
  <2>3. /\ a(x).pc = "fold" /\ a(x).asks = pass[p].asks /\ a(x).found = x[1]
        /\ b(x).pc = "return" /\ b(x).asks = pass[p].asks
    BY <1>t, <2>2 DEF PassRecord
  <2> HIDE DEF a, b
  <2>4. CASE UNCHANGED req /\ Moves(p, a(x)) /\ Holds(x[1], x[2]) /\ In("PENDING") # {}
    <3>1. Treads(p)
      BY <1>t, <2>2, <2>3, <2>4 DEF Treads, Works, Compared, Holds
    <3> QED BY <1>1, <2>4, <3>1, PendingKeeps DEF In
  <2>5. CASE UNCHANGED req /\ Moves(p, b(x))
    <3>1. pass'[p].pc = "return"
      BY <1>t, <2>3, <2>5
    <3> QED BY <1>2, <2>5, <3>1, TakeMinds, MindsKeeps
  <2>6. CASE /\ Holds(x[1], x[2]) /\ req' = [req EXCEPT ![x[1]] = Released(x[1])]
             /\ Takes(p, x[1], MadeAgain(x), b(x))
    <3>1. MadeAgain(x) \in BOOLEAN /\ req[x[1]].state = "CLAIMED"
      BY <2>6 DEF MadeAgain, Holds
    <3> QED BY <1>1, <1>t, <2>2, <2>3, <2>6, <3>1, TakesMinds
  <2> QED BY <2>1, <2>4, <2>5, <2>6
<1>3. CASE Retry(p)
  <2>1. CASE Goes(p, "refold") /\ UNCHANGED req /\ In("PENDING") # {}
    <3>1. Treads(p)
      BY <1>t, <2>1, Shapes DEF Treads, Works, Compared
    <3> QED BY <1>1, <2>1, <3>1, PendingKeeps DEF In
  <2>2. CASE Ends(p) /\ UNCHANGED req
    BY <1>3, <2>2, RefreshMinds, MindsKeeps
  <2>3. CASE /\ Mine(p) /\ Takes(p, pass[p].row, Mistaken(p), IdlePass)
             /\ req' = [req EXCEPT ![pass[p].row] = Released(pass[p].row)]
    <3>1. pass[p].row \in Rows /\ req[pass[p].row].state = "CLAIMED"
      BY <1>3, <1>t, <2>3, Typed DEF Retry, PlaceOK, Unserving, Mine, Holds
    <3>2. IdlePass.pc = "idle" /\ IdlePass.asks = 0 /\ Mistaken(p) \in BOOLEAN
      BY DEF IdlePass, Mistaken
    <3> QED BY <1>1, <1>t, <2>3, <3>1, <3>2, TakesMinds
  <2> QED BY <1>3, <2>1, <2>2, <2>3 DEF Retry
<1> QED BY <1>2, <1>3

\* What is barred for any evidence is barred for what was asked.
LEMMA BarredNext ==
    ASSUME QInv, BarredOK, UNCHANGED asked,
           \A q \in Passes : Asking(q)' => Asking(q) /\ pass'[q].asks = pass[q].asks,
           \A a \in Times : Barred(a) => Barred(a)'
    PROVE  BarredOK'
<1>1. Barred(asked)'
  <2>1. PICK a \in Times : a = asked
    BY Typed DEF QInv, RestOK
  <2>2. Barred(a)
    BY <2>1 DEF BarredOK
  <2> QED BY <2>1, <2>2, BarredThen
<1>2. ASSUME NEW q \in Passes, Asking(q)' PROVE Barred(pass[q].asks)'
  <2>1. PICK a \in Times : a = pass[q].asks
    BY Typed DEF QInv
  <2>2. Barred(a)
    BY <1>2, <2>1 DEF BarredOK
  <2> QED BY <1>2, <2>1, <2>2, BarredThen
<1> QED BY <1>1, <1>2 DEF BarredOK

\* A claim bars what the PENDING request barred: its pass is yet to gather, and whoever
\* was to fold the request has lost it.
LEMMA ClaimMinds ==
    ASSUME QInv, QInv', FInv, NEW p \in Passes, Claim(p), Claimable(pass[p].found)
    PROVE  FInv'
<1>0. PICK r \in Rows : r = pass[p].found
  BY Typed DEF Claim, QInv, PlacesOK, PlaceOK
<1> DEFINE m == IF req[r].attempts < MaxAttempts THEN req[r].attempts + 1 ELSE MaxAttempts
           l == (m = MaxAttempts)
           n == [req[r] EXCEPT !.state = "CLAIMED", !.by = p,
                               !.owner = owner[p], !.attempts = m, !.expired = FALSE]
           s == [IdlePass EXCEPT !.pc = "begin", !.row = r, !.last = l]
<1>1. /\ pass[p].pc = "claim" /\ req' = [req EXCEPT ![r] = n] /\ Moves(p, s)
      /\ UNCHANGED <<digest, evidence, purging, asked, overtaken>> /\ req[r].state = "PENDING"
  BY <1>0 DEF Claim, Claimable
<1>2. req[r] \in Request /\ req \in [Rows -> Request]
  BY Typed DEF QInv
<1> HIDE DEF m, l
<1>3. n.state = "CLAIMED" /\ n.by = p
  BY <1>2 DEF Request
<1>4. s.pc = "begin" /\ s.row = r /\ s.asks = 0
  BY DEF IdlePass
<1> HIDE DEF n, s
<1>5. pass'[p] = s /\ \A q \in Passes : q # p => pass'[q] = pass[q] /\ Alike(q)
  BY <1>1, Shapes DEF QInv, TypeOK, Moves
<1>6. req'[r] = n /\ \A x \in Rows : x # r => req'[x] = req[x]
  BY <1>1, <1>2
<1>7. Judges(p) /\ asked' <= evidence.at /\ 0 <= evidence.at
  BY <1>1, SparesJudges, Typed DEF FInv, AskedOK, QInv, Times
<1>8. Treads(p)
  BY <1>4, <1>5, <1>7 DEF Treads, Works, Compared
<1>9. Small'
  <2>1. \A x \in Rows : Serving(p, x) \/ (req'[x].state = "CLAIMED" /\ req[x].state = "PENDING")
    BY <1>1, <1>3, <1>6 DEF Serving
  <2> QED BY <1>7, <1>8, <2>1, SmallKept DEF FInv, Small
<1>10. ASSUME NEW a \in Times, Barred(a) PROVE Barred(a)'
  <2>1. \A q \in Passes : Folding(q, r) => pass[q].robbed
    BY <1>0, <1>1 DEF FInv, FoldOK, Folding
  <2>2. Bars(r, a)'
    BY <1>3, <1>4, <1>5, <1>6, <2>1 DEF Bars, Unaware, AwareOf, Folding
  <2> QED BY <1>0, <2>2 DEF Barred
<1>11. BarredOK'
  BY <1>1, <1>4, <1>5, <1>10, BarredNext DEF FInv, Asking
<1> QED BY <1>9, <1>11 DEF FInv, Small

\* Steps that change nothing FInv tells apart, but perhaps what is purged.
LEMMA AlikeKeeps ==
    ASSUME QInv, QInv', FInv, \A q \in Passes : Alike(q),
           \A r \in Rows : /\ req'[r].state = req[r].state /\ req'[r].by = req[r].by
                           /\ req'[r].since = req[r].since,
           UNCHANGED <<digest, asked, overtaken>>, evidence.at <= evidence'.at,
           purging' = purging \/ PurgeOK'
    PROVE  FInv'
<1>t. /\ evidence.at \in Nat /\ evidence'.at \in Nat /\ asked \in Nat
      /\ \A q \in Passes : pass[q].asks \in Nat
  <2>1. \A x \in Times : x \in Nat
    BY BoundsAssumption DEF Times
  <2>2. evidence'.at \in Times
    BY DEF QInv, TypeOK
  <2> QED BY <2>1, <2>2, Typed DEF QInv, RestOK
<1>1. AskedOK' /\ JudgedOK' /\ SawOK'
  BY <1>t DEF FInv, AskedOK, JudgedOK, SawOK, Alike
<1>2. FoldOK'
  BY DEF FInv, FoldOK, Alike
<1>3. PurgeOK'
  <2>1. CASE purging' = purging
    <3>1. purging = None \/ purging \in Rows
      BY Typed DEF QInv, RestOK
    <3> QED BY <2>1, <3>1 DEF FInv, PurgeOK, Alike
  <2> QED BY <2>1
<1>4. ASSUME NEW a \in Times, Barred(a) PROVE Barred(a)'
  <2>1. \A r \in Rows : Bars(r, a) => Bars(r, a)'
    <3>1. \A r \in Rows : Unaware(r, a)' => Unaware(r, a)
      BY DEF Unaware, AwareOf, Folding, Alike
    <3> QED BY <3>1 DEF Bars
  <2> QED BY <1>4, <2>1 DEF Barred, Alike
<1>5. BarredOK'
  BY <1>4, BarredNext DEF FInv, Asking, Alike
<1> QED BY <1>1, <1>2, <1>3, <1>5 DEF FInv

\* The evidence changes, a lease runs out, a request is listed to be purged.
LEMMA OthersMind ==
    ASSUME QInv, QInv', FInv,
           Change \/ PurgeList \/ (\E r \in Rows : Abandon(r) \/ Outlive(r)) \/ UNCHANGED vars
    PROVE  FInv'
<1>t. /\ TypeOK /\ evidence.at \in Nat /\ \A q \in Passes : pass[q] \in PassRecord
      /\ \A r \in Rows : req[r] \in Request
  BY Typed DEF QInv, Times
<1>1. CASE Change \/ UNCHANGED vars
  <2>1. UNCHANGED <<req, digest, pass, purging, asked, overtaken>>
    BY <1>1 DEF Change, vars
  <2>2. evidence.at <= evidence'.at
    BY <1>1, <1>t DEF Change, vars
  <2> QED BY <2>1, <2>2, AlikeKeeps DEF Alike
<1>2. CASE PurgeList
  <2>1. UNCHANGED <<req, digest, evidence, pass, asked, overtaken>>
    BY <1>2 DEF PurgeList
  <2>2. PICK r \in In("HELD") :
           purging' = r /\ \A p \in Passes : pass[p].saw = 0 \/ r \in pass[p].older
    BY <1>2 DEF PurgeList
  <2>3. ASSUME NEW q \in Passes, pass[q].pc \in Works PROVE pass[q].saw >= req[r].since
    <3>1. r \in pass[q].older
      BY <2>2, <2>3 DEF FInv, SawOK
    <3>2. req[r].since <= pass[q].saw
      BY <2>2, <2>3, <3>1 DEF QInv, OlderIsKnown, Knows, In, Works
    <3> QED BY <3>2, Typed, <2>2 DEF QInv, Times, In
  <2>4. PurgeOK'
    BY <2>1, <2>2, <2>3 DEF PurgeOK, In
  <2> QED BY <1>t, <2>1, <2>4, AlikeKeeps DEF Alike
<1>3. ASSUME NEW r \in Rows, Abandon(r) \/ Outlive(r) PROVE FInv'
  <2>1. /\ req' = [req EXCEPT ![r].expired = TRUE]
        /\ UNCHANGED <<digest, evidence, purging, asked, overtaken>>
        /\ pass' = pass \/ pass' = [pass EXCEPT ![req[r].by].late = TRUE]
    BY <1>3 DEF Abandon, Outlive
  <2>2. \A x \in Rows : /\ req'[x].state = req[x].state /\ req'[x].by = req[x].by
                        /\ req'[x].since = req[x].since
    BY <1>t, <2>1 DEF TypeOK, Request
  <2>3. \A q \in Passes : Alike(q)
    BY <1>t, <2>1 DEF TypeOK, PassRecord, Alike
  <2> QED BY <1>t, <2>1, <2>2, <2>3, AlikeKeeps
<1> QED BY <1>1, <1>2, <1>3

\* A purge takes down the reading that its request barred, and nobody makes it CURRENT
\* again from less.
LEMMA PurgeMinds ==
    ASSUME QInv, QInv', FInv, PurgeHeld
    PROVE  FInv'
<1>1. /\ UNCHANGED <<evidence, pass, asked, overtaken>> /\ purging' = None
      /\ purging \in Rows
      /\ req' = IF req[purging].state = "HELD" THEN [req EXCEPT ![purging] = NoRow] ELSE req
  BY Typed DEF PurgeHeld, QInv, RestOK
<1>2. digest'.status # "CURRENT" /\ digest'.at = digest.at /\ digest'.seen = digest.seen
  <2>1. digest \in DigestRow
    BY Typed DEF QInv, RestOK
  <2> QED BY <2>1 DEF PurgeHeld, DigestRow
<1>3. req \in [Rows -> Request]
  BY DEF QInv, TypeOK
<1>4. \A r \in Rows : \/ req'[r] = req[r]
                      \/ r = purging /\ req[r].state = "HELD" /\ req'[r] = NoRow
  BY <1>1, <1>3
<1>5. AskedOK' /\ JudgedOK' /\ SawOK' /\ PurgeOK'
  BY <1>1, <1>2 DEF FInv, AskedOK, JudgedOK, SawOK, PurgeOK
<1>6. FoldOK'
  BY <1>1, <1>4, Rests DEF FInv, FoldOK
<1>7. ASSUME NEW a \in Times, Barred(a) PROVE Barred(a)'
  <2>1. CASE overtaken \/ digest.seen >= a
    BY <1>1, <1>2, <2>1 DEF Barred
  <2>2. ASSUME NEW r \in Rows, Bars(r, a) PROVE Barred(a)'
    <3>1. CASE req'[r] = req[r]
      BY <1>1, <2>2, <3>1 DEF Barred, Bars, Unaware, AwareOf, Folding
    <3>2. CASE r = purging /\ req[r].state = "HELD"
      <4>1. req[r].since >= a
        BY <2>2, <3>2 DEF Bars
      <4>2. \A q \in Passes : pass[q].pc \in Works => pass[q].saw >= req[r].since
        BY <1>1, <3>2, NoneAssumption DEF FInv, PurgeOK
      <4>3. /\ a \in Nat /\ req[r].since \in Nat /\ \A q \in Passes : pass[q].saw \in Nat
        BY Typed DEF QInv, Times
      <4> QED BY <1>1, <1>2, <4>1, <4>2, <4>3 DEF Barred
    <3> QED BY <1>4, <3>1, <3>2
  <2>3. CASE \A p \in Passes : pass[p].pc \in Works => pass[p].saw >= a
    BY <1>1, <1>2, <2>3 DEF Barred
  <2> QED BY <1>7, <2>1, <2>2, <2>3 DEF Barred
<1>8. BarredOK'
  BY <1>1, <1>7, BarredNext DEF FInv, Asking
<1> QED BY <1>5, <1>6, <1>8 DEF FInv

\* Every step keeps FInv.
LEMMA FInvNext == ASSUME QInv, QInv', FInv, [Next]_vars PROVE FInv'
<1>1. ASSUME NEW p \in Passes, Work(p) \/ StaleFails(p) \/ Throw(p) \/ Die(p)
      PROVE  FInv'
  <2>1. CASE Discover(p) \/ Enqueue(p)
    BY <2>1, EnqueueMinds, CreateMinds, MindsKeeps DEF Enqueue
  <2>2. CASE Take(p)
    BY <2>2, TakeMinds, ReturnMinds, ClaimMinds, MindsKeeps DEF Take
  <2>3. CASE Refresh(p) \/ StaleFails(p) \/ Throw(p) \/ Die(p)
    BY <2>3, RefreshMinds, ReturnMinds, MindsKeeps DEF Refresh
  <2> QED BY <1>1, <2>1, <2>2, <2>3 DEF Work
<1> QED BY <1>1, OthersMind, PurgeMinds DEF Next

\* FInv holds in every state.
LEMMA FInvAlways == Spec => []FInv
<1>1. Init => FInv
  BY NoneAssumption
     DEF Init, FInv, AskedOK, JudgedOK, SawOK, FoldOK, PurgeOK, BarredOK, Barred, Asking,
         IdlePass, Works, Compared
<1>2. QInv /\ QInv' /\ FInv /\ [Next]_vars => FInv'
  BY FInvNext
<1> QED BY <1>1, <1>2, Invariance, PTL DEF Spec

\* The queue is the freshness barrier, for any number of requests, passes and lease
\* names: a reading is not left CURRENT without a request that knows less than what an
\* accepted request was made about, unless a pass has undone the work of another, or
\* ended the request that another had claimed under the same name.
THEOREM FreshOrBarredHolds == Spec => []FreshOrBarred
<1>1. FInv => FreshOrBarred
  BY DEF FInv, BarredOK, Barred, Bars, FreshOrBarred, In
<1> QED BY <1>1, FInvAlways, PTL
=============================================================================
