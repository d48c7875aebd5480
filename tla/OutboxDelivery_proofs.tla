------------------------ MODULE OutboxDelivery_proofs ------------------------
(***************************************************************************)
(* Theorems of OutboxDelivery, for any changes, subscriptions and passes,  *)
(* and any options that satisfy its assumptions.                           *)
(*                                                                         *)
(* RInv is the inductive invariant: a pass that runs a delivery nobody     *)
(* robbed holds it since its own start (RunsHold), so the lease, which is  *)
(* longer than a pass lives, has not run out; and a list of stale          *)
(* deliveries names only claims that are over (StaleIsOver), so the write  *)
(* of a reclaim finds its delivery as it was read, or robs it.             *)
(*                                                                         *)
(* CInv adds what the parent row rests on.  A verdict is read before it is *)
(* written, so a delivery may be created in between, by a pass that found  *)
(* a subscription switched on: it is too young to spend its attempts while *)
(* anybody lives who may run it (Within, Harmless), so no required refusal *)
(* can join a row that is published.                                       *)
(***************************************************************************)
EXTENDS OutboxDelivery, TLAPS

\* Where a pass has a row of the outbox, and a delivery.
PlaceOK(r) ==
    /\ r.pc \in {"match", "ensure", "claim", "handle", "fail", "conclude"} => r.change \in Changes
    /\ r.run # {} => r.pc \in {"handle", "fail"}
    /\ \A d, e \in r.run : d = e
PlacesOK == \A p \in Passes : PlaceOK(pass[p])

\* A pass that runs a delivery nobody robbed holds it since its own start, or has
\* written the success whose answer it did not hear.
Held(p, d) ==
    /\ del[d].attempts = pass[p].attempt
    /\ \/ del[d].status = "PROCESSING" /\ del[d].held = pass[p].age
       \/ del[d].status = "SUCCEEDED" /\ pass[p].pc = "fail" /\ d \in unheard
RunsHold == \A p \in Passes : \A d \in pass[p].run \ robbed : Held(p, d)

\* A stale claim that nobody robbed since is nobody's.
StaleIsOver == \A q \in Passes : \A x \in pass[q].stale :
    /\ del[x[1]].status # "NONE" /\ x[2] <= del[x[1]].attempts
    /\ \A p \in Passes : x[1] \in pass[p].run \ robbed /\ x[2] = del[x[1]].attempts =>
          del[x[1]].status # "PROCESSING"

\* A delivery that may be claimed has an attempt left.
AttemptsAreLeft == \A d \in Deliveries \ robbed :
    /\ del[d].attempts <= MaxAttempts
    /\ del[d].status \in {"NONE", "PENDING", "FAILED"} => del[d].attempts < MaxAttempts

TInv == TypeOK /\ PlacesOK
RInv == TInv /\ RunsHold /\ StaleIsOver /\ NoDoubleDispatch /\ AttemptsAreLeft

-----------------------------------------------------------------------------
\* The type of each variable, and of the fields of its records.
LEMMA Typed ==
    ASSUME TypeOK
    PROVE  /\ outbox \in [Changes -> {"NONE"} \cup Working \cup Concluded]
           /\ active \subseteq Subs /\ del \in [Deliveries -> DeliveryRow]
           /\ pass \in [Passes -> PassRecord]
           /\ robbed \subseteq Deliveries /\ unheard \subseteq Deliveries
           /\ faults \in 0 .. MaxFaults
           /\ \A p \in Passes :
                /\ pass[p] \in PassRecord
                /\ pass[p].pc \in Places /\ pass[p].age \in Nat /\ pass[p].age <= PassLife
                /\ pass[p].stale \subseteq Deliveries \X Nat /\ pass[p].todo \subseteq Changes
                /\ pass[p].fresh \subseteq Changes /\ pass[p].change \in Changes \cup {None}
                /\ pass[p].subs \subseteq Subs /\ pass[p].left \subseteq Deliveries
                /\ pass[p].run \subseteq Deliveries /\ pass[p].attempt \in Nat
                /\ pass[p].verdict \in {"OPEN"} \cup Concluded
           /\ \A d \in Deliveries :
                /\ del[d].status \in {"NONE", "PENDING", "PROCESSING", "FAILED",
                                     "SUCCEEDED", "DEAD_LETTERED"}
                /\ del[d].attempts \in Nat /\ del[d].held \in Nat
                /\ del[d].ready \in -RetryDelay .. PassLife
BY OptionsAssumption DEF TypeOK, PassRecord, DeliveryRow

\* The record of a pass at rest.
LEMMA IdleIsPass == IdlePass \in PassRecord
BY OptionsAssumption DEF IdlePass, PassRecord, Places

\* What a step of one pass does to the passes.
LEMMA PassSteps ==
    ASSUME TypeOK, NEW p \in Passes, NEW r \in PassRecord, pass' = [pass EXCEPT ![p] = r]
    PROVE  /\ pass' \in [Passes -> PassRecord] /\ pass'[p] = r
           /\ \A q \in Passes : q # p => pass'[q] = pass[q]
BY DEF TypeOK

\* What a write of one delivery does to the deliveries.
LEMMA RowSteps ==
    ASSUME TypeOK, NEW d \in Deliveries, NEW r \in DeliveryRow, Row(d, r)
    PROVE  /\ del' \in [Deliveries -> DeliveryRow] /\ del'[d] = r
           /\ \A e \in Deliveries : e # d => del'[e] = del[e]
BY DEF TypeOK, Row

\* The rows the writes make of a delivery are rows.
LEMMA Rows ==
    ASSUME TypeOK, NEW p \in Passes, NEW d \in Deliveries
    PROVE  /\ \A n : /\ Reclaimed(p, d, n) \in DeliveryRow
                   /\ Reclaimed(p, d, n).attempts = del[d].attempts
                   /\ Reclaimed(p, d, n).status =
                        IF n >= MaxAttempts THEN "DEAD_LETTERED" ELSE "PENDING"
           /\ Succeeded(d) \in DeliveryRow /\ Succeeded(d).status = "SUCCEEDED"
           /\ Succeeded(d).attempts = del[d].attempts
           /\ Failed(p, d) \in DeliveryRow /\ Failed(p, d).attempts = del[d].attempts
           /\ Failed(p, d).status = IF del[d].attempts >= MaxAttempts
                                    THEN "DEAD_LETTERED" ELSE "FAILED"
<1>1. del[d] \in DeliveryRow /\ pass[p].age \in Nat /\ pass[p].age <= PassLife
  BY Typed
<1>2. pass[p].age \in -RetryDelay .. PassLife /\ 0 \in -RetryDelay .. PassLife
      /\ pass[p].age - RetryDelay \in -RetryDelay .. PassLife /\ 0 \in 0 .. Lease + PassLife + 1
  BY <1>1, OptionsAssumption
<1> DEFINE Of1(st, n) == [del[d] EXCEPT !.status = st, !.ready = n, !.held = 0]
           Of2(st, n) == [del[d] EXCEPT !.status = st, !.held = 0, !.ready = n]
           Fine(r, st) == r \in DeliveryRow /\ r.status = st /\ r.attempts = del[d].attempts
<1>3. \A st \in {"PENDING", "FAILED", "SUCCEEDED", "DEAD_LETTERED"},
         n \in -RetryDelay .. PassLife : Fine(Of1(st, n), st) /\ Fine(Of2(st, n), st)
  BY <1>1, <1>2 DEF DeliveryRow
<1>7. /\ Fine(Of1("DEAD_LETTERED", 0), "DEAD_LETTERED")
      /\ Fine(Of1("PENDING", pass[p].age), "PENDING")
      /\ Fine(Of1("SUCCEEDED", 0), "SUCCEEDED")
      /\ Fine(Of2("FAILED", pass[p].age - RetryDelay), "FAILED")
  <2> HIDE DEF Of1, Of2, Fine
  <2> QED
    BY <1>2, <1>3
<1>8. /\ \A n : Reclaimed(p, d, n) = IF n >= MaxAttempts THEN Of1("DEAD_LETTERED", 0)
                                     ELSE Of1("PENDING", pass[p].age)
      /\ Succeeded(d) = Of1("SUCCEEDED", 0)
      /\ Failed(p, d) = IF del[d].attempts >= MaxAttempts THEN Of1("DEAD_LETTERED", 0)
                        ELSE Of2("FAILED", pass[p].age - RetryDelay)
  BY DEF Reclaimed, Succeeded, Failed
<1> HIDE DEF Of1, Of2
<1> QED
  BY <1>7, <1>8

\* What a step of one pass does to the passes, if it goes where it may be.
LEMMA PassGoes ==
    ASSUME TInv, NEW p \in Passes, NEW r \in PassRecord, PlaceOK(r), pass' = [pass EXCEPT ![p] = r]
    PROVE  pass' \in [Passes -> PassRecord] /\ PlacesOK'
BY PassSteps DEF TInv, PlacesOK

\* A pass in hand, or at the end of one, is where it may be.
LEMMA IdleIsPlaced == PlaceOK(IdlePass)
BY DEF PlaceOK, IdlePass

\* So is one that goes on to the next row of its batch.
LEMMA ProceedsIsPlaced ==
    ASSUME TInv, NEW p \in Passes, NEW todo \in SUBSET Changes, Proceeds(p, todo)
    PROVE  \E r \in PassRecord : PlaceOK(r) /\ pass' = [pass EXCEPT ![p] = r]
             /\ r.run = {} /\ r.stale = {}
<1>1. CASE todo = {}
  BY <1>1, IdleIsPass, IdleIsPlaced DEF Proceeds, IdlePass
<1>2. CASE todo # {}
  <2> DEFINE r == [IdlePass EXCEPT !.pc = "next", !.age = pass[p].age,
                          !.todo = todo, !.fresh = pass[p].fresh \cap todo]
  <2>1. pass[p].age \in 0 .. PassLife /\ pass[p].fresh \cap todo \in SUBSET Changes
    BY Typed, OptionsAssumption DEF TInv
  <2>2. \A x \in PassRecord : [x EXCEPT !.pc = "next", !.age = pass[p].age,
                          !.todo = todo, !.fresh = pass[p].fresh \cap todo] \in PassRecord
    BY <2>1 DEF PassRecord, Places
  <2>3. r \in PassRecord
    BY <2>2, IdleIsPass
  <2>4. r.pc = "next" /\ r.run = {} /\ r.stale = {}
    BY DEF IdlePass
  <2>5. pass' = [pass EXCEPT ![p] = r]
    BY <1>2 DEF Proceeds
  <2> HIDE DEF r
  <2> QED
    BY <2>3, <2>4, <2>5 DEF PlaceOK
<1> QED
  BY <1>1, <1>2

\* The step of one pass p that touches no delivery of its own or of another.
LightStep(p) ==
    /\ UNCHANGED <<robbed, unheard>> /\ pass[p].run = {}
    /\ \/ UNCHANGED del
       \/ \E d \in Deliveries : /\ del[d].status = "NONE"
             /\ Row(d, [NoDelivery EXCEPT !.status = "PENDING", !.ready = pass[p].age])
    /\ \E r \in PassRecord : /\ PlaceOK(r) /\ pass' = [pass EXCEPT ![p] = r]
             /\ r.run = {} /\ r.stale \subseteq pass[p].stale

\* The reads of a pass, its writes of the parent row and of new deliveries are light.
LEMMA LightSteps ==
    ASSUME TInv, NEW p \in Passes,
           \/ Start(p) \/ ListActive(p) \/ MarkProcessing(p) \/ FindMatching(p)
           \/ Ensure(p) \/ ListForOutbox(p) \/ ReadDeliveries(p) \/ ReconcileParent(p)
    PROVE  LightStep(p) /\ outbox' \in [Changes -> {"NONE"} \cup Working \cup Concluded]
           /\ UNCHANGED <<active, faults>>
<1>t. /\ pass[p] \in PassRecord /\ PlaceOK(pass[p])
      /\ outbox \in [Changes -> {"NONE"} \cup Working \cup Concluded]
      /\ pass[p].pc \notin {"handle", "fail"} => pass[p].run = {}
  BY Typed DEF TInv, PlacesOK, PlaceOK
<1>1. CASE Start(p)
  <2> DEFINE r == [pass[p] EXCEPT !.pc = "recover"]
  <2>1. r \in PassRecord /\ r.pc = "recover" /\ r.run = pass[p].run /\ r.stale = pass[p].stale
    BY <1>t DEF PassRecord, Places
  <2>2. pass' = [pass EXCEPT ![p] = r] /\ pass[p].run = {}
    BY <1>1, <1>t DEF Start, Goes
  <2> HIDE DEF r
  <2> QED
    BY <1>1, <1>t, <2>1, <2>2 DEF Start, LightStep, PlaceOK
<1>2. CASE ListActive(p)
  <2>1. PICK batch \in SUBSET Changes, fresh \in SUBSET Changes : pass' = [pass EXCEPT ![p] =
           IF batch = {} THEN IdlePass
           ELSE [pass[p] EXCEPT !.pc = "next", !.todo = batch, !.fresh = fresh]]
    <3> DEFINE due == {c \in Changes : outbox[c] \in Working}
               batch == {c \in due : Cardinality({e \in due : e < c}) < BatchSize}
               fresh == {c \in batch : outbox[c] = "PENDING"}
    <3> QED
      BY <1>2, batch \in SUBSET Changes, fresh \in SUBSET Changes DEF ListActive
  <2> DEFINE r == [pass[p] EXCEPT !.pc = "next", !.todo = batch, !.fresh = fresh]
  <2>2. r \in PassRecord /\ r.pc = "next" /\ r.run = pass[p].run /\ r.stale = pass[p].stale
    BY <1>t DEF PassRecord, Places
  <2>3. (pass' = [pass EXCEPT ![p] = IdlePass] \/ pass' = [pass EXCEPT ![p] = r]) /\ pass[p].run = {}
    BY <1>2, <1>t, <2>1 DEF ListActive
  <2>4. IdlePass.run = {} /\ IdlePass.stale = {}
    BY DEF IdlePass
  <2> HIDE DEF r
  <2>5. PlaceOK(r)
    BY <2>2, <2>3 DEF PlaceOK
  <2> QED
    BY <1>2, <1>t, <2>2, <2>3, <2>4, <2>5, IdleIsPass, IdleIsPlaced
       DEF ListActive, LightStep
<1>3. CASE MarkProcessing(p)
  <2>1. PICK c \in pass[p].todo : \/ Proceeds(p, pass[p].todo \ {c}) /\ UNCHANGED outbox
                \/ /\ pass' = [pass EXCEPT ![p].pc = "match", ![p].change = c]
                   /\ outbox' = IF c \in pass[p].fresh
                                THEN [outbox EXCEPT ![c] = "PROCESSING"] ELSE outbox
    BY <1>3 DEF MarkProcessing
  <2>2. c \in Changes /\ pass[p].todo \ {c} \in SUBSET Changes /\ pass[p].run = {}
    BY <1>3, <1>t DEF MarkProcessing, PassRecord
  <2>3. outbox' \in [Changes -> {"NONE"} \cup Working \cup Concluded]
    BY <1>t, <2>1 DEF Working
  <2>4. CASE Proceeds(p, pass[p].todo \ {c})
    BY <1>3, <2>2, <2>3, <2>4, ProceedsIsPlaced DEF MarkProcessing, LightStep
  <2>5. CASE pass' = [pass EXCEPT ![p].pc = "match", ![p].change = c]
    <3> DEFINE r == [pass[p] EXCEPT !.pc = "match", !.change = c]
    <3>1. r \in PassRecord /\ r.pc = "match" /\ r.run = pass[p].run /\ r.stale = pass[p].stale
          /\ r.change = c
      BY <1>t, <2>2 DEF PassRecord, Places
    <3>2. pass' = [pass EXCEPT ![p] = r]
      BY <2>5
    <3> HIDE DEF r
    <3> QED
      BY <1>3, <2>2, <2>3, <3>1, <3>2 DEF MarkProcessing, LightStep, PlaceOK
  <2> QED
    BY <2>1, <2>4, <2>5
<1>4. CASE FindMatching(p)
  <2> DEFINE l == {<<pass[p].change, s>> : s \in active}
             r == [pass[p] EXCEPT !.pc = "ensure", !.subs = active, !.left = l]
  <2>1. pass[p].change \in Changes /\ active \subseteq Subs
    BY <1>4, <1>t, Typed DEF FindMatching, PlaceOK, TInv
  <2>2. l \in SUBSET Deliveries
    BY <2>1 DEF Deliveries
  <2> HIDE DEF l
  <2>3. r \in PassRecord /\ r.pc = "ensure" /\ r.run = pass[p].run /\ r.stale = pass[p].stale
        /\ r.change = pass[p].change
    BY <1>t, <2>1, <2>2 DEF PassRecord, Places
  <2>4. pass' = [pass EXCEPT ![p] = r] /\ pass[p].run = {}
    BY <1>4, <1>t DEF FindMatching, l
  <2> HIDE DEF r
  <2> QED
    BY <1>4, <1>t, <2>1, <2>3, <2>4 DEF FindMatching, LightStep, PlaceOK
<1>5. CASE Ensure(p)
  <2>1. PICK d \in pass[p].left :
          /\ IF del[d].status = "NONE"
             THEN Row(d, [NoDelivery EXCEPT !.status = "PENDING", !.ready = pass[p].age])
             ELSE UNCHANGED del
          /\ pass' = [pass EXCEPT ![p].left = @ \ {d}]
    BY <1>5 DEF Ensure
  <2> DEFINE l == pass[p].left \ {d}
             r == [pass[p] EXCEPT !.left = l]
  <2>2. d \in Deliveries /\ l \in SUBSET Deliveries
    BY <1>t DEF PassRecord
  <2> HIDE DEF l
  <2>3. r \in PassRecord /\ r.pc = pass[p].pc /\ r.run = pass[p].run /\ r.stale = pass[p].stale
        /\ r.change = pass[p].change
    BY <1>t, <2>2 DEF PassRecord, Places
  <2>4. pass' = [pass EXCEPT ![p] = r] /\ pass[p].run = {}
    BY <1>5, <1>t, <2>1 DEF Ensure, l
  <2> HIDE DEF r
  <2> QED
    BY <1>5, <1>t, <2>1, <2>2, <2>3, <2>4 DEF Ensure, LightStep, PlaceOK
<1>6. CASE ListForOutbox(p)
  <2> DEFINE l == Of(pass[p].change)
             r == [pass[p] EXCEPT !.pc = "claim", !.left = l]
  <2>1. l \in SUBSET Deliveries
    BY DEF Of
  <2> HIDE DEF l
  <2>2. r \in PassRecord /\ r.pc = "claim" /\ r.run = pass[p].run /\ r.stale = pass[p].stale
        /\ r.change = pass[p].change
    BY <1>t, <2>1 DEF PassRecord, Places
  <2>3. pass' = [pass EXCEPT ![p] = r] /\ pass[p].run = {}
    BY <1>6, <1>t DEF ListForOutbox, l
  <2> HIDE DEF r
  <2> QED
    BY <1>6, <1>t, <2>2, <2>3 DEF ListForOutbox, LightStep, PlaceOK
<1>7. CASE ReadDeliveries(p)
  <2>1. PICK v \in {"OPEN"} \cup Concluded : pass' = [pass EXCEPT ![p].pc = "conclude", ![p].verdict = v]
    BY <1>7 DEF ReadDeliveries, Concluded
  <2> DEFINE r == [pass[p] EXCEPT !.pc = "conclude", !.verdict = v]
  <2>2. r \in PassRecord /\ r.pc = "conclude" /\ r.run = pass[p].run /\ r.stale = pass[p].stale
        /\ r.change = pass[p].change
    BY <1>t DEF PassRecord, Places
  <2>3. pass' = [pass EXCEPT ![p] = r] /\ pass[p].run = {}
    BY <1>7, <1>t, <2>1 DEF ReadDeliveries
  <2> HIDE DEF r
  <2> QED
    BY <1>7, <1>t, <2>2, <2>3 DEF ReadDeliveries, LightStep, PlaceOK
<1>8. CASE ReconcileParent(p)
  <2>1. pass[p].todo \ {pass[p].change} \in SUBSET Changes /\ pass[p].run = {}
    BY <1>8, <1>t DEF ReconcileParent, PassRecord
  <2>2. outbox' \in [Changes -> {"NONE"} \cup Working \cup Concluded]
    <3>1. pass[p].verdict \in {"OPEN"} \cup Concluded
      BY <1>t DEF PassRecord
    <3> QED
      BY <1>8, <1>t, <3>1 DEF ReconcileParent
  <2> QED
    BY <1>8, <2>1, <2>2, ProceedsIsPlaced DEF ReconcileParent, LightStep
<1> QED
  BY <1>1, <1>2, <1>3, <1>4, <1>5, <1>6, <1>7, <1>8

-----------------------------------------------------------------------------
\* What is said of deliveries and of the passes that run them.
Kept == RunsHold /\ StaleIsOver /\ NoDoubleDispatch /\ AttemptsAreLeft

\* A light step keeps what is said of deliveries.
LEMMA LightKeeps ==
    ASSUME RInv, NEW p \in Passes, LightStep(p)
    PROVE  /\ Kept' /\ pass' \in [Passes -> PassRecord] /\ PlacesOK'
           /\ del' \in [Deliveries -> DeliveryRow]
           /\ \A d \in Deliveries : del[d].status = "SUCCEEDED" => del'[d].status = "SUCCEEDED"
<1>1. PICK r \in PassRecord : /\ PlaceOK(r) /\ pass' = [pass EXCEPT ![p] = r]
             /\ r.run = {} /\ r.stale \subseteq pass[p].stale
  BY DEF LightStep
<1>2. /\ pass' \in [Passes -> PassRecord] /\ PlacesOK' /\ pass'[p] = r
      /\ \A q \in Passes : q # p => pass'[q] = pass[q]
  BY <1>1, PassGoes, PassSteps DEF RInv, TInv
<1>3. UNCHANGED <<robbed, unheard>>
  BY DEF LightStep
<1>4. /\ del' \in [Deliveries -> DeliveryRow]
      /\ \A d \in Deliveries : \/ del'[d] = del[d]
            \/ /\ del[d].status = "NONE" /\ del'[d].status = "PENDING" /\ del'[d].attempts = 0
  <2>1. CASE UNCHANGED del
    BY <2>1, Typed DEF RInv, TInv
  <2>2. ASSUME NEW d \in Deliveries, del[d].status = "NONE",
               Row(d, [NoDelivery EXCEPT !.status = "PENDING", !.ready = pass[p].age])
        PROVE <1>4!:
    <3> DEFINE n == [NoDelivery EXCEPT !.status = "PENDING", !.ready = pass[p].age]
    <3>1. pass[p].age \in -RetryDelay .. PassLife
      BY Typed, OptionsAssumption DEF RInv, TInv
    <3>2. n \in DeliveryRow /\ n.status = "PENDING" /\ n.attempts = 0
      <4>1. /\ 0 \in -RetryDelay .. PassLife /\ 0 \in 0 .. Lease + PassLife + 1
            /\ NoDelivery.attempts = 0
        BY OptionsAssumption DEF NoDelivery
      <4>2. NoDelivery \in DeliveryRow
        BY <4>1 DEF NoDelivery, DeliveryRow
      <4> QED
        BY <3>1, <4>1, <4>2 DEF DeliveryRow
    <3> HIDE DEF n
    <3>3. Row(d, n)
      BY <2>2 DEF n
    <3> QED
      BY <2>2, <3>2, <3>3, RowSteps DEF RInv, TInv
  <2> QED
    BY <2>1, <2>2 DEF LightStep
<1>5. RunsHold'
  <2>1. ASSUME NEW q \in Passes, NEW d \in pass'[q].run \ robbed PROVE Held(q, d)'
    <3>1. q # p /\ d \in pass[q].run \ robbed /\ d \in Deliveries /\ Held(q, d)
      BY <2>1, <1>1, <1>2, Typed DEF RInv, TInv, RunsHold
    <3>2. del'[d] = del[d]
      BY <3>1, <1>4 DEF Held
    <3> QED
      BY <3>1, <3>2, <1>2, <1>3 DEF Held
  <2> QED
    BY <2>1, <1>3 DEF RunsHold
<1>6. StaleIsOver'
  <2> SUFFICES ASSUME NEW q \in Passes, NEW x \in pass'[q].stale
      PROVE /\ del'[x[1]].status # "NONE" /\ x[2] <= del'[x[1]].attempts
            /\ \A o \in Passes : x[1] \in pass'[o].run \ robbed /\ x[2] = del'[x[1]].attempts =>
                  del'[x[1]].status # "PROCESSING"
    BY <1>3 DEF StaleIsOver
  <2>1. x \in pass[q].stale
    BY <1>1, <1>2
  <2>2. x[1] \in Deliveries
    BY <2>1, Typed DEF RInv, TInv
  <2>3. del'[x[1]] = del[x[1]]
    BY <2>1, <2>2, <1>4 DEF RInv, StaleIsOver
  <2>4. \A o \in Passes : pass'[o].run \subseteq pass[o].run
    BY <1>1, <1>2
  <2> QED
    BY <2>1, <2>3, <2>4 DEF RInv, StaleIsOver
<1>7. NoDoubleDispatch'
  BY <1>1, <1>2, <1>3 DEF RInv, NoDoubleDispatch
<1>8. AttemptsAreLeft'
  BY <1>3, <1>4, OptionsAssumption DEF RInv, AttemptsAreLeft
<1> QED
  BY <1>2, <1>4, <1>5, <1>6, <1>7, <1>8 DEF Kept

\* A pass that dies runs nothing any more.
LEMMA DieKeeps ==
    ASSUME RInv, NEW p \in Passes, pass' = [pass EXCEPT ![p] = IdlePass],
           UNCHANGED <<del, robbed, unheard>>
    PROVE  Kept' /\ pass' \in [Passes -> PassRecord] /\ PlacesOK'
<1>1. /\ pass' \in [Passes -> PassRecord] /\ PlacesOK' /\ pass'[p] = IdlePass
      /\ \A q \in Passes : q # p => pass'[q] = pass[q]
  BY PassGoes, PassSteps, IdleIsPass, IdleIsPlaced DEF RInv, TInv
<1>2. IdlePass.run = {} /\ IdlePass.stale = {}
  BY DEF IdlePass
<1> HIDE DEF IdlePass
<1>3. RunsHold'
  BY <1>1, <1>2 DEF RunsHold, RInv, Held
<1>4. StaleIsOver'
  BY <1>1, <1>2 DEF StaleIsOver, RInv
<1>5. NoDoubleDispatch'
  BY <1>1, <1>2 DEF NoDoubleDispatch, RInv
<1>6. AttemptsAreLeft'
  BY DEF AttemptsAreLeft, RInv
<1> QED
  BY <1>1, <1>3, <1>4, <1>5, <1>6 DEF Kept

\* The list of stale deliveries names only claims that are over.
LEMMA FindKeeps ==
    ASSUME RInv, NEW p \in Passes, FindStale(p)
    PROVE  Kept' /\ pass' \in [Passes -> PassRecord] /\ PlacesOK'
<1> DEFINE l == {<<d, del[d].attempts>> : d \in {e \in Deliveries : Abandoned(p, e)}}
           r == [pass[p] EXCEPT !.pc = "reclaim", !.stale = l]
<1>1. /\ \A x \in l : x[1] \in Deliveries /\ Abandoned(p, x[1]) /\ x[2] = del[x[1]].attempts
      /\ l \in SUBSET (Deliveries \X Nat)
  BY Typed DEF RInv, TInv
<1> HIDE DEF l
<1>2. pass[p] \in PassRecord /\ PlaceOK(pass[p]) /\ pass[p].run = {}
  BY Typed DEF RInv, TInv, PlacesOK, PlaceOK, FindStale
<1>3. r \in PassRecord /\ r.pc = "reclaim" /\ r.run = {} /\ r.stale = l
  BY <1>1, <1>2 DEF PassRecord, Places
<1>4. pass' = [pass EXCEPT ![p] = r] /\ UNCHANGED <<del, robbed, unheard>>
  BY DEF FindStale, l
<1> HIDE DEF r
<1>5. /\ pass' \in [Passes -> PassRecord] /\ PlacesOK' /\ pass'[p] = r
      /\ \A q \in Passes : q # p => pass'[q] = pass[q]
  BY <1>3, <1>4, PassGoes, PassSteps DEF RInv, TInv, PlaceOK
<1>6. \A q \in Passes : pass'[q].run = pass[q].run /\ (q # p => pass'[q].stale = pass[q].stale)
  BY <1>2, <1>3, <1>5
<1>7. RunsHold'
  BY <1>2, <1>3, <1>4, <1>5 DEF RunsHold, RInv, Held
<1>8. StaleIsOver'
  <2> SUFFICES ASSUME NEW q \in Passes, NEW x \in pass'[q].stale
      PROVE /\ del[x[1]].status # "NONE" /\ x[2] <= del[x[1]].attempts
            /\ \A o \in Passes : x[1] \in pass[o].run \ robbed /\ x[2] = del[x[1]].attempts =>
                  del[x[1]].status # "PROCESSING"
    BY <1>4, <1>6 DEF StaleIsOver
  <2>1. CASE q # p
    BY <2>1, <1>6 DEF RInv, StaleIsOver
  <2>2. CASE q = p
    <3>1. x[1] \in Deliveries /\ Abandoned(p, x[1]) /\ x[2] = del[x[1]].attempts
      BY <1>1, <1>3, <1>5, <2>2
    <3>2. del[x[1]].attempts \in Nat /\ del[x[1]].held \in Nat /\ pass[p].age \in Nat
      BY <3>1, Typed DEF RInv, TInv
    <3>3. ASSUME NEW o \in Passes, x[1] \in pass[o].run \ robbed PROVE del[x[1]].status # "PROCESSING"
      <4>1. Held(o, x[1]) /\ pass[o].age \in Nat /\ pass[o].age <= PassLife
        BY <3>3, Typed DEF RInv, TInv, RunsHold
      <4>2. pass[o].age - pass[p].age <= Lease
        BY <4>1, <3>2, OptionsAssumption, TimingAssumption
      <4>3. del[x[1]].held - pass[p].age > Lease
        BY <3>1 DEF Abandoned
      <4>4. del[x[1]].held # pass[o].age
        BY <4>1, <4>2, <4>3, <3>2, OptionsAssumption
      <4> QED
        BY <4>1, <4>4 DEF Held
    <3> QED
      BY <3>1, <3>2, <3>3 DEF Abandoned
  <2> QED
    BY <2>1, <2>2
<1>9. NoDoubleDispatch' /\ AttemptsAreLeft'
  BY <1>4, <1>6 DEF NoDoubleDispatch, AttemptsAreLeft, RInv
<1> QED
  BY <1>5, <1>7, <1>8, <1>9 DEF Kept

\* A reclaim finds the claim it had read, which is over, or it robs the newer one.
LEMMA ReclaimKeeps ==
    ASSUME RInv, NEW p \in Passes, ReclaimStale(p)
    PROVE  /\ Kept' /\ pass' \in [Passes -> PassRecord] /\ PlacesOK'
           /\ del' \in [Deliveries -> DeliveryRow] /\ robbed' \subseteq Deliveries
           /\ \A d \in Deliveries : del[d].status = "SUCCEEDED" => del'[d].status = "SUCCEEDED"
<1>1. PICK x \in pass[p].stale :
         /\ IF del[x[1]].status = "PROCESSING"
            THEN /\ Row(x[1], Reclaimed(p, x[1], x[2]))
                 /\ robbed' = IF del[x[1]].attempts = x[2] THEN robbed ELSE robbed \cup {x[1]}
            ELSE UNCHANGED <<del, robbed>>
         /\ pass' = [pass EXCEPT ![p].stale = @ \ {x}]
  BY DEF ReclaimStale
<1> DEFINE d == x[1]
           l == pass[p].stale \ {x}
           r == [pass[p] EXCEPT !.stale = l]
<1>2. d \in Deliveries /\ x[2] \in Nat /\ l \in SUBSET (Deliveries \X Nat)
  BY Typed DEF RInv, TInv
<1>3. pass[p] \in PassRecord /\ PlaceOK(pass[p]) /\ UNCHANGED unheard
  BY Typed DEF RInv, TInv, PlacesOK, ReclaimStale
<1>4. pass' = [pass EXCEPT ![p] = r]
  BY <1>1
<1> HIDE DEF l
<1>5. r \in PassRecord /\ r.pc = pass[p].pc /\ r.run = pass[p].run /\ r.change = pass[p].change
      /\ r.stale = l /\ r.attempt = pass[p].attempt /\ r.age = pass[p].age
  BY <1>2, <1>3 DEF PassRecord
<1> HIDE DEF r
<1>6. PlaceOK(r)
  BY <1>3, <1>5 DEF PlaceOK
<1>7. /\ pass' \in [Passes -> PassRecord] /\ PlacesOK' /\ pass'[p] = r
      /\ \A q \in Passes : q # p => pass'[q] = pass[q]
  BY <1>4, <1>5, <1>6, PassGoes, PassSteps DEF RInv, TInv
<1>8. \A q \in Passes : /\ pass'[q].run = pass[q].run /\ pass'[q].stale \subseteq pass[q].stale
                         /\ pass'[q].attempt = pass[q].attempt /\ pass'[q].age = pass[q].age
                         /\ pass'[q].pc = pass[q].pc
  BY <1>5, <1>7 DEF l
<1> HIDE DEF d
<1>9. /\ del' \in [Deliveries -> DeliveryRow] /\ robbed' \subseteq Deliveries /\ robbed \subseteq robbed'
      /\ \A e \in Deliveries : e # d => del'[e] = del[e]
      /\ \/ del'[d] = del[d]
         \/ /\ del[d].status = "PROCESSING" /\ del'[d].attempts = del[d].attempts
            /\ del'[d].status = IF x[2] >= MaxAttempts THEN "DEAD_LETTERED" ELSE "PENDING"
            /\ del[d].attempts # x[2] => d \in robbed'
  <2>1. CASE del[d].status = "PROCESSING"
    <3>1. Row(d, Reclaimed(p, d, x[2])) /\ robbed' = IF del[d].attempts = x[2] THEN robbed ELSE robbed \cup {d}
      BY <1>1, <2>1 DEF d
    <3>2. /\ Reclaimed(p, d, x[2]) \in DeliveryRow /\ Reclaimed(p, d, x[2]).attempts = del[d].attempts
          /\ Reclaimed(p, d, x[2]).status = IF x[2] >= MaxAttempts THEN "DEAD_LETTERED" ELSE "PENDING"
      BY <1>2, Rows DEF RInv, TInv
    <3>3. /\ del' \in [Deliveries -> DeliveryRow] /\ del'[d] = Reclaimed(p, d, x[2])
          /\ \A e \in Deliveries : e # d => del'[e] = del[e]
      BY <1>2, <3>1, <3>2, RowSteps DEF RInv, TInv
    <3> QED
      BY <2>1, <1>2, <3>1, <3>2, <3>3, Typed DEF RInv, TInv
  <2>2. CASE del[d].status # "PROCESSING"
    BY <1>1, <2>2, Typed DEF RInv, TInv, d
  <2> QED
    BY <2>1, <2>2
<1>10. RunsHold'
  <2> SUFFICES ASSUME NEW q \in Passes, NEW e \in pass'[q].run \ robbed' PROVE Held(q, e)'
    BY DEF RunsHold
  <2>1. e \in pass[q].run \ robbed /\ e \in Deliveries /\ Held(q, e)
    BY <1>8, <1>9, Typed DEF RInv, TInv, RunsHold
  <2>2. del'[e] = del[e]
    <3>1. CASE e = d /\ del[d].status = "PROCESSING"
      <4>1. x[2] # del[d].attempts
        BY <2>1, <3>1, <1>1 DEF RInv, StaleIsOver, d
      <4> QED
        BY <3>1, <4>1, <1>9
    <3> QED
      BY <3>1, <1>9, <2>1
  <2> QED
    BY <2>1, <2>2, <1>3, <1>8 DEF Held
<1>11. StaleIsOver'
  <2> SUFFICES ASSUME NEW q \in Passes, NEW y \in pass'[q].stale
      PROVE /\ del'[y[1]].status # "NONE" /\ y[2] <= del'[y[1]].attempts
            /\ \A o \in Passes : y[1] \in pass'[o].run \ robbed' /\ y[2] = del'[y[1]].attempts =>
                  del'[y[1]].status # "PROCESSING"
    BY DEF StaleIsOver
  <2>1. y \in pass[q].stale /\ y[1] \in Deliveries
    BY <1>8, Typed DEF RInv, TInv
  <2>2. del'[y[1]].attempts = del[y[1]].attempts
        /\ (del'[y[1]].status = del[y[1]].status \/ del'[y[1]].status \in {"PENDING", "DEAD_LETTERED"})
    BY <2>1, <1>9
  <2> QED
    BY <2>1, <2>2, <1>8, <1>9 DEF RInv, StaleIsOver
<1>12. NoDoubleDispatch'
  BY <1>8, <1>9 DEF NoDoubleDispatch, RInv
<1>13. AttemptsAreLeft'
  <2> SUFFICES ASSUME NEW e \in Deliveries \ robbed'
      PROVE /\ del'[e].attempts <= MaxAttempts
            /\ del'[e].status \in {"NONE", "PENDING", "FAILED"} => del'[e].attempts < MaxAttempts
    BY DEF AttemptsAreLeft
  <2>1. /\ e \notin robbed /\ del[e].attempts <= MaxAttempts /\ del[e].attempts \in Nat
        /\ del[e].status \in {"NONE", "PENDING", "FAILED"} => del[e].attempts < MaxAttempts
    BY <1>9, Typed DEF RInv, TInv, AttemptsAreLeft
  <2>2. CASE del'[e] = del[e]
    BY <2>1, <2>2
  <2>3. CASE e = d /\ del'[d] # del[d]
    BY <2>1, <2>3, <1>2, <1>9, OptionsAssumption
  <2> QED
    BY <2>2, <2>3, <1>9
<1>14. \A e \in Deliveries : del[e].status = "SUCCEEDED" => del'[e].status = "SUCCEEDED"
  BY <1>9
<1> QED
  BY <1>7, <1>9, <1>10, <1>11, <1>12, <1>13, <1>14 DEF Kept

\* A claim takes a delivery nobody runs, and spends an attempt it has.
LEMMA ClaimKeeps ==
    ASSUME RInv, NEW p \in Passes, Claim(p)
    PROVE  /\ Kept' /\ pass' \in [Passes -> PassRecord] /\ PlacesOK'
           /\ del' \in [Deliveries -> DeliveryRow]
           /\ \A d \in Deliveries : del[d].status = "SUCCEEDED" => del'[d].status = "SUCCEEDED"
<1>1. PICK d \in pass[p].left :
         IF Claimable(p, d)
         THEN /\ Row(d, [del[d] EXCEPT !.status = "PROCESSING", !.attempts = @ + 1,
                                       !.ready = 0, !.held = pass[p].age])
              /\ pass' = [pass EXCEPT ![p].left = @ \ {d}, ![p].pc = "handle",
                              ![p].run = {d}, ![p].attempt = del[d].attempts + 1]
         ELSE pass' = [pass EXCEPT ![p].left = @ \ {d}] /\ UNCHANGED del
  BY DEF Claim
<1>2. /\ pass[p] \in PassRecord /\ PlaceOK(pass[p]) /\ pass[p].run = {} /\ pass[p].pc = "claim"
      /\ pass[p].change \in Changes /\ UNCHANGED <<robbed, unheard>>
  BY Typed DEF RInv, TInv, PlacesOK, PlaceOK, Claim
<1> DEFINE l == pass[p].left \ {d}
<1>3. d \in Deliveries /\ l \in SUBSET Deliveries
  BY <1>2 DEF PassRecord
<1>4. CASE ~Claimable(p, d)
  <2> DEFINE r == [pass[p] EXCEPT !.left = l]
  <2>1. pass' = [pass EXCEPT ![p] = r] /\ UNCHANGED del
    BY <1>1, <1>4
  <2> HIDE DEF l
  <2>2. r \in PassRecord /\ r.pc = pass[p].pc /\ r.run = pass[p].run /\ r.stale = pass[p].stale
        /\ r.change = pass[p].change
    BY <1>2, <1>3 DEF PassRecord
  <2> HIDE DEF r
  <2>3. LightStep(p)
    BY <1>2, <2>1, <2>2 DEF LightStep, PlaceOK
  <2> QED
    BY <2>3, LightKeeps
<1>5. CASE Claimable(p, d)
  <2> DEFINE r == [pass[p] EXCEPT !.left = l, !.pc = "handle", !.run = {d},
                                  !.attempt = del[d].attempts + 1]
             n == [del[d] EXCEPT !.status = "PROCESSING", !.attempts = del[d].attempts + 1,
                                 !.ready = 0, !.held = pass[p].age]
  <2>1. pass' = [pass EXCEPT ![p] = r] /\ Row(d, n)
    BY <1>1, <1>5
  <2>2. /\ del[d] \in DeliveryRow /\ del[d].attempts \in Nat /\ del[d].attempts + 1 \in Nat
        /\ pass[p].age \in Nat /\ pass[p].age \in 0 .. Lease + PassLife + 1
        /\ 0 \in -RetryDelay .. PassLife /\ {d} \in SUBSET Deliveries
    BY <1>3, Typed, OptionsAssumption DEF RInv, TInv
  <2> HIDE DEF l
  <2>3. /\ r \in PassRecord /\ r.pc = "handle" /\ r.run = {d} /\ r.stale = pass[p].stale
        /\ r.change = pass[p].change /\ r.attempt = del[d].attempts + 1 /\ r.age = pass[p].age
    BY <1>2, <1>3, <2>2 DEF PassRecord, Places
  <2>4. /\ n \in DeliveryRow /\ n.status = "PROCESSING" /\ n.attempts = del[d].attempts + 1
        /\ n.held = pass[p].age
    BY <2>2 DEF DeliveryRow
  <2> HIDE DEF r, n
  <2>5. /\ pass' \in [Passes -> PassRecord] /\ PlacesOK' /\ pass'[p] = r
        /\ \A q \in Passes : q # p => pass'[q] = pass[q]
    <3>1. PlaceOK(r)
      BY <1>2, <2>3 DEF PlaceOK
    <3> QED
      BY <2>1, <2>3, <3>1, PassGoes, PassSteps DEF RInv, TInv
  <2>6. /\ del' \in [Deliveries -> DeliveryRow] /\ del'[d] = n
        /\ \A e \in Deliveries : e # d => del'[e] = del[e]
    BY <1>3, <2>1, <2>4, RowSteps DEF RInv, TInv
  <2>7. del[d].status \in {"PENDING", "FAILED"}
    BY <1>5 DEF Claimable
  <2>8. \A q \in Passes : d \notin pass[q].run \ robbed
    BY <2>7 DEF RInv, RunsHold, Held
  <2>9. RunsHold'
    <3> SUFFICES ASSUME NEW q \in Passes, NEW e \in pass'[q].run \ robbed PROVE Held(q, e)'
      BY <1>2 DEF RunsHold
    <3>1. CASE q = p
      BY <3>1, <2>3, <2>4, <2>5, <2>6 DEF Held
    <3>2. CASE q # p
      <4>1. e \in pass[q].run \ robbed /\ e \in Deliveries /\ e # d
        BY <3>2, <2>5, <2>8, Typed DEF RInv, TInv
      <4> QED
        BY <4>1, <3>2, <1>2, <2>5, <2>6 DEF Held, RInv, RunsHold
    <3> QED
      BY <3>1, <3>2
  <2>10. StaleIsOver'
    <3> SUFFICES ASSUME NEW q \in Passes, NEW y \in pass'[q].stale
        PROVE /\ del'[y[1]].status # "NONE" /\ y[2] <= del'[y[1]].attempts
              /\ \A o \in Passes : y[1] \in pass'[o].run \ robbed /\ y[2] = del'[y[1]].attempts =>
                    del'[y[1]].status # "PROCESSING"
      BY <1>2 DEF StaleIsOver
    <3>1. y \in pass[q].stale /\ y[1] \in Deliveries /\ y[2] \in Nat
      BY <2>3, <2>5, Typed DEF RInv, TInv
    <3>2. CASE y[1] = d
      <4>1. y[2] <= del[d].attempts
        BY <3>1, <3>2 DEF RInv, StaleIsOver
      <4> QED
        BY <4>1, <3>1, <3>2, <2>2, <2>4, <2>6
    <3>3. CASE y[1] # d
      <4>1. del'[y[1]] = del[y[1]] /\ \A o \in Passes : y[1] \in pass'[o].run => y[1] \in pass[o].run
        BY <3>1, <3>3, <2>3, <2>5, <2>6
      <4> QED
        BY <3>1, <4>1 DEF RInv, StaleIsOver
    <3> QED
      BY <3>2, <3>3
  <2>11. NoDoubleDispatch'
    BY <1>2, <2>3, <2>5, <2>8 DEF NoDoubleDispatch, RInv
  <2>12. AttemptsAreLeft'
    BY <1>2, <1>3, <2>2, <2>4, <2>6, <2>7, OptionsAssumption
       DEF AttemptsAreLeft, RInv
  <2> QED
    BY <2>5, <2>6, <2>7, <2>9, <2>10, <2>11, <2>12 DEF Kept
<1> QED
  BY <1>4, <1>5

\* The outcome of a handler goes to a delivery its pass holds.
LEMMA OutcomeKeeps ==
    ASSUME RInv, NEW p \in Passes, NEW d \in pass[p].run, NEW n \in DeliveryRow,
           Row(d, n), n.attempts = del[d].attempts, n.status \notin {"NONE", "PENDING", "PROCESSING"},
           n.status = "FAILED" => n.attempts < MaxAttempts,
           NEW r \in PassRecord, PlaceOK(r), pass' = [pass EXCEPT ![p] = r], r.stale = pass[p].stale,
           \/ r.run = {} /\ UNCHANGED unheard
           \/ /\ r.run = pass[p].run /\ r.pc = "fail" /\ r.attempt = pass[p].attempt
              /\ n.status = "SUCCEEDED" /\ unheard' = unheard \cup {d},
           UNCHANGED robbed
    PROVE  /\ Kept' /\ pass' \in [Passes -> PassRecord] /\ PlacesOK'
           /\ del' \in [Deliveries -> DeliveryRow]
<1>1. d \in Deliveries /\ PlaceOK(pass[p])
  BY Typed DEF RInv, TInv, PlacesOK
<1>2. /\ pass' \in [Passes -> PassRecord] /\ PlacesOK' /\ pass'[p] = r
      /\ \A q \in Passes : q # p => pass'[q] = pass[q]
  BY PassGoes, PassSteps DEF RInv, TInv
<1>3. /\ del' \in [Deliveries -> DeliveryRow] /\ del'[d] = n
      /\ \A e \in Deliveries : e # d => del'[e] = del[e]
  BY <1>1, RowSteps DEF RInv, TInv
<1>4. \A q \in Passes : q # p => d \notin pass[q].run \ robbed
  BY DEF RInv, NoDoubleDispatch
<1>5. RunsHold'
  <2> SUFFICES ASSUME NEW q \in Passes, NEW e \in pass'[q].run \ robbed PROVE Held(q, e)'
    BY DEF RunsHold
  <2>1. CASE q = p
    <3>1. e = d
      BY <2>1, <1>1, <1>2 DEF PlaceOK
    <3>2. Held(p, d)
      BY <2>1, <3>1, <1>2 DEF RInv, RunsHold
    <3> QED
      BY <2>1, <3>1, <3>2, <1>2, <1>3 DEF Held
  <2>2. CASE q # p
    <3>1. e \in pass[q].run \ robbed /\ e \in Deliveries /\ e # d
      BY <2>2, <1>2, <1>4, Typed DEF RInv, TInv
    <3> QED
      BY <2>2, <3>1, <1>2, <1>3 DEF Held, RInv, RunsHold
  <2> QED
    BY <2>1, <2>2
<1>6. StaleIsOver'
  <2> SUFFICES ASSUME NEW q \in Passes, NEW y \in pass'[q].stale
      PROVE /\ del'[y[1]].status # "NONE" /\ y[2] <= del'[y[1]].attempts
            /\ \A o \in Passes : y[1] \in pass'[o].run \ robbed /\ y[2] = del'[y[1]].attempts =>
                  del'[y[1]].status # "PROCESSING"
    BY DEF StaleIsOver
  <2>1. y \in pass[q].stale /\ y[1] \in Deliveries
    BY <1>2, Typed DEF RInv, TInv
  <2>2. \A o \in Passes : pass'[o].run \subseteq pass[o].run
    BY <1>2
  <2>3. y[1] # d => del'[y[1]] = del[y[1]]
    BY <2>1, <1>3
  <2> QED
    BY <2>1, <2>2, <2>3, <1>3 DEF RInv, StaleIsOver
<1>7. NoDoubleDispatch'
  BY <1>2 DEF NoDoubleDispatch, RInv
<1>8. AttemptsAreLeft'
  BY <1>1, <1>3 DEF AttemptsAreLeft, RInv
<1> QED
  BY <1>2, <1>3, <1>5, <1>6, <1>7, <1>8 DEF Kept

\* A delivery that succeeded and is not robbed of its success has nobody who
\* could write a failure to it.
LEMMA NobodyFailsIt ==
    ASSUME RInv, NEW p \in Passes, NEW d \in pass[p].run, d \notin robbed \cup unheard
    PROVE  del[d].status = "PROCESSING"
BY DEF RInv, RunsHold, Held

\* The writes of an outcome keep what is said of deliveries, and leave a success.
LEMMA HandlerSteps ==
    ASSUME RInv, NEW p \in Passes, MarkSucceeded(p) \/ SucceedUnheard(p) \/ MarkFailed(p)
    PROVE  /\ Kept' /\ pass' \in [Passes -> PassRecord] /\ PlacesOK'
           /\ del' \in [Deliveries -> DeliveryRow] /\ unheard' \subseteq Deliveries
           /\ \A d \in Deliveries \ (robbed \cup unheard) :
                 del[d].status = "SUCCEEDED" => del'[d].status = "SUCCEEDED"
<1>t. pass[p] \in PassRecord /\ PlaceOK(pass[p]) /\ pass[p].run \subseteq Deliveries /\ unheard \subseteq Deliveries
  BY Typed DEF RInv, TInv, PlacesOK
<1>a. \A d \in pass[p].run : d \in Deliveries /\ del[d].attempts \in Nat
  BY Typed DEF RInv, TInv
<1>b. ASSUME NEW d \in pass[p].run, NEW n, Row(d, n), n \in DeliveryRow
      PROVE \A e \in Deliveries : e # d => del'[e] = del[e]
  BY <1>a, <1>b, RowSteps DEF RInv, TInv
<1>c. ASSUME Returns(p), pass[p].pc \in {"handle", "fail"}
      PROVE \E r \in PassRecord : PlaceOK(r) /\ pass' = [pass EXCEPT ![p] = r]
               /\ r.stale = pass[p].stale /\ r.run = {}
  <2> DEFINE r == [pass[p] EXCEPT !.pc = "claim", !.run = {}, !.attempt = 0]
  <2>1. r \in PassRecord /\ r.pc = "claim" /\ r.run = {} /\ r.stale = pass[p].stale
        /\ r.change = pass[p].change
    BY <1>t DEF PassRecord, Places
  <2>2. pass' = [pass EXCEPT ![p] = r]
    BY <1>c DEF Returns
  <2> HIDE DEF r
  <2> QED
    BY <2>1, <2>2, <1>t, <1>c DEF PlaceOK
<1>1. CASE MarkSucceeded(p)
  <2>1. PICK d \in pass[p].run : pass[p].pc = "handle" /\ Row(d, Succeeded(d)) /\ Returns(p)
    BY <1>1 DEF MarkSucceeded
  <2>2. PICK r \in PassRecord : PlaceOK(r) /\ pass' = [pass EXCEPT ![p] = r]
               /\ r.stale = pass[p].stale /\ r.run = {}
    BY <1>c, <2>1
  <2>3. /\ Succeeded(d) \in DeliveryRow /\ Succeeded(d).status = "SUCCEEDED"
        /\ Succeeded(d).attempts = del[d].attempts
    BY <1>a, Rows DEF RInv, TInv
  <2>4. UNCHANGED <<robbed, unheard>>
    BY <1>1 DEF MarkSucceeded
  <2>5. /\ Kept' /\ pass' \in [Passes -> PassRecord] /\ PlacesOK'
        /\ del' \in [Deliveries -> DeliveryRow]
    BY <2>1, <2>2, <2>3, <2>4, OutcomeKeeps
  <2>6. del'[d] = Succeeded(d)
    BY <1>a, <2>1, <2>3, RowSteps DEF RInv, TInv
  <2> QED
    BY <1>b, <1>t, <2>1, <2>3, <2>4, <2>5, <2>6
<1>2. CASE SucceedUnheard(p)
  <2>1. PICK d \in pass[p].run : /\ pass[p].pc = "handle" /\ Row(d, Succeeded(d)) /\ Goes(p, "fail")
                                 /\ unheard' = unheard \cup {d}
    BY <1>2 DEF SucceedUnheard
  <2> DEFINE r == [pass[p] EXCEPT !.pc = "fail"]
  <2>2. r \in PassRecord /\ r.pc = "fail" /\ r.run = pass[p].run /\ r.stale = pass[p].stale
        /\ r.change = pass[p].change /\ r.attempt = pass[p].attempt
    BY <1>t DEF PassRecord, Places
  <2>3. pass' = [pass EXCEPT ![p] = r]
    BY <2>1 DEF Goes
  <2> HIDE DEF r
  <2>4. PlaceOK(r)
    BY <1>t, <2>1, <2>2 DEF PlaceOK
  <2>5. /\ Succeeded(d) \in DeliveryRow /\ Succeeded(d).status = "SUCCEEDED"
        /\ Succeeded(d).attempts = del[d].attempts
    BY <1>a, Rows DEF RInv, TInv
  <2>6. UNCHANGED robbed
    BY <1>2 DEF SucceedUnheard
  <2>7. /\ Kept' /\ pass' \in [Passes -> PassRecord] /\ PlacesOK'
        /\ del' \in [Deliveries -> DeliveryRow]
    BY <2>1, <2>2, <2>3, <2>4, <2>5, <2>6, OutcomeKeeps
  <2>8. del'[d] = Succeeded(d)
    BY <1>a, <2>1, <2>5, RowSteps DEF RInv, TInv
  <2> QED
    BY <1>a, <1>b, <1>t, <2>1, <2>5, <2>7, <2>8
<1>3. CASE MarkFailed(p)
  <2>1. PICK d \in pass[p].run : pass[p].pc \in {"handle", "fail"} /\ Row(d, Failed(p, d)) /\ Returns(p)
    BY <1>3 DEF MarkFailed
  <2>2. PICK r \in PassRecord : PlaceOK(r) /\ pass' = [pass EXCEPT ![p] = r]
               /\ r.stale = pass[p].stale /\ r.run = {}
    BY <1>c, <2>1
  <2>3. /\ Failed(p, d) \in DeliveryRow /\ Failed(p, d).attempts = del[d].attempts
        /\ Failed(p, d).status = IF del[d].attempts >= MaxAttempts THEN "DEAD_LETTERED" ELSE "FAILED"
    BY <1>a, Rows DEF RInv, TInv
  <2>4. Failed(p, d).status = "FAILED" => Failed(p, d).attempts < MaxAttempts
    BY <1>a, <2>3, OptionsAssumption
  <2>5. UNCHANGED <<robbed, unheard>>
    BY <1>3 DEF MarkFailed
  <2>6. /\ Kept' /\ pass' \in [Passes -> PassRecord] /\ PlacesOK'
        /\ del' \in [Deliveries -> DeliveryRow]
    BY <2>1, <2>2, <2>3, <2>4, <2>5, OutcomeKeeps
  <2> QED
    BY <1>b, <1>t, <2>1, <2>3, <2>5, <2>6, NobodyFailsIt
<1> QED
  BY <1>1, <1>2, <1>3

-----------------------------------------------------------------------------
\* Time passes for all alike: a pass and the claim it holds stay of one age.
LEMMA TickKeeps ==
    ASSUME RInv, Tick
    PROVE  /\ Kept' /\ pass' \in [Passes -> PassRecord] /\ PlacesOK'
           /\ del' \in [Deliveries -> DeliveryRow]
           /\ \A d \in Deliveries : del[d].status = "SUCCEEDED" => del'[d].status = "SUCCEEDED"
<1>1. UNCHANGED <<robbed, unheard>>
  BY DEF Tick
<1>2. \A q \in Passes :
        /\ pass'[q] \in PassRecord /\ pass'[q].pc = pass[q].pc /\ pass'[q].run = pass[q].run
        /\ pass'[q].stale = pass[q].stale /\ pass'[q].attempt = pass[q].attempt
        /\ pass'[q].change = pass[q].change
        /\ pass[q].pc # "idle" => pass[q].age < PassLife /\ pass'[q].age = pass[q].age + 1
  <2> SUFFICES ASSUME NEW q \in Passes PROVE <1>2!(q)
    OBVIOUS
  <2>1. pass[q] \in PassRecord /\ pass[q].age \in Nat
    BY Typed DEF RInv, TInv
  <2>2. CASE pass[q].pc = "idle"
    BY <2>1, <2>2 DEF Tick
  <2>3. CASE pass[q].pc # "idle"
    <3> DEFINE n == pass[q].age + 1
               r == [pass[q] EXCEPT !.age = n]
    <3>1. pass[q].age < PassLife /\ pass'[q] = r
      BY <2>3 DEF Tick
    <3>2. n \in 0 .. PassLife
      BY <2>1, <3>1, OptionsAssumption
    <3> HIDE DEF n
    <3>3. /\ r \in PassRecord /\ r.pc = pass[q].pc /\ r.run = pass[q].run /\ r.stale = pass[q].stale
          /\ r.attempt = pass[q].attempt /\ r.change = pass[q].change /\ r.age = n
      BY <2>1, <3>2 DEF PassRecord
    <3> HIDE DEF r
    <3> QED
      BY <2>3, <3>1, <3>3 DEF n
  <2> QED
    BY <2>2, <2>3
<1>3. pass' \in [Passes -> PassRecord]
  BY <1>2 DEF Tick
<1>4. \A d \in Deliveries :
        /\ del'[d] \in DeliveryRow /\ del'[d].status = del[d].status
        /\ del'[d].attempts = del[d].attempts
        /\ del[d].status = "PROCESSING" /\ del[d].held < PassLife => del'[d].held = del[d].held + 1
  <2> SUFFICES ASSUME NEW d \in Deliveries PROVE <1>4!(d)
    OBVIOUS
  <2> DEFINE n == Older(del[d].ready, PassLife)
             h == Older(del[d].held, Lease + PassLife + 1)
             a == [del[d] EXCEPT !.ready = n]
             b == [del[d] EXCEPT !.held = h]
  <2>1. /\ del[d] \in DeliveryRow /\ del[d].ready \in -RetryDelay .. PassLife
        /\ del[d].held \in 0 .. Lease + PassLife + 1
    BY Typed DEF RInv, TInv, TypeOK, DeliveryRow
  <2>2. n \in -RetryDelay .. PassLife /\ h \in 0 .. Lease + PassLife + 1
        /\ (del[d].held < PassLife => h = del[d].held + 1)
    BY <2>1, OptionsAssumption DEF Older
  <2>3. \/ del[d].status \in {"PENDING", "FAILED"} /\ del'[d] = a
        \/ del[d].status = "PROCESSING" /\ del'[d] = b
        \/ del[d].status \notin {"PENDING", "FAILED", "PROCESSING"} /\ del'[d] = del[d]
    BY DEF Tick
  <2> HIDE DEF n, h
  <2>4. /\ a \in DeliveryRow /\ a.status = del[d].status /\ a.attempts = del[d].attempts
        /\ b \in DeliveryRow /\ b.status = del[d].status /\ b.attempts = del[d].attempts
        /\ b.held = h
    BY <2>1, <2>2 DEF DeliveryRow
  <2> HIDE DEF a, b
  <2> QED
    BY <2>1, <2>2, <2>3, <2>4
<1>5. del' \in [Deliveries -> DeliveryRow]
  BY <1>4 DEF Tick
<1>6. PlacesOK'
  BY <1>2 DEF RInv, TInv, PlacesOK, PlaceOK
<1>7. RunsHold'
  <2> SUFFICES ASSUME NEW q \in Passes, NEW d \in pass'[q].run \ robbed PROVE Held(q, d)'
    BY <1>1 DEF RunsHold
  <2>1. d \in pass[q].run \ robbed /\ d \in Deliveries /\ Held(q, d) /\ pass[q].pc \in {"handle", "fail"}
    BY <1>2, Typed DEF RInv, TInv, RunsHold, PlacesOK, PlaceOK
  <2>2. pass[q].age < PassLife /\ pass'[q].age = pass[q].age + 1
    BY <1>2, <2>1
  <2>3. del[d].status = "PROCESSING" /\ del[d].held = pass[q].age => del'[d].held = pass'[q].age
    BY <1>4, <2>1, <2>2
  <2> QED
    BY <1>1, <1>2, <1>4, <2>1, <2>3 DEF Held
<1>8. StaleIsOver'
  <2>1. \A q \in Passes : \A x \in pass[q].stale : x[1] \in Deliveries
    BY Typed DEF RInv, TInv
  <2> QED
    BY <1>1, <1>2, <1>4, <2>1 DEF RInv, StaleIsOver
<1>9. NoDoubleDispatch'
  BY <1>1, <1>2 DEF RInv, NoDoubleDispatch
<1>10. AttemptsAreLeft'
  BY <1>1, <1>4 DEF RInv, AttemptsAreLeft
<1> QED
  BY <1>3, <1>4, <1>5, <1>6, <1>7, <1>8, <1>9, <1>10 DEF Kept

\* A step that leaves the passes and the deliveries alone keeps what is said of them.
LEMMA QuietKeeps ==
    ASSUME RInv, UNCHANGED <<del, pass, robbed, unheard>>
    PROVE  Kept' /\ PlacesOK'
<1>1. RunsHold' /\ StaleIsOver'
  BY DEF RInv, RunsHold, StaleIsOver, Held
<1>2. NoDoubleDispatch' /\ AttemptsAreLeft' /\ PlacesOK'
  BY DEF RInv, TInv, NoDoubleDispatch, AttemptsAreLeft, PlacesOK
<1> QED
  BY <1>1, <1>2 DEF Kept

\* The initial state: nothing runs.
LEMMA RInvInit == Init => RInv
<1> SUFFICES ASSUME Init PROVE RInv
  OBVIOUS
<1>1. /\ NoDelivery \in DeliveryRow /\ NoDelivery.status = "NONE" /\ NoDelivery.attempts = 0
  <2>1. 0 \in -RetryDelay .. PassLife /\ 0 \in 0 .. Lease + PassLife + 1
    BY OptionsAssumption
  <2> QED
    BY <2>1 DEF NoDelivery, DeliveryRow
<1>2. IdlePass \in PassRecord /\ PlaceOK(IdlePass) /\ IdlePass.run = {} /\ IdlePass.stale = {}
  BY IdleIsPass, IdleIsPlaced DEF IdlePass
<1> HIDE DEF NoDelivery, IdlePass
<1>3. TypeOK
  BY <1>1, <1>2, OptionsAssumption DEF Init, TypeOK
<1>4. PlacesOK /\ RunsHold /\ StaleIsOver /\ NoDoubleDispatch
  BY <1>2 DEF Init, PlacesOK, RunsHold, StaleIsOver, NoDoubleDispatch
<1>5. AttemptsAreLeft
  BY <1>1, OptionsAssumption DEF Init, AttemptsAreLeft
<1> QED
  BY <1>3, <1>4, <1>5 DEF RInv, TInv

\* Every step keeps RInv, and no step takes a success away that was neither
\* robbed nor unheard.
LEMMA RInvNext ==
    ASSUME RInv, [Next]_vars
    PROVE  /\ RInv'
           /\ \A d \in Deliveries \ (robbed' \cup unheard') :
                 del[d].status = "SUCCEEDED" => del'[d].status = "SUCCEEDED"
<1> DEFINE Good == /\ Kept' /\ PlacesOK' /\ pass' \in [Passes -> PassRecord]
                   /\ del' \in [Deliveries -> DeliveryRow]
           Rest == /\ outbox' \in [Changes -> {"NONE"} \cup Working \cup Concluded]
                   /\ active' \subseteq Subs /\ faults' \in 0 .. MaxFaults
                   /\ robbed' \subseteq Deliveries /\ unheard' \subseteq Deliveries
           Stands == \A d \in Deliveries \ (robbed' \cup unheard') :
                 del[d].status = "SUCCEEDED" => del'[d].status = "SUCCEEDED"
<1>t. /\ outbox \in [Changes -> {"NONE"} \cup Working \cup Concluded] /\ active \subseteq Subs
      /\ robbed \subseteq Deliveries /\ unheard \subseteq Deliveries /\ faults \in 0 .. MaxFaults
      /\ del \in [Deliveries -> DeliveryRow] /\ pass \in [Passes -> PassRecord]
  BY Typed DEF RInv, TInv
<1>f. faults < MaxFaults => faults + 1 \in 0 .. MaxFaults
  BY <1>t, OptionsAssumption
<1>1. ASSUME NEW c \in Changes, Enqueue(c) PROVE Good /\ Rest /\ Stands
  <2>1. UNCHANGED <<active, del, pass, robbed, unheard, faults>>
        /\ outbox' \in [Changes -> {"NONE"} \cup Working \cup Concluded]
    BY <1>1, <1>t DEF Enqueue, Working
  <2> QED
    BY <2>1, <1>t, QuietKeeps
<1>2. ASSUME NEW s \in Switched, SetStatus(s) PROVE Good /\ Rest /\ Stands
  <2>1. UNCHANGED <<outbox, del, pass, robbed, unheard, faults>> /\ active' \subseteq Subs
    BY <1>2, <1>t, SubsAssumption DEF SetStatus
  <2> QED
    BY <2>1, <1>t, QuietKeeps
<1>3. ASSUME NEW p \in Passes,
             \/ Start(p) \/ ListActive(p) \/ MarkProcessing(p) \/ FindMatching(p)
             \/ Ensure(p) \/ ListForOutbox(p) \/ ReadDeliveries(p) \/ ReconcileParent(p)
      PROVE Good /\ Rest /\ Stands
  <2>1. LightStep(p) /\ outbox' \in [Changes -> {"NONE"} \cup Working \cup Concluded]
        /\ UNCHANGED <<active, faults>>
    BY <1>3, LightSteps DEF RInv
  <2>2. UNCHANGED <<robbed, unheard>>
    BY <2>1 DEF LightStep
  <2> QED
    BY <2>1, <2>2, <1>t, LightKeeps
<1>4. ASSUME NEW p \in Passes, FindStale(p) PROVE Good /\ Rest /\ Stands
  <2>1. UNCHANGED <<outbox, active, del, robbed, unheard, faults>>
    BY <1>4 DEF FindStale
  <2> QED
    BY <1>4, <2>1, <1>t, FindKeeps
<1>5. ASSUME NEW p \in Passes, ReclaimStale(p) PROVE Good /\ Rest /\ Stands
  <2>1. UNCHANGED <<outbox, active, unheard, faults>>
    BY <1>5 DEF ReclaimStale
  <2> QED
    BY <1>5, <2>1, <1>t, ReclaimKeeps
<1>6. ASSUME NEW p \in Passes, Claim(p) PROVE Good /\ Rest /\ Stands
  <2>1. UNCHANGED <<outbox, active, robbed, unheard, faults>>
    BY <1>6 DEF Claim
  <2> QED
    BY <1>6, <2>1, <1>t, ClaimKeeps
<1>7. ASSUME NEW p \in Passes, MarkSucceeded(p) \/ SucceedUnheard(p) \/ MarkFailed(p)
      PROVE Good /\ Rest /\ Stands
  <2>1. /\ UNCHANGED <<outbox, active, robbed>> /\ faults' \in 0 .. MaxFaults
        /\ unheard \subseteq unheard'
    BY <1>7, <1>t, <1>f DEF MarkSucceeded, SucceedUnheard, MarkFailed
  <2>2. /\ Good /\ unheard' \subseteq Deliveries
        /\ \A d \in Deliveries \ (robbed \cup unheard) :
                 del[d].status = "SUCCEEDED" => del'[d].status = "SUCCEEDED"
    BY <1>7, HandlerSteps
  <2>3. Rest
    BY <2>1, <2>2, <1>t
  <2>4. Stands
    BY <2>1, <2>2
  <2> QED
    BY <2>2, <2>3, <2>4
<1>8. ASSUME NEW p \in Passes, Die(p) PROVE Good /\ Rest /\ Stands
  <2>1. /\ UNCHANGED <<outbox, active, del, robbed, unheard>> /\ faults' \in 0 .. MaxFaults
        /\ pass' = [pass EXCEPT ![p] = IdlePass]
    BY <1>8, <1>f DEF Die
  <2> QED
    BY <2>1, <1>t, DieKeeps
<1>9. ASSUME Tick PROVE Good /\ Rest /\ Stands
  <2>1. UNCHANGED <<outbox, active, robbed, unheard, faults>>
    BY <1>9 DEF Tick
  <2> QED
    BY <1>9, <2>1, <1>t, TickKeeps
<1>10. ASSUME UNCHANGED vars PROVE Good /\ Rest /\ Stands
  BY <1>10, <1>t, QuietKeeps DEF vars
<1>11. Good /\ Rest /\ Stands
  <2> HIDE DEF Good, Rest, Stands
  <2> QED
    BY <1>1, <1>2, <1>3, <1>4, <1>5, <1>6, <1>7, <1>8, <1>9, <1>10 DEF Next, Run
<1>12. TypeOK'
  BY <1>11 DEF TypeOK
<1> QED
  BY <1>11, <1>12 DEF RInv, TInv, Kept

-----------------------------------------------------------------------------
\* RInv holds in every state, for any number of passes and deliveries.
THEOREM Invariance == Spec => []RInv
<1>1. RInv /\ [Next]_vars => RInv'
  BY RInvNext
<1> QED
  BY <1>1, RInvInit, PTL DEF Spec

\* Every variable keeps its type, whatever passes overlap or die.
THEOREM Types == Spec => []TypeOK
<1>1. RInv => TypeOK
  BY DEF RInv, TInv
<1> QED
  BY <1>1, Invariance, PTL

\* No two passes run one delivery at once (claim's conditional write and the
\* lease), unless a reclaim robbed it.
THEOREM NoDoubleDispatchHolds == Spec => []NoDoubleDispatch
<1>1. RInv => NoDoubleDispatch
  BY DEF RInv
<1> QED
  BY <1>1, Invariance, PTL

\* The outcome a pass writes by the row's id alone (markSucceeded, markFailed)
\* finds the pass's own claim.
THEOREM HandlerHolds == Spec => []HandlerHoldsTheDelivery
<1>1. RInv => HandlerHoldsTheDelivery
  BY DEF RInv, RunsHold, Held, HandlerHoldsTheDelivery
<1> QED
  BY <1>1, Invariance, PTL

\* A delivery is tried MaxAttempts times at most, whichever passes die with it.
THEOREM AttemptsBounded == Spec => []AttemptsAreBounded
<1>1. RInv => AttemptsAreBounded
  BY DEF RInv, AttemptsAreLeft, AttemptsAreBounded
<1> QED
  BY <1>1, Invariance, PTL

\* No later write takes back a delivery's success.
THEOREM SuccessStandsHolds == Spec => SuccessStands
<1>1. RInv /\ [Next]_vars => [\A d \in Deliveries \ (robbed' \cup unheard') :
            del[d].status = "SUCCEEDED" => del'[d].status = "SUCCEEDED"]_vars
  BY RInvNext
<1> QED
  BY <1>1, Invariance, PTL DEF Spec, SuccessStands

-----------------------------------------------------------------------------
(* What the parent is told: CInv.                                           *)

\* How long after it was created a delivery spends its n-th attempt at the soonest.
Waits(n) == n * RetryDelay

\* Required deliveries whose outcome nobody took and everybody heard.
Clean == {d \in Deliveries \ (robbed \cup unheard) : d[2] \in RequiredSubs}
Spoilt(c) == \E s \in Subs : <<c, s>> \in robbed \cup unheard
Refused(c) == \E s \in RequiredSubs : del[<<c, s>>].status = "DEAD_LETTERED"

\* A pass works on one row of its batch, and on deliveries of that row.
OnRow(p) ==
    /\ pass[p].pc = "idle" => pass[p].todo = {}
    /\ pass[p].pc \in {"match", "ensure", "claim", "handle", "fail", "conclude"}
         => pass[p].change \in pass[p].todo
    /\ pass[p].pc \in {"ensure", "claim", "handle", "fail"}
         => \A d \in pass[p].left \cup pass[p].run : d[1] = pass[p].change
RowsOK == \A p \in Passes : OnRow(p)

\* What is held was claimed, and what was found stale has outlived the lease.
Claimed == \A d \in Deliveries : del[d].status = "PROCESSING" => del[d].attempts # 0
StaleIsOld == \A q \in Passes : \A x \in pass[q].stale :
    del[x[1]].status = "PROCESSING" /\ del[x[1]].attempts = x[2]
        => del[x[1]].held - pass[q].age > Lease

\* A delivery was created n ago at the most, so it spent few of its attempts.
Within(d, n) ==
    /\ del[d].status # "DEAD_LETTERED"
    /\ del[d].status \in {"PENDING", "FAILED"} => del[d].ready + Waits(del[d].attempts) <= n
    /\ del[d].status = "PROCESSING" => del[d].held + Waits(del[d].attempts) <= n + RetryDelay
\* So said of a pass that may still claim it, or the pass started before it is due.
Harmless(d, q) ==
    \/ Within(d, 2 * PassLife + pass[q].age)
    \/ del[d].status \in {"PENDING", "FAILED"} /\ del[d].ready < pass[q].age

\* A pass about to publish has seen every required delivery succeed, or the
\* delivery is younger than the reading; one about to give up has seen a refusal.
VerdictOK == \A p \in Passes : pass[p].pc = "conclude" =>
    /\ pass[p].verdict = "PUBLISHED" =>
          \A d \in Clean : d[1] = pass[p].change => Within(d, PassLife + pass[p].age)
    /\ pass[p].verdict = "DEAD_LETTERED" => Refused(pass[p].change) \/ Spoilt(pass[p].change)
\* What is published stays undecided at worst: nobody who could still run it has
\* the time to spend its attempts.
PublishedOK == \A d \in Clean : outbox[d[1]] = "PUBLISHED" =>
    /\ del[d].status # "DEAD_LETTERED"
    /\ del[d].status # "SUCCEEDED" => del[d].attempts < MaxAttempts
    /\ \A q \in Passes : d[1] \in pass[q].todo => Harmless(d, q)
GivenUpOK == \A c \in Changes : outbox[c] = "DEAD_LETTERED" => Refused(c) \/ Spoilt(c)

CInv == RowsOK /\ Claimed /\ StaleIsOld /\ VerdictOK /\ PublishedOK /\ GivenUpOK

-----------------------------------------------------------------------------
\* Each attempt waits for one delay more.
LEMMA WaitsAdd ==
    /\ Waits(0) = 0
    /\ \A n \in Nat : Waits(n) \in Nat /\ Waits(n + 1) = Waits(n) + RetryDelay
    /\ \A m, n \in Nat : m <= n => Waits(m) <= Waits(n)
<1>0. RetryDelay \in Nat
  BY OptionsAssumption
<1>1. \A n \in Nat : n * RetryDelay \in Nat /\ (n + 1) * RetryDelay = n * RetryDelay + RetryDelay
  BY <1>0
<1>2. ASSUME NEW m \in Nat, NEW n \in Nat, m <= n PROVE m * RetryDelay <= n * RetryDelay
  <2>1. n - m \in Nat /\ n = (n - m) + m
    BY <1>2
  <2>2. \A k \in Nat : k * RetryDelay >= 0 /\ (k + m) * RetryDelay = k * RetryDelay + m * RetryDelay
    BY <1>0, <1>2
  <2>3. (n - m) * RetryDelay >= 0 /\ n * RetryDelay = (n - m) * RetryDelay + m * RetryDelay
    BY <2>1, <2>2
  <2> QED
    BY <2>1, <2>3, <1>0, <1>1
<1> QED
  BY <1>0, <1>1, <1>2 DEF Waits

\* A delivery cannot spend its attempts while a pass and its reader live.
LEMMA WaitsOutlast ==
    /\ 2 * PassLife + RetryDelay < Waits(MaxAttempts)
    /\ \A n \in Nat : Waits(n) <= 2 * PassLife + RetryDelay => n < MaxAttempts
    /\ \A n \in Nat : Waits(n) <= 2 * PassLife => n + 1 < MaxAttempts
<1>1. /\ RetryDelay \in Nat /\ PassLife \in Nat /\ MaxAttempts \in Nat /\ MaxAttempts - 1 \in Nat
      /\ 2 * PassLife < (MaxAttempts - 1) * RetryDelay
  BY OptionsAssumption, TimingAssumption
<1>2. Waits(MaxAttempts) = Waits(MaxAttempts - 1) + RetryDelay
      /\ Waits(MaxAttempts - 1) = (MaxAttempts - 1) * RetryDelay
  <2>1. Waits((MaxAttempts - 1) + 1) = Waits(MaxAttempts - 1) + RetryDelay
    BY <1>1, WaitsAdd
  <2>2. (MaxAttempts - 1) + 1 = MaxAttempts
    BY <1>1
  <2> QED
    BY <2>1, <2>2 DEF Waits
<1>3. 2 * PassLife + RetryDelay < Waits(MaxAttempts)
  <2>1. Waits(MaxAttempts - 1) \in Nat /\ 2 * PassLife < Waits(MaxAttempts - 1)
    BY <1>1, <1>2, WaitsAdd
  <2> QED
    BY <2>1, <1>1, <1>2
<1>4. ASSUME NEW n \in Nat, Waits(n) <= 2 * PassLife + RetryDelay PROVE n < MaxAttempts
  <2>1. Waits(n) \in Nat /\ Waits(MaxAttempts) \in Nat
    BY <1>1, WaitsAdd
  <2>2. MaxAttempts <= n => Waits(MaxAttempts) <= Waits(n)
    BY <1>1, WaitsAdd
  <2> QED
    BY <1>1, <1>3, <1>4, <2>1, <2>2
<1>5. ASSUME NEW n \in Nat, Waits(n) <= 2 * PassLife PROVE n + 1 < MaxAttempts
  <2>1. Waits(n) \in Nat /\ Waits(n + 1) = Waits(n) + RetryDelay /\ n + 1 \in Nat
    BY WaitsAdd
  <2> QED
    BY <1>1, <1>4, <1>5, <2>1
<1> QED
  BY <1>3, <1>4, <1>5

-----------------------------------------------------------------------------
(* What a step other than Tick does, whoever takes it.                      *)

Created(p, d) ==
    /\ del[d].status = "NONE" /\ d[1] \in pass[p].todo
    /\ del'[d].status = "PENDING" /\ del'[d].attempts = 0 /\ del'[d].ready = pass[p].age
Taken(p, d) ==
    /\ Claimable(p, d) /\ d[1] \in pass[p].todo
    /\ del'[d].status = "PROCESSING" /\ del'[d].attempts = del[d].attempts + 1
    /\ del'[d].held = pass[p].age
Ended(p, d) ==
    /\ d \in pass[p].run /\ d[1] \in pass[p].todo
    /\ \/ del'[d].status = "SUCCEEDED"
       \/ del'[d].status = "DEAD_LETTERED" /\ del[d].attempts >= MaxAttempts
       \/ /\ del'[d].status = "FAILED" /\ del'[d].attempts = del[d].attempts
          /\ del'[d].ready = pass[p].age - RetryDelay
Freed(p, d) ==
    /\ del[d].status = "PROCESSING" /\ del'[d].status \in {"DEAD_LETTERED", "PENDING"}
    /\ d \notin robbed' =>
          /\ del[d].held - pass[p].age > Lease
          /\ del'[d].status = "DEAD_LETTERED" => del[d].attempts >= MaxAttempts
          /\ del'[d].status = "PENDING" =>
                del'[d].attempts = del[d].attempts /\ del'[d].ready = pass[p].age
Touched(p, d) == Created(p, d) \/ Taken(p, d) \/ Ended(p, d) \/ Freed(p, d)
DelMoves == \A d \in Deliveries : del'[d] = del[d] \/ \E p \in Passes : Touched(p, d)

\* A batch grows by rows that wait; a verdict and a stale list are read, or kept.
PassMove(q) ==
    /\ OnRow(q)'
    /\ \A c \in pass'[q].todo :
          (c \in pass[q].todo \/ outbox[c] \in Working) /\ pass'[q].age = pass[q].age
    /\ pass'[q].pc = "conclude" => pass'[q] = pass[q] \/ ReadDeliveries(q)
    /\ \A x \in pass'[q].stale :
          /\ pass'[q].age = pass[q].age
          /\ \/ x \in pass[q].stale
             \/ UNCHANGED del /\ x[2] = del[x[1]].attempts /\ Abandoned(q, x[1])
PassMoves == \A q \in Passes : PassMove(q)

\* A row is concluded by a verdict only, and never reopened.
OutboxMoves == \A c \in Changes :
    \/ outbox'[c] = outbox[c]
    \/ outbox[c] \notin Concluded /\ outbox'[c] \notin Concluded
    \/ \E p \in Passes : /\ pass[p].pc = "conclude" /\ pass[p].change = c
                         /\ outbox'[c] = pass[p].verdict /\ UNCHANGED del

Moves == /\ DelMoves /\ PassMoves /\ OutboxMoves
         /\ robbed \subseteq robbed' /\ unheard \subseteq unheard'

\* A pass that stays on its row, or leaves it, moves so.
LEMMA StaysOnRow ==
    ASSUME TypeOK, RowsOK, NEW p \in Passes, NEW r \in PassRecord, pass' = [pass EXCEPT ![p] = r],
           r.pc # "idle", r.pc # "conclude", r.todo = pass[p].todo, r.age = pass[p].age,
           r.stale \subseteq pass[p].stale,
           r.pc \in {"match", "ensure", "claim", "handle", "fail"} => r.change \in r.todo,
           r.pc \in {"ensure", "claim", "handle", "fail"} =>
               \A d \in r.left \cup r.run : d[1] = r.change
    PROVE  PassMoves
<1>1. pass'[p] = r /\ \A q \in Passes : q # p => pass'[q] = pass[q]
  BY PassSteps
<1>2. PassMove(p)
  <2>1. OnRow(p)'
    BY <1>1 DEF OnRow
  <2> QED
    BY <1>1, <2>1 DEF PassMove
<1>3. ASSUME NEW q \in Passes, q # p PROVE PassMove(q)
  BY <1>1, <1>3 DEF RowsOK, OnRow, PassMove
<1> QED
  BY <1>2, <1>3 DEF PassMoves

\* So does one that goes on to the next row, or is over.
LEMMA ProceedMoves ==
    ASSUME TypeOK, RowsOK, NEW p \in Passes, NEW todo \in SUBSET pass[p].todo,
           Proceeds(p, todo) \/ pass' = [pass EXCEPT ![p] = IdlePass]
    PROVE  PassMoves
<1>1. /\ pass'[p].pc \in {"idle", "next"} /\ pass'[p].stale = {}
      /\ \/ pass'[p].todo = {}
         \/ pass'[p].todo = todo /\ pass'[p].pc = "next" /\ pass'[p].age = pass[p].age
      /\ \A q \in Passes : q # p => pass'[q] = pass[q]
  <2>1. IdlePass.pc = "idle" /\ IdlePass.todo = {} /\ IdlePass.stale = {}
    BY DEF IdlePass
  <2>2. CASE pass' = [pass EXCEPT ![p] = IdlePass]
    BY <2>1, <2>2 DEF TypeOK
  <2>3. CASE todo # {} /\ Proceeds(p, todo)
    <3> DEFINE r == [IdlePass EXCEPT !.pc = "next", !.age = pass[p].age,
                          !.todo = todo, !.fresh = pass[p].fresh \cap todo]
    <3>1. r.pc = "next" /\ r.todo = todo /\ r.stale = {} /\ r.age = pass[p].age
      BY DEF IdlePass
    <3>2. pass' = [pass EXCEPT ![p] = r]
      BY <2>3 DEF Proceeds
    <3> HIDE DEF r
    <3> QED
      BY <3>1, <3>2 DEF TypeOK
  <2> QED
    BY <2>2, <2>3 DEF Proceeds
<1>2. PassMove(p)
  <2>1. OnRow(p)'
    BY <1>1 DEF OnRow
  <2> QED
    BY <1>1, <2>1 DEF PassMove
<1>3. ASSUME NEW q \in Passes, q # p PROVE PassMove(q)
  BY <1>1, <1>3 DEF RowsOK, OnRow, PassMove
<1> QED
  BY <1>2, <1>3 DEF PassMoves

\* The moves of the passes, read by read.
LEMMA ReadMoves ==
    ASSUME TInv, RowsOK, NEW p \in Passes,
           \/ Start(p) \/ FindStale(p) \/ ListActive(p) \/ MarkProcessing(p) \/ FindMatching(p)
           \/ ListForOutbox(p) \/ ReadDeliveries(p) \/ ReconcileParent(p) \/ Die(p)
    PROVE  PassMoves
<1>t. /\ TypeOK /\ pass[p] \in PassRecord /\ OnRow(p) /\ PlaceOK(pass[p])
      /\ pass[p].todo \subseteq Changes /\ pass[p].left \subseteq Deliveries
  BY Typed DEF TInv, RowsOK, PlacesOK
<1>1. CASE Start(p)
  <2> DEFINE r == [pass[p] EXCEPT !.pc = "recover"]
  <2>1. r \in PassRecord /\ r.pc = "recover" /\ r.todo = pass[p].todo /\ r.age = pass[p].age
        /\ r.stale = pass[p].stale
    BY <1>t DEF PassRecord, Places
  <2>2. pass' = [pass EXCEPT ![p] = r]
    BY <1>1 DEF Start, Goes
  <2> HIDE DEF r
  <2> QED
    BY <1>t, <2>1, <2>2, StaysOnRow
<1>2. CASE FindStale(p)
  <2> DEFINE l == {<<d, del[d].attempts>> : d \in {e \in Deliveries : Abandoned(p, e)}}
             r == [pass[p] EXCEPT !.pc = "reclaim", !.stale = l]
  <2>1. /\ \A x \in l : x[1] \in Deliveries /\ Abandoned(p, x[1]) /\ x[2] = del[x[1]].attempts
        /\ l \in SUBSET (Deliveries \X Nat)
    BY Typed DEF TInv
  <2> HIDE DEF l
  <2>2. r \in PassRecord /\ r.pc = "reclaim" /\ r.todo = pass[p].todo /\ r.age = pass[p].age
        /\ r.stale = l
    BY <1>t, <2>1 DEF PassRecord, Places
  <2>3. pass' = [pass EXCEPT ![p] = r] /\ UNCHANGED del
    BY <1>2 DEF FindStale, l
  <2> HIDE DEF r
  <2>4. pass'[p] = r /\ \A q \in Passes : q # p => pass'[q] = pass[q]
    BY <1>t, <2>2, <2>3, PassSteps
  <2>5. PassMove(p)
    BY <2>1, <2>2, <2>3, <2>4 DEF PassMove, OnRow
  <2>6. ASSUME NEW q \in Passes, q # p PROVE PassMove(q)
    BY <2>4, <2>6 DEF RowsOK, OnRow, PassMove
  <2> QED
    BY <2>5, <2>6 DEF PassMoves
<1>3. CASE ListActive(p)
  <2>1. PICK batch \in SUBSET {c \in Changes : outbox[c] \in Working}, fresh \in SUBSET Changes :
           pass' = [pass EXCEPT ![p] =
              IF batch = {} THEN IdlePass
              ELSE [pass[p] EXCEPT !.pc = "next", !.todo = batch, !.fresh = fresh]]
    <3> DEFINE due == {c \in Changes : outbox[c] \in Working}
               batch == {c \in due : Cardinality({e \in due : e < c}) < BatchSize}
               fresh == {c \in batch : outbox[c] = "PENDING"}
    <3> QED
      BY <1>3, batch \in SUBSET due, fresh \in SUBSET Changes DEF ListActive
  <2>2. CASE batch = {}
    BY <1>t, <2>1, <2>2, ProceedMoves
  <2>3. CASE batch # {}
    <3> DEFINE r == [pass[p] EXCEPT !.pc = "next", !.todo = batch, !.fresh = fresh]
    <3>1. r \in PassRecord /\ r.pc = "next" /\ r.todo = batch /\ r.age = pass[p].age
          /\ r.stale = pass[p].stale
      BY <1>t DEF PassRecord, Places
    <3>2. pass' = [pass EXCEPT ![p] = r]
      BY <2>1, <2>3
    <3> HIDE DEF r
    <3>3. pass'[p] = r /\ \A q \in Passes : q # p => pass'[q] = pass[q]
      BY <1>t, <3>1, <3>2, PassSteps
    <3>4. PassMove(p)
      BY <3>1, <3>3 DEF PassMove, OnRow
    <3>5. ASSUME NEW q \in Passes, q # p PROVE PassMove(q)
      BY <3>3, <3>5 DEF RowsOK, OnRow, PassMove
    <3> QED
      BY <3>4, <3>5 DEF PassMoves
  <2> QED
    BY <2>2, <2>3
<1>4. CASE MarkProcessing(p)
  <2>1. PICK c \in pass[p].todo : \/ Proceeds(p, pass[p].todo \ {c})
                                  \/ pass' = [pass EXCEPT ![p].pc = "match", ![p].change = c]
    BY <1>4 DEF MarkProcessing
  <2>2. CASE Proceeds(p, pass[p].todo \ {c})
    BY <1>t, <2>2, ProceedMoves
  <2>3. CASE pass' = [pass EXCEPT ![p].pc = "match", ![p].change = c]
    <3> DEFINE r == [pass[p] EXCEPT !.pc = "match", !.change = c]
    <3>1. c \in Changes
      BY <1>t
    <3>2. r \in PassRecord /\ r.pc = "match" /\ r.todo = pass[p].todo /\ r.age = pass[p].age
          /\ r.stale = pass[p].stale /\ r.change = c
      BY <1>t, <3>1 DEF PassRecord, Places
    <3>3. pass' = [pass EXCEPT ![p] = r]
      BY <2>3
    <3> HIDE DEF r
    <3> QED
      BY <1>t, <3>2, <3>3, StaysOnRow
  <2> QED
    BY <2>1, <2>2, <2>3
<1>5. CASE FindMatching(p)
  <2> DEFINE l == {<<pass[p].change, s>> : s \in active}
             r == [pass[p] EXCEPT !.pc = "ensure", !.subs = active, !.left = l]
  <2>1. pass[p].change \in Changes /\ active \subseteq Subs /\ pass[p].change \in pass[p].todo
        /\ pass[p].run = {}
    BY <1>5, <1>t DEF FindMatching, OnRow, TypeOK, PlaceOK
  <2>2. l \in SUBSET Deliveries /\ \A d \in l : d[1] = pass[p].change
    BY <2>1 DEF Deliveries
  <2> HIDE DEF l
  <2>3. r \in PassRecord /\ r.pc = "ensure" /\ r.todo = pass[p].todo /\ r.age = pass[p].age
        /\ r.stale = pass[p].stale /\ r.change = pass[p].change /\ r.left = l /\ r.run = pass[p].run
    BY <1>t, <2>1, <2>2 DEF PassRecord, Places
  <2>4. pass' = [pass EXCEPT ![p] = r]
    BY <1>5 DEF FindMatching, l
  <2> HIDE DEF r
  <2> QED
    BY <1>t, <2>1, <2>2, <2>3, <2>4, StaysOnRow
<1>6. CASE ListForOutbox(p)
  <2> DEFINE l == Of(pass[p].change)
             r == [pass[p] EXCEPT !.pc = "claim", !.left = l]
  <2>1. l \in SUBSET Deliveries /\ \A d \in l : d[1] = pass[p].change
    BY DEF Of
  <2> HIDE DEF l
  <2>2. pass[p].change \in pass[p].todo /\ pass[p].run = {}
    BY <1>6, <1>t DEF ListForOutbox, OnRow, PlaceOK
  <2>3. r \in PassRecord /\ r.pc = "claim" /\ r.todo = pass[p].todo /\ r.age = pass[p].age
        /\ r.stale = pass[p].stale /\ r.change = pass[p].change /\ r.left = l /\ r.run = pass[p].run
    BY <1>t, <2>1 DEF PassRecord, Places
  <2>4. pass' = [pass EXCEPT ![p] = r]
    BY <1>6 DEF ListForOutbox, l
  <2> HIDE DEF r
  <2> QED
    BY <1>t, <2>1, <2>2, <2>3, <2>4, StaysOnRow
<1>7. CASE ReadDeliveries(p)
  <2>1. PICK v \in {"OPEN"} \cup Concluded : pass' = [pass EXCEPT ![p].pc = "conclude", ![p].verdict = v]
    BY <1>7 DEF ReadDeliveries, Concluded
  <2> DEFINE r == [pass[p] EXCEPT !.pc = "conclude", !.verdict = v]
  <2>2. /\ r \in PassRecord /\ r.pc = "conclude" /\ r.todo = pass[p].todo /\ r.age = pass[p].age
        /\ r.stale = pass[p].stale /\ r.change = pass[p].change
    BY <1>t DEF PassRecord, Places
  <2>3. pass' = [pass EXCEPT ![p] = r] /\ pass[p].change \in pass[p].todo
    BY <1>7, <1>t, <2>1 DEF ReadDeliveries, OnRow
  <2> HIDE DEF r
  <2>4. pass'[p] = r /\ \A q \in Passes : q # p => pass'[q] = pass[q]
    BY <1>t, <2>2, <2>3, PassSteps
  <2>5. PassMove(p)
    BY <1>7, <2>2, <2>3, <2>4 DEF PassMove, OnRow
  <2>6. ASSUME NEW q \in Passes, q # p PROVE PassMove(q)
    BY <2>4, <2>6 DEF RowsOK, OnRow, PassMove
  <2> QED
    BY <2>5, <2>6 DEF PassMoves
<1>8. CASE ReconcileParent(p)
  BY <1>8, <1>t, ProceedMoves DEF ReconcileParent
<1>9. CASE Die(p)
  BY <1>9, <1>t, ProceedMoves DEF Die
<1> QED
  BY <1>1, <1>2, <1>3, <1>4, <1>5, <1>6, <1>7, <1>8, <1>9

\* A pass creates only deliveries of its row.
LEMMA EnsureMoves ==
    ASSUME TInv, RowsOK, NEW p \in Passes, Ensure(p)
    PROVE  DelMoves /\ PassMoves
<1>1. PICK d \in pass[p].left :
          /\ IF del[d].status = "NONE"
             THEN Row(d, [NoDelivery EXCEPT !.status = "PENDING", !.ready = pass[p].age])
             ELSE UNCHANGED del
          /\ pass' = [pass EXCEPT ![p].left = @ \ {d}]
  BY DEF Ensure
<1> DEFINE l == pass[p].left \ {d}
           r == [pass[p] EXCEPT !.left = l]
<1>2. /\ TypeOK /\ pass[p] \in PassRecord /\ OnRow(p) /\ PlaceOK(pass[p]) /\ pass[p].pc = "ensure"
      /\ d \in Deliveries /\ l \in SUBSET Deliveries
  BY Typed DEF TInv, RowsOK, PlacesOK, Ensure
<1>3. d[1] = pass[p].change /\ pass[p].change \in pass[p].todo
      /\ \A e \in l \cup pass[p].run : e[1] = pass[p].change
  BY <1>2 DEF OnRow
<1> HIDE DEF l
<1>4. PassMoves
  <2>1. /\ r \in PassRecord /\ r.pc = "ensure" /\ r.todo = pass[p].todo /\ r.age = pass[p].age
        /\ r.stale = pass[p].stale /\ r.change = pass[p].change /\ r.left = l /\ r.run = pass[p].run
    BY <1>2 DEF PassRecord
  <2>2. pass' = [pass EXCEPT ![p] = r]
    BY <1>1 DEF l
  <2> HIDE DEF r
  <2> QED
    BY <1>2, <1>3, <2>1, <2>2, StaysOnRow
<1>5. DelMoves
  <2>1. CASE del[d].status = "NONE"
    <3> DEFINE n == [NoDelivery EXCEPT !.status = "PENDING", !.ready = pass[p].age]
    <3>1. pass[p].age \in -RetryDelay .. PassLife
      BY Typed, OptionsAssumption DEF TInv
    <3>2. n \in DeliveryRow /\ n.status = "PENDING" /\ n.attempts = 0 /\ n.ready = pass[p].age
      <4>1. /\ 0 \in -RetryDelay .. PassLife /\ 0 \in 0 .. Lease + PassLife + 1
            /\ NoDelivery.attempts = 0
        BY OptionsAssumption DEF NoDelivery
      <4>2. NoDelivery \in DeliveryRow
        BY <4>1 DEF NoDelivery, DeliveryRow
      <4> QED
        BY <3>1, <4>1, <4>2 DEF DeliveryRow
    <3>3. Row(d, n)
      BY <1>1, <2>1
    <3> HIDE DEF n
    <3>4. del'[d] = n /\ \A e \in Deliveries : e # d => del'[e] = del[e]
      BY <1>2, <3>2, <3>3, RowSteps
    <3>5. Created(p, d)
      BY <1>3, <2>1, <3>2, <3>4 DEF Created
    <3> QED
      BY <3>4, <3>5 DEF DelMoves, Touched
  <2>2. CASE del[d].status # "NONE"
    BY <1>1, <2>2 DEF DelMoves
  <2> QED
    BY <2>1, <2>2
<1> QED
  BY <1>4, <1>5

\* A pass claims only deliveries of its row.
LEMMA ClaimMoves ==
    ASSUME TInv, RowsOK, NEW p \in Passes, Claim(p)
    PROVE  DelMoves /\ PassMoves
<1>1. PICK d \in pass[p].left :
         IF Claimable(p, d)
         THEN /\ Row(d, [del[d] EXCEPT !.status = "PROCESSING", !.attempts = @ + 1,
                                       !.ready = 0, !.held = pass[p].age])
              /\ pass' = [pass EXCEPT ![p].left = @ \ {d}, ![p].pc = "handle",
                              ![p].run = {d}, ![p].attempt = del[d].attempts + 1]
         ELSE pass' = [pass EXCEPT ![p].left = @ \ {d}] /\ UNCHANGED del
  BY DEF Claim
<1> DEFINE l == pass[p].left \ {d}
<1>2. /\ TypeOK /\ pass[p] \in PassRecord /\ OnRow(p) /\ PlaceOK(pass[p]) /\ pass[p].pc = "claim"
      /\ d \in Deliveries /\ l \in SUBSET Deliveries
  BY Typed DEF TInv, RowsOK, PlacesOK, Claim
<1>3. /\ d[1] = pass[p].change /\ pass[p].change \in pass[p].todo /\ pass[p].run = {}
      /\ \A e \in l \cup {d} : e[1] = pass[p].change
  BY <1>2 DEF OnRow, PlaceOK
<1> HIDE DEF l
<1>4. CASE ~Claimable(p, d)
  <2> DEFINE r == [pass[p] EXCEPT !.left = l]
  <2>1. pass' = [pass EXCEPT ![p] = r] /\ UNCHANGED del
    BY <1>1, <1>4 DEF l
  <2>2. /\ r \in PassRecord /\ r.pc = pass[p].pc /\ r.run = pass[p].run /\ r.stale = pass[p].stale
        /\ r.change = pass[p].change /\ r.todo = pass[p].todo /\ r.age = pass[p].age /\ r.left = l
    BY <1>2 DEF PassRecord
  <2> HIDE DEF r
  <2>3. PassMoves
    BY <1>2, <1>3, <2>1, <2>2, StaysOnRow
  <2> QED
    BY <2>1, <2>3 DEF DelMoves
<1>5. CASE Claimable(p, d)
  <2> DEFINE r == [pass[p] EXCEPT !.left = l, !.pc = "handle", !.run = {d},
                                  !.attempt = del[d].attempts + 1]
             n == [del[d] EXCEPT !.status = "PROCESSING", !.attempts = del[d].attempts + 1,
                                 !.ready = 0, !.held = pass[p].age]
  <2>1. pass' = [pass EXCEPT ![p] = r] /\ Row(d, n)
    BY <1>1, <1>5 DEF l
  <2>2. /\ del[d] \in DeliveryRow /\ del[d].attempts \in Nat /\ del[d].attempts + 1 \in Nat
        /\ pass[p].age \in Nat /\ pass[p].age \in 0 .. Lease + PassLife + 1
        /\ 0 \in -RetryDelay .. PassLife /\ {d} \in SUBSET Deliveries
    BY <1>2, Typed, OptionsAssumption
  <2>3. /\ r \in PassRecord /\ r.pc = "handle" /\ r.run = {d} /\ r.stale = pass[p].stale
        /\ r.change = pass[p].change /\ r.todo = pass[p].todo /\ r.age = pass[p].age /\ r.left = l
    BY <1>2, <2>2 DEF PassRecord, Places
  <2>4. /\ n \in DeliveryRow /\ n.status = "PROCESSING" /\ n.attempts = del[d].attempts + 1
        /\ n.held = pass[p].age
    BY <2>2 DEF DeliveryRow
  <2> HIDE DEF r, n
  <2>5. PassMoves
    BY <1>2, <1>3, <2>1, <2>3, StaysOnRow
  <2>6. del'[d] = n /\ \A e \in Deliveries : e # d => del'[e] = del[e]
    BY <1>2, <2>1, <2>4, RowSteps
  <2>7. Taken(p, d)
    BY <1>3, <1>5, <2>4, <2>6 DEF Taken
  <2>8. DelMoves
    BY <2>6, <2>7 DEF DelMoves, Touched
  <2> QED
    BY <2>5, <2>8
<1> QED
  BY <1>4, <1>5

\* The outcome of a handler is the outcome of a delivery of the row.
LEMMA OutcomeMoves ==
    ASSUME TInv, RowsOK, NEW p \in Passes, MarkSucceeded(p) \/ SucceedUnheard(p) \/ MarkFailed(p)
    PROVE  DelMoves /\ PassMoves
<1>1. PICK d \in pass[p].run :
         /\ Row(d, Succeeded(d)) \/ Row(d, Failed(p, d))
         /\ Returns(p) \/ Goes(p, "fail")
  BY DEF MarkSucceeded, SucceedUnheard, MarkFailed
<1>2. /\ TypeOK /\ pass[p] \in PassRecord /\ OnRow(p) /\ pass[p].pc \in {"handle", "fail"}
      /\ d \in Deliveries /\ del[d].attempts \in Nat /\ pass[p].age \in Nat
  BY Typed DEF TInv, RowsOK, MarkSucceeded, SucceedUnheard, MarkFailed
<1>3. /\ d[1] = pass[p].change /\ pass[p].change \in pass[p].todo
      /\ \A e \in pass[p].left \cup pass[p].run : e[1] = pass[p].change
  BY <1>2 DEF OnRow
<1>4. PassMoves
  <2> DEFINE r == [pass[p] EXCEPT !.pc = "claim", !.run = {}, !.attempt = 0]
             s == [pass[p] EXCEPT !.pc = "fail"]
  <2>1. /\ r \in PassRecord /\ r.pc = "claim" /\ r.run = {} /\ r.stale = pass[p].stale
        /\ r.change = pass[p].change /\ r.todo = pass[p].todo /\ r.age = pass[p].age
        /\ r.left = pass[p].left
    BY <1>2 DEF PassRecord, Places
  <2>2. /\ s \in PassRecord /\ s.pc = "fail" /\ s.run = pass[p].run /\ s.stale = pass[p].stale
        /\ s.change = pass[p].change /\ s.todo = pass[p].todo /\ s.age = pass[p].age
        /\ s.left = pass[p].left
    BY <1>2 DEF PassRecord, Places
  <2>3. pass' = [pass EXCEPT ![p] = r] \/ pass' = [pass EXCEPT ![p] = s]
    BY <1>1 DEF Returns, Goes
  <2> HIDE DEF r, s
  <2>4. CASE pass' = [pass EXCEPT ![p] = r]
    BY <1>2, <1>3, <2>1, <2>4, StaysOnRow
  <2>5. CASE pass' = [pass EXCEPT ![p] = s]
    BY <1>2, <1>3, <2>2, <2>5, StaysOnRow
  <2> QED
    BY <2>3, <2>4, <2>5
<1>5. DelMoves
  <2>1. /\ Succeeded(d) \in DeliveryRow /\ Succeeded(d).status = "SUCCEEDED"
        /\ Failed(p, d) \in DeliveryRow /\ Failed(p, d).attempts = del[d].attempts
        /\ Failed(p, d).status = IF del[d].attempts >= MaxAttempts THEN "DEAD_LETTERED" ELSE "FAILED"
    BY <1>2, Rows DEF TInv
  <2>2. del[d].attempts < MaxAttempts => Failed(p, d).ready = pass[p].age - RetryDelay
    <3>1. del[d] \in DeliveryRow /\ ~(del[d].attempts < MaxAttempts /\ del[d].attempts >= MaxAttempts)
      BY <1>2, Typed, OptionsAssumption
    <3> QED
      BY <3>1 DEF Failed, DeliveryRow
  <2>3. /\ del'[d] = Succeeded(d) \/ del'[d] = Failed(p, d)
        /\ \A e \in Deliveries : e # d => del'[e] = del[e]
    BY <1>1, <1>2, <2>1, RowSteps
  <2>4. Ended(p, d)
    <3>1. CASE del'[d] = Succeeded(d)
      BY <1>3, <2>1, <3>1 DEF Ended
    <3>2. CASE del'[d] = Failed(p, d) /\ del[d].attempts >= MaxAttempts
      BY <1>3, <2>1, <3>2 DEF Ended
    <3>3. CASE del'[d] = Failed(p, d) /\ del[d].attempts < MaxAttempts
      <4>1. ~(del[d].attempts >= MaxAttempts)
        BY <1>2, <3>3, OptionsAssumption
      <4> QED
        BY <1>3, <2>1, <2>2, <3>3, <4>1 DEF Ended
    <3> QED
      BY <2>3, <3>1, <3>2, <3>3, <1>2, OptionsAssumption
  <2> QED
    BY <2>3, <2>4 DEF DelMoves, Touched
<1> QED
  BY <1>4, <1>5

\* A reclaim frees a claim that outlived the lease, or robs it.
LEMMA ReclaimMoves ==
    ASSUME TInv, RowsOK, StaleIsOld, NEW p \in Passes, ReclaimStale(p)
    PROVE  DelMoves /\ PassMoves /\ robbed \subseteq robbed'
<1>1. PICK x \in pass[p].stale :
         /\ IF del[x[1]].status = "PROCESSING"
            THEN /\ Row(x[1], Reclaimed(p, x[1], x[2]))
                 /\ robbed' = IF del[x[1]].attempts = x[2] THEN robbed ELSE robbed \cup {x[1]}
            ELSE UNCHANGED <<del, robbed>>
         /\ pass' = [pass EXCEPT ![p].stale = @ \ {x}]
  BY DEF ReclaimStale
<1> DEFINE d == x[1]
           l == pass[p].stale \ {x}
           r == [pass[p] EXCEPT !.stale = l]
<1>2. /\ TypeOK /\ pass[p] \in PassRecord /\ OnRow(p) /\ pass[p].pc = "reclaim"
      /\ d \in Deliveries /\ x[2] \in Nat /\ l \in SUBSET (Deliveries \X Nat)
      /\ del[d].attempts \in Nat /\ pass[p].age \in Nat
  BY Typed DEF TInv, RowsOK, ReclaimStale
<1>3. PassMoves
  <2>1. pass' = [pass EXCEPT ![p] = r]
    BY <1>1
  <2>2. l \subseteq pass[p].stale
    OBVIOUS
  <2> HIDE DEF l
  <2>3. /\ r \in PassRecord /\ r.pc = "reclaim" /\ r.todo = pass[p].todo /\ r.age = pass[p].age
        /\ r.stale = l
    BY <1>2 DEF PassRecord
  <2> HIDE DEF r
  <2> QED
    BY <1>2, <2>1, <2>2, <2>3, StaysOnRow
<1>4. CASE del[d].status = "PROCESSING"
  <2>1. Row(d, Reclaimed(p, d, x[2])) /\ robbed' = IF del[d].attempts = x[2] THEN robbed ELSE robbed \cup {d}
    BY <1>1, <1>4
  <2>2. del[d].attempts = x[2] => del[d].held - pass[p].age > Lease
    BY <1>4 DEF StaleIsOld
  <2> HIDE DEF d
  <2>3. /\ Reclaimed(p, d, x[2]) \in DeliveryRow /\ Reclaimed(p, d, x[2]).attempts = del[d].attempts
        /\ Reclaimed(p, d, x[2]).status = IF x[2] >= MaxAttempts THEN "DEAD_LETTERED" ELSE "PENDING"
    BY <1>2, Rows DEF TInv
  <2>4. ~(x[2] >= MaxAttempts) => Reclaimed(p, d, x[2]).ready = pass[p].age
    <3>1. del[d] \in DeliveryRow
      BY <1>2, Typed
    <3> QED
      BY <3>1 DEF Reclaimed, DeliveryRow
  <2>5. /\ del'[d] = Reclaimed(p, d, x[2])
        /\ \A e \in Deliveries : e # d => del'[e] = del[e]
    BY <1>2, <2>1, <2>3, RowSteps
  <2>6. Freed(p, d) /\ robbed \subseteq robbed'
    BY <1>4, <2>1, <2>2, <2>3, <2>4, <2>5 DEF Freed
  <2> QED
    BY <1>3, <2>5, <2>6 DEF DelMoves, Touched
<1>5. CASE del[d].status # "PROCESSING"
  <2>1. UNCHANGED <<del, robbed>>
    BY <1>1, <1>5
  <2> QED
    BY <1>3, <2>1 DEF DelMoves
<1> QED
  BY <1>4, <1>5

\* Every step but Tick moves so.
LEMMA StepMoves ==
    ASSUME TInv, RowsOK, StaleIsOld, [Next]_vars, ~Tick
    PROVE  Moves
<1>t. TypeOK
  BY DEF TInv
<1>1. ASSUME NEW c \in Changes, Enqueue(c) PROVE Moves
  <2>1. UNCHANGED <<del, pass, robbed, unheard>>
    BY <1>1 DEF Enqueue
  <2>2. OutboxMoves
    BY <1>1, <1>t DEF Enqueue, OutboxMoves, Concluded, TypeOK
  <2>3. PassMoves
    BY <2>1 DEF PassMoves, PassMove, RowsOK, OnRow
  <2> QED
    BY <2>1, <2>2, <2>3 DEF Moves, DelMoves
<1>2. ASSUME UNCHANGED <<outbox, del, pass, robbed, unheard>> PROVE Moves
  <2>1. PassMoves
    BY <1>2 DEF PassMoves, PassMove, RowsOK, OnRow
  <2> QED
    BY <1>2, <2>1 DEF Moves, DelMoves, OutboxMoves
<1>3. ASSUME NEW p \in Passes,
             \/ Start(p) \/ FindStale(p) \/ ListActive(p) \/ MarkProcessing(p) \/ FindMatching(p)
             \/ ListForOutbox(p) \/ ReadDeliveries(p) \/ ReconcileParent(p) \/ Die(p)
      PROVE Moves
  <2>1. PassMoves
    BY <1>3, ReadMoves
  <2>2. UNCHANGED <<del, robbed, unheard>>
    BY <1>3 DEF Start, FindStale, ListActive, MarkProcessing, FindMatching, ListForOutbox,
                ReadDeliveries, ReconcileParent, Die
  <2>3. OutboxMoves
    <3>1. CASE UNCHANGED outbox
      BY <3>1 DEF OutboxMoves
    <3>2. CASE MarkProcessing(p)
      BY <3>2, <1>t DEF MarkProcessing, OutboxMoves, Concluded, TypeOK
    <3>3. CASE ReconcileParent(p)
      BY <2>2, <3>3, <1>t DEF ReconcileParent, OutboxMoves, TypeOK
    <3>4. UNCHANGED outbox \/ MarkProcessing(p) \/ ReconcileParent(p)
      BY <1>3 DEF Start, FindStale, ListActive, FindMatching, ListForOutbox, ReadDeliveries, Die
    <3> QED
      BY <3>1, <3>2, <3>3, <3>4
  <2> QED
    BY <2>1, <2>2, <2>3 DEF Moves, DelMoves
<1>4. ASSUME NEW p \in Passes, Ensure(p) \/ Claim(p) PROVE Moves
  <2>1. UNCHANGED <<outbox, robbed, unheard>>
    BY <1>4 DEF Ensure, Claim
  <2> QED
    BY <1>4, <2>1, EnsureMoves, ClaimMoves DEF Moves, OutboxMoves
<1>5. ASSUME NEW p \in Passes, MarkSucceeded(p) \/ SucceedUnheard(p) \/ MarkFailed(p) PROVE Moves
  <2>1. UNCHANGED <<outbox, robbed>> /\ unheard \subseteq unheard'
    BY <1>5 DEF MarkSucceeded, SucceedUnheard, MarkFailed
  <2> QED
    BY <1>5, <2>1, OutcomeMoves DEF Moves, OutboxMoves
<1>6. ASSUME NEW p \in Passes, ReclaimStale(p) PROVE Moves
  <2>1. UNCHANGED <<outbox, unheard>>
    BY <1>6 DEF ReclaimStale
  <2> QED
    BY <1>6, <2>1, ReclaimMoves DEF Moves, OutboxMoves
<1>7. UNCHANGED vars => UNCHANGED <<outbox, del, pass, robbed, unheard>>
  BY DEF vars
<1>8. \A s \in Switched : SetStatus(s) => UNCHANGED <<outbox, del, pass, robbed, unheard>>
  BY DEF SetStatus
<1> QED
  BY <1>1, <1>2, <1>3, <1>4, <1>5, <1>6, <1>7, <1>8 DEF Next, Run

-----------------------------------------------------------------------------
\* The numbers of a delivery and of a pass.
LEMMA Numbers ==
    ASSUME RInv
    PROVE  /\ RetryDelay \in Nat /\ Lease \in Nat /\ PassLife \in Nat /\ MaxAttempts \in Nat
           /\ MaxAttempts # 0 /\ 2 * PassLife <= Lease
           /\ \A p \in Passes : pass[p].age \in Nat /\ pass[p].age <= PassLife
           /\ \A d \in Deliveries :
                /\ del[d].ready \in Int /\ del[d].held \in Nat /\ del[d].attempts \in Nat
                /\ Waits(del[d].attempts) \in Nat
                /\ del[d].attempts # 0 => RetryDelay <= Waits(del[d].attempts)
<1>1. /\ RetryDelay \in Nat /\ Lease \in Nat /\ PassLife \in Nat /\ MaxAttempts \in Nat
      /\ MaxAttempts # 0 /\ 2 * PassLife <= Lease
  BY OptionsAssumption, TimingAssumption
<1>2. /\ \A p \in Passes : pass[p].age \in Nat /\ pass[p].age <= PassLife
      /\ \A d \in Deliveries :
            del[d].ready \in Int /\ del[d].held \in Nat /\ del[d].attempts \in Nat
  BY <1>1, Typed DEF RInv, TInv
<1>3. \A n \in Nat : Waits(n) \in Nat /\ (n # 0 => RetryDelay <= Waits(n))
  <2>1. Waits(0) = 0 /\ Waits(0 + 1) = Waits(0) + RetryDelay
    BY WaitsAdd
  <2>2. Waits(1) = RetryDelay
    BY <1>1, <2>1
  <2>3. ASSUME NEW n \in Nat, n # 0 PROVE RetryDelay <= Waits(n)
    <3>1. 1 \in Nat /\ 1 <= n
      BY <2>3
    <3>2. Waits(1) <= Waits(n)
      BY <3>1, WaitsAdd
    <3> QED
      BY <2>2, <3>2
  <2> QED
    BY <2>3, WaitsAdd
<1> QED
  BY <1>1, <1>2, <1>3

\* A pass that runs a clean delivery holds it since its own start.
LEMMA RunnerHolds ==
    ASSUME RInv, NEW d \in Deliveries \ (robbed \cup unheard), NEW p \in Passes, Ended(p, d)
    PROVE  del[d].status = "PROCESSING" /\ del[d].held = pass[p].age
BY DEF RInv, RunsHold, Held, Ended

\* A refusal stands, unless it is robbed.
LEMMA RefusedStands ==
    ASSUME RInv, Moves, NEW c \in Changes, Refused(c) \/ Spoilt(c)
    PROVE  Refused(c)' \/ Spoilt(c)'
<1>1. CASE Spoilt(c)
  BY <1>1 DEF Moves, Spoilt
<1>2. CASE ~Spoilt(c)
  <2>1. PICK s \in RequiredSubs : del[<<c, s>>].status = "DEAD_LETTERED"
    BY <1>2 DEF Refused
  <2> DEFINE d == <<c, s>>
  <2>2. d \in Deliveries \ (robbed \cup unheard)
    BY <1>2, SubsAssumption DEF Spoilt, Deliveries
  <2>3. del[d].status = "DEAD_LETTERED"
    BY <2>1
  <2> HIDE DEF d
  <2>4. ASSUME NEW p \in Passes PROVE ~Touched(p, d)
    BY <2>2, <2>3, RunnerHolds DEF Touched, Created, Taken, Claimable, Freed
  <2>5. del'[d] = del[d]
    BY <2>2, <2>4 DEF Moves, DelMoves
  <2> QED
    BY <2>3, <2>5 DEF Refused, d
<1> QED
  BY <1>1, <1>2

\* While a reader of it lives, a delivery stays young.
LEMMA WithinStands ==
    ASSUME RInv, Claimed, Moves, NEW d \in Clean', NEW n \in Nat, PassLife <= n, n <= 2 * PassLife,
           Within(d, n)
    PROVE  Within(d, n)'
<1>1. d \in Deliveries \ (robbed \cup unheard) /\ d \notin robbed'
  BY DEF Clean, Moves
<1> DEFINE a == del[d].attempts
<1>2. /\ del[d].ready \in Int /\ del[d].held \in Nat /\ a \in Nat /\ Waits(a) \in Nat
      /\ a # 0 => RetryDelay <= Waits(a)
      /\ RetryDelay \in Nat /\ Lease \in Nat /\ PassLife \in Nat /\ MaxAttempts \in Nat
      /\ 2 * PassLife <= Lease
      /\ Waits(a + 1) = Waits(a) + RetryDelay /\ Waits(0) = 0
      /\ Waits(a) <= 2 * PassLife + RetryDelay => a < MaxAttempts
  BY <1>1, Numbers, WaitsAdd, WaitsOutlast
<1>3. CASE del'[d] = del[d]
  BY <1>3 DEF Within
<1>4. ASSUME NEW p \in Passes, Touched(p, d) PROVE Within(d, n)'
  <2>1. pass[p].age \in Nat /\ pass[p].age <= PassLife
    BY Numbers
  <2>2. CASE Created(p, d)
    BY <1>2, <2>1, <2>2 DEF Created, Within
  <2>3. CASE Taken(p, d)
    <3>1. /\ del'[d].status = "PROCESSING" /\ del'[d].attempts = a + 1
          /\ del'[d].held = pass[p].age /\ pass[p].age <= del[d].ready
          /\ del[d].ready + Waits(a) <= n
      BY <1>2, <2>1, <2>3 DEF Taken, Claimable, Within
    <3> QED
      BY <1>2, <2>1, <3>1 DEF Within
  <2>4. CASE Ended(p, d)
    <3>1. del[d].status = "PROCESSING" /\ del[d].held = pass[p].age
      BY <1>1, <2>4, RunnerHolds
    <3>2. pass[p].age + Waits(a) <= n + RetryDelay
      BY <3>1 DEF Within
    <3>3. a < MaxAttempts
      BY <1>2, <2>1, <3>2
    <3>4. \/ del'[d].status = "SUCCEEDED"
          \/ /\ del'[d].status = "FAILED" /\ del'[d].attempts = a
             /\ del'[d].ready = pass[p].age - RetryDelay
      BY <1>2, <2>4, <3>3 DEF Ended
    <3> QED
      BY <1>2, <2>1, <3>2, <3>4 DEF Within
  <2>5. ~Freed(p, d)
    <3> SUFFICES ASSUME Freed(p, d) PROVE FALSE
      OBVIOUS
    <3>1. del[d].status = "PROCESSING" /\ del[d].held - pass[p].age > Lease /\ a # 0
      BY <1>1 DEF Freed, Claimed
    <3>2. del[d].held + Waits(a) <= n + RetryDelay
      BY <3>1 DEF Within
    <3> QED
      BY <1>2, <2>1, <3>1, <3>2
  <2> QED
    BY <1>4, <2>2, <2>3, <2>4, <2>5 DEF Touched
<1> QED
  BY <1>1, <1>3, <1>4 DEF Moves, DelMoves

\* Nobody refuses what is published, nor gets where it could.
LEMMA PublishedStands ==
    ASSUME RInv, CInv, Moves, NEW d \in Clean', outbox[d[1]] = "PUBLISHED"
    PROVE  /\ del'[d].status # "DEAD_LETTERED"
           /\ del'[d].status # "SUCCEEDED" => del'[d].attempts < MaxAttempts
           /\ \A q \in Passes : d[1] \in pass'[q].todo => Harmless(d, q)'
<1>1. d \in Deliveries \ (robbed \cup unheard) /\ d \notin robbed' /\ d \in Clean
  BY DEF Clean, Moves
<1> DEFINE a == del[d].attempts
<1>2. /\ del[d].ready \in Int /\ del[d].held \in Nat /\ a \in Nat /\ Waits(a) \in Nat
      /\ a # 0 => RetryDelay <= Waits(a)
      /\ RetryDelay \in Nat /\ Lease \in Nat /\ PassLife \in Nat /\ MaxAttempts \in Nat
      /\ MaxAttempts # 0 /\ 2 * PassLife <= Lease
      /\ Waits(a + 1) = Waits(a) + RetryDelay /\ Waits(0) = 0
      /\ Waits(a) <= 2 * PassLife => a + 1 < MaxAttempts
  BY <1>1, Numbers, WaitsAdd, WaitsOutlast
<1>3. /\ del[d].status # "DEAD_LETTERED" /\ (del[d].status # "SUCCEEDED" => a < MaxAttempts)
      /\ \A q \in Passes : d[1] \in pass[q].todo => Harmless(d, q)
  BY <1>1 DEF CInv, PublishedOK
<1>4. \A q \in Passes : d[1] \in pass'[q].todo =>
          d[1] \in pass[q].todo /\ pass'[q].age = pass[q].age /\ Harmless(d, q)
  BY <1>3 DEF Moves, PassMoves, PassMove, Working
<1>5. CASE del'[d] = del[d]
  <2>1. ASSUME NEW q \in Passes, d[1] \in pass'[q].todo PROVE Harmless(d, q)'
    BY <1>4, <1>5, <2>1 DEF Harmless, Within
  <2> QED
    BY <1>3, <1>5, <2>1
<1>6. ASSUME NEW p \in Passes, Touched(p, d)
      PROVE /\ del'[d].status # "DEAD_LETTERED"
            /\ del'[d].status # "SUCCEEDED" => del'[d].attempts < MaxAttempts
            /\ \A q \in Passes : d[1] \in pass'[q].todo => Harmless(d, q)'
  <2>1. /\ pass[p].age \in Nat /\ pass[p].age <= PassLife
        /\ \A q \in Passes : pass[q].age \in Nat
    BY Numbers
  <2>2. CASE Created(p, d)
    <3>1. /\ del'[d].status = "PENDING" /\ del'[d].attempts = 0 /\ del'[d].ready = pass[p].age
      BY <2>2 DEF Created
    <3>2. ASSUME NEW q \in Passes, d[1] \in pass'[q].todo PROVE Within(d, 2 * PassLife + pass[q].age)'
      <4>1. pass'[q].age = pass[q].age /\ pass[q].age \in Nat
        BY <1>4, <2>1, <3>2
      <4> QED
        BY <1>2, <2>1, <3>1, <4>1 DEF Within
    <3> QED
      BY <1>2, <3>1, <3>2 DEF Harmless
  <2>3. CASE Taken(p, d)
    <3>1. /\ del'[d].status = "PROCESSING" /\ del'[d].attempts = a + 1
          /\ del'[d].held = pass[p].age /\ pass[p].age <= del[d].ready
          /\ del[d].status \in {"PENDING", "FAILED"} /\ d[1] \in pass[p].todo
      BY <1>2, <2>1, <2>3 DEF Taken, Claimable
    <3>2. del[d].ready + Waits(a) <= 2 * PassLife + pass[p].age
      BY <1>2, <1>3, <2>1, <3>1 DEF Harmless, Within
    <3>3. Waits(a) <= 2 * PassLife /\ a + 1 < MaxAttempts
      BY <1>2, <2>1, <3>1, <3>2
    <3>4. ASSUME NEW q \in Passes, d[1] \in pass'[q].todo PROVE Within(d, 2 * PassLife + pass[q].age)'
      <4>1. pass'[q].age = pass[q].age /\ pass[q].age \in Nat /\ Harmless(d, q)
        BY <1>4, <2>1, <3>4
      <4>2. \/ del[d].ready + Waits(a) <= 2 * PassLife + pass[q].age
            \/ del[d].ready < pass[q].age
        BY <3>1, <4>1 DEF Harmless, Within
      <4>3. pass[p].age + Waits(a) <= 2 * PassLife + pass[q].age
        BY <1>2, <2>1, <3>1, <3>3, <4>1, <4>2
      <4> QED
        BY <1>2, <2>1, <3>1, <4>1, <4>3 DEF Within
    <3> QED
      BY <3>1, <3>3, <3>4 DEF Harmless
  <2>4. CASE Ended(p, d)
    <3>1. del[d].status = "PROCESSING" /\ del[d].held = pass[p].age
      BY <1>1, <2>4, RunnerHolds
    <3>2. \/ del'[d].status = "SUCCEEDED"
          \/ /\ del'[d].status = "FAILED" /\ del'[d].attempts = a
             /\ del'[d].ready = pass[p].age - RetryDelay
      BY <1>2, <1>3, <2>4, <3>1 DEF Ended
    <3>3. ASSUME NEW q \in Passes, d[1] \in pass'[q].todo PROVE Within(d, 2 * PassLife + pass[q].age)'
      <4>1. pass'[q].age = pass[q].age /\ pass[q].age \in Nat /\ Harmless(d, q)
        BY <1>4, <2>1, <3>3
      <4>2. pass[p].age + Waits(a) <= 2 * PassLife + pass[q].age + RetryDelay
        BY <3>1, <4>1 DEF Harmless, Within
      <4> QED
        BY <1>2, <2>1, <3>2, <4>1, <4>2 DEF Within
    <3> QED
      BY <1>3, <3>1, <3>2, <3>3 DEF Harmless
  <2>5. CASE Freed(p, d)
    <3>1. /\ del[d].status = "PROCESSING" /\ del[d].held - pass[p].age > Lease /\ a # 0
      BY <1>1, <2>5 DEF Freed, Claimed, CInv
    <3>2. del'[d].status = "PENDING" /\ del'[d].attempts = a /\ del'[d].ready = pass[p].age
      BY <1>1, <1>2, <1>3, <2>5, <3>1 DEF Freed
    <3>3. ASSUME NEW q \in Passes, d[1] \in pass'[q].todo PROVE del'[d].ready < pass'[q].age
      <4>1. pass'[q].age = pass[q].age /\ pass[q].age \in Nat /\ Harmless(d, q)
        BY <1>4, <2>1, <3>3
      <4>2. del[d].held + Waits(a) <= 2 * PassLife + pass[q].age + RetryDelay
        BY <3>1, <4>1 DEF Harmless, Within
      <4> QED
        BY <1>2, <2>1, <3>1, <3>2, <4>1, <4>2
    <3> QED
      BY <1>3, <3>1, <3>2, <3>3 DEF Harmless
  <2> QED
    BY <1>6, <2>2, <2>3, <2>4, <2>5 DEF Touched
<1> QED
  BY <1>1, <1>5, <1>6 DEF Moves, DelMoves

\* Every step but Tick keeps CInv.
LEMMA CInvMoves ==
    ASSUME RInv, RInv', CInv, Moves
    PROVE  CInv'
<1>1. RowsOK'
  BY DEF Moves, PassMoves, PassMove, RowsOK
<1>2. Claimed'
  <2> SUFFICES ASSUME NEW d \in Deliveries, del'[d].status = "PROCESSING"
      PROVE del'[d].attempts # 0
    BY DEF Claimed
  <2>1. CASE del'[d] = del[d]
    BY <2>1 DEF CInv, Claimed
  <2>2. ASSUME NEW p \in Passes, Touched(p, d) PROVE del'[d].attempts # 0
    <3>1. del'[d].attempts = del[d].attempts + 1
      BY <2>2 DEF Touched, Created, Taken, Ended, Freed
    <3> QED
      BY <3>1, Numbers
  <2> QED
    BY <2>1, <2>2 DEF Moves, DelMoves
<1>3. StaleIsOld'
  <2> SUFFICES ASSUME NEW q \in Passes, NEW x \in pass'[q].stale,
                      del'[x[1]].status = "PROCESSING", del'[x[1]].attempts = x[2]
      PROVE del'[x[1]].held - pass'[q].age > Lease
    BY DEF StaleIsOld
  <2>1. /\ pass'[q].age = pass[q].age
        /\ \/ x \in pass[q].stale
           \/ UNCHANGED del /\ x[2] = del[x[1]].attempts /\ Abandoned(q, x[1])
    BY DEF Moves, PassMoves, PassMove
  <2>2. CASE UNCHANGED del /\ Abandoned(q, x[1])
    BY <2>1, <2>2 DEF Abandoned
  <2>3. CASE x \in pass[q].stale
    <3>1. x[1] \in Deliveries /\ x[2] \in Nat /\ x[2] <= del[x[1]].attempts
          /\ del[x[1]].attempts \in Nat
      <4>1. pass[q].stale \subseteq Deliveries \X Nat
        BY Typed DEF RInv, TInv
      <4>2. x[2] <= del[x[1]].attempts
        BY <2>3 DEF RInv, StaleIsOver
      <4> QED
        BY <2>3, <4>1, <4>2, Numbers
    <3>2. ASSUME NEW p \in Passes PROVE ~Touched(p, x[1])
      <4>1. del'[x[1]].attempts # del[x[1]].attempts + 1
        BY <3>1
      <4> QED
        BY <4>1 DEF Touched, Created, Taken, Ended, Freed
    <3>3. del'[x[1]] = del[x[1]]
      BY <3>1, <3>2 DEF Moves, DelMoves
    <3> QED
      BY <2>1, <2>3, <3>3 DEF CInv, StaleIsOld
  <2> QED
    BY <2>1, <2>2, <2>3
<1>4. VerdictOK'
  <2> SUFFICES ASSUME NEW q \in Passes, pass'[q].pc = "conclude"
      PROVE /\ pass'[q].verdict = "PUBLISHED" =>
                  \A d \in Clean' : d[1] = pass'[q].change => Within(d, PassLife + pass[q].age)'
            /\ pass'[q].verdict = "DEAD_LETTERED" =>
                  Refused(pass[q].change)' \/ Spoilt(pass[q].change)'
    BY DEF VerdictOK
  <2>1. pass[q].age \in Nat /\ pass[q].age <= PassLife /\ PassLife \in Nat
        /\ PassLife + pass[q].age \in Nat /\ PassLife <= PassLife + pass[q].age
        /\ PassLife + pass[q].age <= 2 * PassLife
    BY Numbers
  <2>2. CASE pass'[q] = pass[q]
    <3>1. pass[q].change \in Changes
      BY <2>2 DEF RInv, TInv, PlacesOK, PlaceOK
    <3>2. ASSUME NEW d \in Clean', d[1] = pass[q].change, pass[q].verdict = "PUBLISHED"
          PROVE Within(d, PassLife + pass[q].age)'
      <4>1. d \in Clean
        BY DEF Clean, Moves
      <4>2. PICK n \in Nat : n = PassLife + pass[q].age
        BY <2>1
      <4>3. Within(d, n)
        BY <2>2, <3>2, <4>1, <4>2 DEF CInv, VerdictOK
      <4>4. Within(d, n)'
        BY <2>1, <4>2, <4>3, WithinStands DEF CInv
      <4>5. PassLife + pass'[q].age = n
        BY <2>2, <4>2
      <4> QED
        BY <4>4, <4>5 DEF Within
    <3>3. ASSUME pass[q].verdict = "DEAD_LETTERED"
          PROVE Refused(pass[q].change)' \/ Spoilt(pass[q].change)'
      <4>1. PICK c \in Changes : c = pass[q].change
        BY <3>1
      <4>2. Refused(c) \/ Spoilt(c)
        BY <2>2, <3>3, <4>1 DEF CInv, VerdictOK
      <4>3. Refused(c)' \/ Spoilt(c)'
        BY <4>2, RefusedStands
      <4>4. pass'[q].change = c
        BY <2>2, <4>1
      <4> QED
        BY <4>3, <4>4 DEF Refused, Spoilt
    <3> QED
      BY <2>2, <3>2, <3>3
  <2>3. CASE ReadDeliveries(q)
    <3>1. /\ UNCHANGED <<del, robbed, unheard>> /\ pass[q] \in PassRecord /\ pass[q].change \in Changes
      BY <2>3, Typed DEF ReadDeliveries, RInv, TInv, PlacesOK, PlaceOK
    <3>2. PICK c \in Changes : c = pass[q].change
      BY <3>1
    <3> DEFINE v == CASE RequiredDead(c) -> "DEAD_LETTERED"
                      [] ~RequiredDead(c) /\ AllTerminal(c) -> "PUBLISHED"
                      [] OTHER -> "OPEN"
    <3>3. pass'[q].verdict = v /\ pass'[q].change = c
      <4>1. pass' = [pass EXCEPT ![q].pc = "conclude", ![q].verdict = v]
        BY <2>3, <3>2 DEF ReadDeliveries
      <4> HIDE DEF v
      <4>2. pass'[q] = [pass[q] EXCEPT !.pc = "conclude", !.verdict = v]
        BY <4>1, Typed DEF RInv, TInv
      <4> QED
        BY <3>1, <3>2, <4>2 DEF PassRecord
    <3>4. v = "DEAD_LETTERED" => Refused(c)
      BY SubsAssumption DEF RequiredDead, Refused, Of, Deliveries
    <3>5. v = "PUBLISHED" => \A d \in Deliveries : d[1] = c /\ d[2] \in RequiredSubs =>
              del[d].status \in {"NONE", "SUCCEEDED"}
      BY DEF RequiredDead, AllTerminal, Of, Final
    <3> HIDE DEF v
    <3> QED
      BY <3>1, <3>3, <3>4, <3>5 DEF Refused, Clean, Within
  <2> QED
    BY <2>2, <2>3 DEF Moves, PassMoves, PassMove
<1>5. PublishedOK'
  <2> SUFFICES ASSUME NEW d \in Clean', outbox'[d[1]] = "PUBLISHED"
      PROVE /\ del'[d].status # "DEAD_LETTERED"
            /\ del'[d].status # "SUCCEEDED" => del'[d].attempts < MaxAttempts
            /\ \A q \in Passes : d[1] \in pass'[q].todo => Harmless(d, q)'
    BY DEF PublishedOK
  <2>1. d \in Deliveries /\ d \in Clean /\ d \notin robbed /\ d[1] \in Changes
    BY DEF Clean, Moves, Deliveries
  <2>2. CASE outbox[d[1]] = "PUBLISHED"
    BY <2>2, PublishedStands
  <2>3. ASSUME NEW p \in Passes, pass[p].pc = "conclude", pass[p].change = d[1],
               pass[p].verdict = "PUBLISHED", UNCHANGED del
        PROVE  /\ del'[d].status # "DEAD_LETTERED"
               /\ del'[d].status # "SUCCEEDED" => del'[d].attempts < MaxAttempts
               /\ \A q \in Passes : d[1] \in pass'[q].todo => Harmless(d, q)'
    <3>1. Within(d, PassLife + pass[p].age)
      BY <2>1, <2>3 DEF CInv, VerdictOK
    <3>2. /\ pass[p].age \in Nat /\ pass[p].age <= PassLife /\ PassLife \in Nat
          /\ RetryDelay \in Nat /\ del[d].held \in Nat /\ del[d].ready \in Int
          /\ del[d].attempts \in Nat /\ Waits(del[d].attempts) \in Nat
          /\ \A q \in Passes : pass'[q].age \in Nat
          /\ Waits(del[d].attempts) <= 2 * PassLife + RetryDelay => del[d].attempts < MaxAttempts
      <4>1. \A q \in Passes : pass'[q].age \in Nat
        <5>1. pass' \in [Passes -> PassRecord]
          BY DEF RInv, TInv, TypeOK
        <5> QED
          BY <5>1, OptionsAssumption DEF PassRecord
      <4> QED
        BY <2>1, <4>1, Numbers, WaitsOutlast
    <3>3. del[d].status # "SUCCEEDED" => del[d].attempts < MaxAttempts
      <4>1. CASE del[d].status = "PROCESSING"
        <5>1. del[d].held + Waits(del[d].attempts) <= PassLife + pass[p].age + RetryDelay
          BY <3>1, <4>1 DEF Within
        <5> QED
          BY <3>2, <5>1
      <4>2. CASE del[d].status \in {"NONE", "PENDING", "FAILED"}
        BY <2>1, <4>2 DEF RInv, AttemptsAreLeft
      <4> QED
        BY <2>1, <3>1, <4>1, <4>2, Typed DEF Within, RInv, TInv
    <3>4. ASSUME NEW q \in Passes PROVE Within(d, 2 * PassLife + pass[q].age)'
      BY <2>3, <3>1, <3>2, <3>4 DEF Within
    <3> QED
      BY <2>3, <3>1, <3>3, <3>4 DEF Within, Harmless
  <2>4. \/ outbox[d[1]] = "PUBLISHED"
        \/ \E p \in Passes : /\ pass[p].pc = "conclude" /\ pass[p].change = d[1]
                             /\ pass[p].verdict = "PUBLISHED" /\ UNCHANGED del
    BY <2>1 DEF Moves, OutboxMoves, Concluded
  <2> QED
    BY <2>2, <2>3, <2>4
<1>6. GivenUpOK'
  <2> SUFFICES ASSUME NEW c \in Changes, outbox'[c] = "DEAD_LETTERED"
      PROVE Refused(c)' \/ Spoilt(c)'
    BY DEF GivenUpOK
  <2>1. Refused(c) \/ Spoilt(c)
    BY DEF Moves, OutboxMoves, CInv, GivenUpOK, VerdictOK, Concluded
  <2> QED
    BY <2>1, RefusedStands
<1> QED
  BY <1>1, <1>2, <1>3, <1>4, <1>5, <1>6 DEF CInv

\* Time passes for the deliveries and for the passes that work alike.
LEMMA CInvTick ==
    ASSUME RInv, CInv, Tick
    PROVE  CInv'
<1>1. UNCHANGED <<outbox, robbed, unheard>>
  BY DEF Tick
<1>2. /\ Lease \in Nat /\ PassLife \in Nat /\ RetryDelay \in Nat /\ MaxAttempts \in Nat
      /\ \A p \in Passes : pass[p].age \in Nat /\ pass[p].age <= PassLife
  BY Numbers
<1>3. \A q \in Passes :
        /\ pass'[q].pc = pass[q].pc /\ pass'[q].todo = pass[q].todo /\ pass'[q].left = pass[q].left
        /\ pass'[q].run = pass[q].run /\ pass'[q].stale = pass[q].stale
        /\ pass'[q].change = pass[q].change /\ pass'[q].verdict = pass[q].verdict
        /\ pass'[q].age \in {pass[q].age, pass[q].age + 1}
        /\ pass[q].pc # "idle" => pass'[q].age = pass[q].age + 1
  <2> SUFFICES ASSUME NEW q \in Passes PROVE <1>3!(q)
    OBVIOUS
  <2>1. pass[q] \in PassRecord
    BY Typed DEF RInv, TInv
  <2>2. CASE pass[q].pc = "idle"
    BY <2>1, <2>2 DEF Tick
  <2>3. CASE pass[q].pc # "idle"
    <3> DEFINE r == [pass[q] EXCEPT !.age = pass[q].age + 1]
    <3>1. pass'[q] = r
      BY <2>3 DEF Tick
    <3>2. /\ r.pc = pass[q].pc /\ r.todo = pass[q].todo /\ r.left = pass[q].left
          /\ r.run = pass[q].run /\ r.stale = pass[q].stale
          /\ r.change = pass[q].change /\ r.verdict = pass[q].verdict
          /\ r.age = pass[q].age + 1
      BY <2>1 DEF PassRecord
    <3> HIDE DEF r
    <3> QED
      BY <3>1, <3>2
  <2> QED
    BY <2>2, <2>3
<1>4. \A d \in Deliveries :
        /\ del'[d].status = del[d].status /\ del'[d].attempts = del[d].attempts
        /\ del[d].ready \in Int /\ del[d].held \in Nat /\ del[d].attempts \in Nat
        /\ Waits(del[d].attempts) \in Nat
        /\ del[d].status \in {"PENDING", "FAILED"} =>
              del'[d].ready \in {del[d].ready, del[d].ready + 1}
        /\ del[d].status = "PROCESSING" =>
              \/ del'[d].held = del[d].held + 1
              \/ del'[d].held = del[d].held /\ del[d].held >= Lease + PassLife + 1
  <2> SUFFICES ASSUME NEW d \in Deliveries PROVE <1>4!(d)
    OBVIOUS
  <2> DEFINE n == Older(del[d].ready, PassLife)
             h == Older(del[d].held, Lease + PassLife + 1)
             a == [del[d] EXCEPT !.ready = n]
             b == [del[d] EXCEPT !.held = h]
  <2>1. /\ del[d] \in DeliveryRow /\ del[d].ready \in Int /\ del[d].held \in Nat
        /\ del[d].attempts \in Nat /\ Waits(del[d].attempts) \in Nat
    BY Numbers, Typed DEF RInv, TInv
  <2>2. /\ n \in {del[d].ready, del[d].ready + 1}
        /\ h = del[d].held + 1 \/ (h = del[d].held /\ del[d].held >= Lease + PassLife + 1)
    <3>1. n \in {del[d].ready, del[d].ready + 1}
      BY DEF Older
    <3>2. h = del[d].held + 1 \/ (h = del[d].held /\ del[d].held >= Lease + PassLife + 1)
      BY <1>2, <2>1 DEF Older
    <3> QED
      BY <3>1, <3>2
  <2>3. \/ del[d].status \in {"PENDING", "FAILED"} /\ del'[d] = a
        \/ del[d].status = "PROCESSING" /\ del'[d] = b
        \/ del[d].status \notin {"PENDING", "FAILED", "PROCESSING"} /\ del'[d] = del[d]
    BY DEF Tick
  <2> HIDE DEF n, h
  <2>4. /\ a.status = del[d].status /\ a.attempts = del[d].attempts /\ a.ready = n
        /\ b.status = del[d].status /\ b.attempts = del[d].attempts /\ b.held = h
    BY <2>1 DEF DeliveryRow
  <2> HIDE DEF a, b
  <2> QED
    BY <2>1, <2>2, <2>3, <2>4
<1>5. ASSUME NEW d \in Deliveries, NEW n \in Nat, Within(d, n)
      PROVE \A m \in Nat : m = n + 1 => Within(d, m)'
  BY <1>2, <1>4, <1>5 DEF Within
<1>6. RowsOK' /\ Claimed'
  BY <1>3, <1>4 DEF CInv, RowsOK, OnRow, Claimed
<1>7. StaleIsOld'
  <2> SUFFICES ASSUME NEW q \in Passes, NEW x \in pass'[q].stale,
                      del'[x[1]].status = "PROCESSING", del'[x[1]].attempts = x[2]
      PROVE del'[x[1]].held - pass'[q].age > Lease
    BY DEF StaleIsOld
  <2>1. x \in pass[q].stale /\ x[1] \in Deliveries
    BY <1>3, Typed DEF RInv, TInv
  <2>2. del[x[1]].held - pass[q].age > Lease /\ del[x[1]].status = "PROCESSING"
    BY <1>4, <2>1 DEF CInv, StaleIsOld
  <2>3. pass'[q].age <= PassLife
    BY <1>2, <1>3 DEF Tick
  <2> QED
    BY <1>2, <1>3, <1>4, <2>1, <2>2, <2>3
<1>8. VerdictOK'
  <2> SUFFICES ASSUME NEW q \in Passes, pass'[q].pc = "conclude"
      PROVE /\ pass'[q].verdict = "PUBLISHED" =>
                  \A d \in Clean' : d[1] = pass'[q].change => Within(d, PassLife + pass[q].age)'
            /\ pass'[q].verdict = "DEAD_LETTERED" =>
                  Refused(pass[q].change)' \/ Spoilt(pass[q].change)'
    BY DEF VerdictOK
  <2>1. /\ pass[q].pc = "conclude" /\ pass[q].change \in Changes
        /\ pass'[q].age = pass[q].age + 1 /\ pass'[q].change = pass[q].change
        /\ pass'[q].verdict = pass[q].verdict
    BY <1>3 DEF RInv, TInv, PlacesOK, PlaceOK
  <2>2. ASSUME NEW d \in Clean', d[1] = pass[q].change, pass[q].verdict = "PUBLISHED"
        PROVE Within(d, PassLife + pass[q].age)'
    <3>1. d \in Clean /\ d \in Deliveries
      BY <1>1 DEF Clean
    <3>2. PICK n, m \in Nat : n = PassLife + pass[q].age /\ m = n + 1
      BY <1>2
    <3>3. Within(d, n)
      BY <2>1, <2>2, <3>1, <3>2 DEF CInv, VerdictOK
    <3>4. Within(d, m)'
      BY <1>5, <3>1, <3>2, <3>3
    <3>5. PassLife + pass'[q].age = m
      BY <1>2, <2>1, <3>2
    <3> QED
      BY <3>4, <3>5 DEF Within
  <2>3. ASSUME pass[q].verdict = "DEAD_LETTERED"
        PROVE Refused(pass[q].change)' \/ Spoilt(pass[q].change)'
    <3>1. Refused(pass[q].change) \/ Spoilt(pass[q].change)
      BY <2>1, <2>3 DEF CInv, VerdictOK
    <3>2. \A s \in RequiredSubs : <<pass[q].change, s>> \in Deliveries
      BY <2>1, SubsAssumption DEF Deliveries
    <3> QED
      BY <1>1, <1>4, <2>1, <3>1, <3>2 DEF Refused, Spoilt
  <2> QED
    BY <2>1, <2>2, <2>3
<1>9. PublishedOK'
  <2> SUFFICES ASSUME NEW d \in Clean', outbox'[d[1]] = "PUBLISHED"
      PROVE /\ del'[d].status # "DEAD_LETTERED"
            /\ del'[d].status # "SUCCEEDED" => del'[d].attempts < MaxAttempts
            /\ \A q \in Passes : d[1] \in pass'[q].todo => Harmless(d, q)'
    BY DEF PublishedOK
  <2>1. d \in Clean /\ d \in Deliveries /\ outbox[d[1]] = "PUBLISHED"
    BY <1>1 DEF Clean
  <2>2. /\ del[d].status # "DEAD_LETTERED"
        /\ del[d].status # "SUCCEEDED" => del[d].attempts < MaxAttempts
        /\ \A q \in Passes : d[1] \in pass[q].todo => Harmless(d, q)
    BY <2>1 DEF CInv, PublishedOK
  <2>3. ASSUME NEW q \in Passes, d[1] \in pass'[q].todo PROVE Harmless(d, q)'
    <3>1. Harmless(d, q) /\ pass'[q].age = pass[q].age + 1
      BY <1>3, <2>2, <2>3 DEF CInv, RowsOK, OnRow
    <3>2. CASE Within(d, 2 * PassLife + pass[q].age)
      <4>1. PICK n, m \in Nat : n = 2 * PassLife + pass[q].age /\ m = n + 1
        BY <1>2
      <4>2. Within(d, m)'
        BY <1>5, <2>1, <3>2, <4>1
      <4>3. 2 * PassLife + pass'[q].age = m
        BY <1>2, <3>1, <4>1
      <4> QED
        BY <4>2, <4>3 DEF Within, Harmless
    <3>3. CASE del[d].status \in {"PENDING", "FAILED"} /\ del[d].ready < pass[q].age
      BY <1>2, <1>4, <2>1, <3>1, <3>3 DEF Harmless
    <3> QED
      BY <3>1, <3>2, <3>3 DEF Harmless
  <2> QED
    BY <1>4, <2>1, <2>2, <2>3
<1>10. GivenUpOK'
  <2>1. \A c \in Changes, s \in RequiredSubs : <<c, s>> \in Deliveries
    BY SubsAssumption DEF Deliveries
  <2> QED
    BY <1>1, <1>4, <2>1 DEF CInv, GivenUpOK, Refused, Spoilt
<1> QED
  BY <1>6, <1>7, <1>8, <1>9, <1>10 DEF CInv

\* At first nothing was delivered, and nothing concluded.
LEMMA CInvInit == Init => CInv
<1> SUFFICES ASSUME Init PROVE CInv
  OBVIOUS
<1>1. IdlePass.pc = "idle" /\ IdlePass.todo = {} /\ IdlePass.stale = {} /\ NoDelivery.status = "NONE"
  BY DEF IdlePass, NoDelivery
<1>2. /\ \A p \in Passes : pass[p].pc = "idle" /\ pass[p].todo = {} /\ pass[p].stale = {}
      /\ \A d \in Deliveries : del[d].status = "NONE"
      /\ \A c \in Changes : outbox[c] = "NONE"
  BY <1>1 DEF Init
<1>3. RowsOK /\ Claimed /\ StaleIsOld /\ VerdictOK
  BY <1>2 DEF RowsOK, OnRow, Claimed, StaleIsOld, VerdictOK
<1>4. PublishedOK /\ GivenUpOK
  BY <1>2 DEF PublishedOK, GivenUpOK, Clean, Deliveries
<1> QED
  BY <1>3, <1>4 DEF CInv

\* Every step keeps CInv, and no step takes back a conclusion.
LEMMA CInvNext ==
    ASSUME RInv, CInv, [Next]_vars
    PROVE  /\ CInv'
           /\ \A c \in Changes : outbox[c] \in Concluded =>
                 outbox'[c] = outbox[c] \/ \E s \in Subs : <<c, s>> \in robbed \cup unheard
<1>1. RInv'
  BY RInvNext
<1>2. CASE Tick
  <2>1. UNCHANGED outbox
    BY <1>2 DEF Tick
  <2> QED
    BY <1>2, <2>1, CInvTick
<1>3. CASE ~Tick
  <2>1. Moves
    BY <1>3, StepMoves DEF RInv, CInv
  <2>2. CInv'
    BY <1>1, <2>1, CInvMoves
  <2>3. ASSUME NEW c \in Changes, outbox[c] \in Concluded, outbox'[c] # outbox[c], ~Spoilt(c)
        PROVE FALSE
    <3>1. PICK p \in Passes : /\ pass[p].pc = "conclude" /\ pass[p].change = c
                              /\ outbox'[c] = pass[p].verdict
      BY <2>1, <2>3 DEF Moves, OutboxMoves
    <3>2. outbox'[c] \in {"NONE"} \cup Working \cup Concluded
          /\ pass[p].verdict \in {"OPEN"} \cup Concluded
      BY <1>1, Typed DEF RInv, TInv, TypeOK
    <3>3. Refused(c) /\ (outbox[c] = "PUBLISHED" \/ pass[p].verdict = "PUBLISHED")
      <4>1. CASE outbox[c] = "DEAD_LETTERED"
        BY <2>3, <3>1, <3>2, <4>1 DEF CInv, GivenUpOK, Concluded, Working
      <4>2. CASE outbox[c] = "PUBLISHED"
        BY <2>3, <3>1, <3>2, <4>2 DEF CInv, VerdictOK, Concluded, Working
      <4> QED
        BY <2>3, <4>1, <4>2 DEF Concluded
    <3>4. PICK s \in RequiredSubs : del[<<c, s>>].status = "DEAD_LETTERED"
      BY <3>3 DEF Refused
    <3>5. PICK d \in Deliveries : d = <<c, s>>
      BY SubsAssumption DEF Deliveries
    <3>6. d \in Clean /\ d[1] = c /\ del[d].status = "DEAD_LETTERED"
      BY <2>3, <3>4, <3>5, SubsAssumption DEF Clean, Spoilt
    <3>7. CASE outbox[c] = "PUBLISHED"
      BY <3>6, <3>7 DEF CInv, PublishedOK
    <3>8. CASE pass[p].verdict = "PUBLISHED"
      BY <3>1, <3>6, <3>8 DEF CInv, VerdictOK, Within
    <3> QED
      BY <3>3, <3>7, <3>8
  <2> QED
    BY <2>2, <2>3 DEF Spoilt
<1> QED
  BY <1>2, <1>3

\* CInv holds in every state, for any options that satisfy the assumptions.
THEOREM Conclusions == Spec => [](RInv /\ CInv)
<1>1. RInv /\ CInv /\ [Next]_vars => (RInv /\ CInv)'
  BY RInvNext, CInvNext
<1>2. Init => RInv /\ CInv
  BY RInvInit, CInvInit
<1> QED
  BY <1>1, <1>2, PTL DEF Spec

\* What reconcileParent publishes was refused by no required subscriber, neither
\* when it read the deliveries nor later, whoever switches subscriptions on, joins
\* the row or dies meanwhile.
THEOREM PublishedMeansDeliveredHolds == Spec => []PublishedMeansDelivered
<1>1. CInv => PublishedMeansDelivered
  BY DEF CInv, PublishedOK, PublishedMeansDelivered, Clean
<1> QED
  BY <1>1, Conclusions, PTL

\* Two passes that reconcile one row come to one conclusion, although each writes
\* it unconditionally (markPublished, markDeadLettered).
THEOREM ConclusionStandsHolds == Spec => ConclusionStands
<1>1. RInv /\ CInv /\ [Next]_vars => [\A c \in Changes :
          outbox[c] \in Concluded => \/ outbox'[c] = outbox[c]
                                    \/ \E s \in Subs : <<c, s>> \in robbed \cup unheard]_vars
  BY CInvNext
<1> QED
  BY <1>1, Conclusions, PTL DEF Spec, ConclusionStands
=============================================================================
