---------------------------- MODULE GatewayProofs ----------------------------
(***************************************************************************)
(* Proofs about Gateway, for any number of requests in flight, any models, *)
(* limits and thresholds.                                                  *)
(*                                                                         *)
(* A step is the turn of one request, or time passing for a breaker or for *)
(* the day.  The first part says once what a turn does to the request that *)
(* has it; the bounds then count requests: those that may still call a     *)
(* model on the strength of an old plan, and those that passed the quota   *)
(* and have not recorded their use of it.                                  *)
(***************************************************************************)
EXTENDS Gateway, TLAPS, FiniteSetTheorems

(* The turn of a request *)

\* A request that waits for a model is at one, which has left its plan when it is
\* attempted; a caller has heard that model only, and nothing between two of them.
Placed(q) ==
  /\ q.pc \in {"quota", "attempt", "record"} => q.at \in Models
  /\ q.heard \subseteq {q.at}
  /\ q.pc \notin {"attempt", "record"} => q.heard = {}
  /\ q.pc = "attempt" => q.at \notin q.plan
PlacesInv == \A r \in Requests : Placed(req[r])

\* The request plans nothing new and comes no closer to an answer.
Eases(r, q) ==
  /\ q.plan \subseteq req[r].plan /\ q.pc # "quota"
  /\ q.pc \in {"attempt", "record"} => q.pc = req[r].pc /\ q.at = req[r].at
  /\ UNCHANGED <<breaker, ledger, stale>>

Admits(r, q, m) ==
  /\ Allows(breaker[m])
  /\ breaker' = [breaker EXCEPT ![m] = AfterAllow(@)]
  /\ UNCHANGED <<ledger, stale>>
  /\ IF m \in Limited THEN q.pc = "quota" /\ q.at = m /\ q.plan = req[r].plan
     ELSE q.pc = "plan" /\ q.plan = req[r].plan \cup {m}

Checks(r, q) ==
  /\ req[r].pc = "quota" /\ q.pc = "plan"
  /\ q.plan = IF QuotaLeft(req[r].at) THEN req[r].plan \cup {req[r].at} ELSE req[r].plan
  /\ UNCHANGED <<breaker, ledger, stale>>

Attempts(r, q, m) ==
  /\ req[r].pc = "next" /\ m \in req[r].plan
  /\ q.pc = "attempt" /\ q.at = m /\ q.plan = req[r].plan \ {m}
  /\ SentTo(m)
  /\ UNCHANGED <<breaker, ledger>>

Settles(r, q) ==
  /\ req[r].pc = "attempt"
  /\ q.pc \in {"next", "record"} /\ q.at = req[r].at /\ q.plan = req[r].plan
  /\ \/ Fails(req[r].at)
     \/ /\ breaker' = [breaker EXCEPT ![req[r].at] = AfterSuccess(@)]
        /\ UNCHANGED stale
  /\ UNCHANGED ledger

Records(r, q) ==
  /\ req[r].pc = "record" /\ q.pc = "idle" /\ q.plan = {}
  /\ ledger' = [m \in Limited |-> ledger[m] + IF m = req[r].at THEN 1 ELSE 0]
  /\ UNCHANGED <<breaker, stale>>

Turn(r, q) ==
  \/ Eases(r, q) \/ Checks(r, q) \/ Settles(r, q) \/ Records(r, q)
  \/ \E m \in Models : Admits(r, q, m) \/ Attempts(r, q, m)

LEMMA IdleFields ==
  /\ Idle \in RequestState /\ Placed(Idle)
  /\ Idle.pc = "idle" /\ Idle.plan = {} /\ Idle.heard = {}
BY DEF Idle, RequestState, Placed

\* What a request does with its turn.
LEMMA RequestTurns ==
  ASSUME TypeOK, PlacesInv, NEW r \in Requests, Begin(r) \/ Plan(r) \/ Serve(r) \/ Cancel(r)
  PROVE  \E q \in RequestState : /\ req' = [req EXCEPT ![r] = q]
                                 /\ Placed(q) /\ Turn(r, q)
<1> DEFINE p == req[r]
           Goal(q) == /\ q \in RequestState /\ req' = [req EXCEPT ![r] = q]
                      /\ Placed(q) /\ Turn(r, q)
<1>0. p \in RequestState /\ Placed(p)
  BY DEF TypeOK, PlacesInv
<1> SUFFICES \E q : Goal(q)
  OBVIOUS
<1>1. CASE /\ req' = [req EXCEPT ![r] = Idle]
           /\ UNCHANGED <<breaker, ledger, stale>>
  <2>1. Eases(r, Idle)
    BY <1>1, IdleFields DEF Eases
  <2> QED BY <1>1, <2>1, IdleFields DEF Turn
<1>2. CASE Begin(r)
  <2>1. PICK c \in Calls, ms \in SUBSET Models \ {{}} :
          req' = [req EXCEPT ![r] = [Idle EXCEPT !.pc = "plan", !.call = c, !.todo = ms]]
    BY <1>2 DEF Begin
  <2> DEFINE q == [Idle EXCEPT !.pc = "plan", !.call = c, !.todo = ms]
  <2>2. q \in RequestState /\ Placed(q) /\ q.plan = {} /\ q.pc = "plan"
    BY DEF Idle, RequestState, Placed
  <2>3. req' = [req EXCEPT ![r] = q] /\ UNCHANGED <<breaker, ledger, stale>>
    BY <1>2, <2>1 DEF Begin
  <2> HIDE DEF q
  <2>4. Goal(q)
    BY <2>2, <2>3 DEF Turn, Eases
  <2> QED BY <2>4
<1>3. ASSUME NEW m \in Models, Admit(r, m) PROVE \E q : Goal(q)
  <2> DEFINE q == IF m \in Limited THEN [p EXCEPT !.pc = "quota", !.at = m]
                  ELSE [p EXCEPT !.todo = @ \ {m}, !.plan = @ \cup {m}]
  <2>1. /\ req' = [req EXCEPT ![r] = q] /\ p.pc = "plan"
        /\ Allows(breaker[m]) /\ breaker' = [breaker EXCEPT ![m] = AfterAllow(@)]
        /\ UNCHANGED <<ledger, stale>>
    BY <1>3 DEF Admit, NextModel
  <2>2. q \in RequestState /\ Placed(q)
    BY <1>0, <2>1 DEF RequestState, Placed
  <2>3. IF m \in Limited THEN q.pc = "quota" /\ q.at = m /\ q.plan = p.plan
        ELSE q.pc = "plan" /\ q.plan = p.plan \cup {m}
    BY <1>0, <2>1 DEF RequestState
  <2> HIDE DEF q
  <2>4. Goal(q)
    BY <2>1, <2>2, <2>3 DEF Turn, Admits
  <2> QED BY <2>4
<1>4. ASSUME NEW m \in Models, Exclude(r, m) PROVE \E q : Goal(q)
  <2> DEFINE q == [p EXCEPT !.todo = @ \ {m}]
  <2>1. /\ req' = [req EXCEPT ![r] = q] /\ p.pc = "plan"
        /\ UNCHANGED <<breaker, ledger, stale>>
    BY <1>4 DEF Exclude, NextModel, TypeOK
  <2>2. q \in RequestState /\ Placed(q) /\ q.pc = "plan" /\ q.plan = p.plan
    BY <1>0, <2>1 DEF RequestState, Placed
  <2> HIDE DEF q
  <2>3. Goal(q)
    BY <2>1, <2>2 DEF Turn, Eases
  <2> QED BY <2>3
<1>5. CASE CheckQuota(r)
  <2> DEFINE m == p.at
             q == [p EXCEPT !.pc = "plan", !.todo = @ \ {m},
                            !.plan = IF QuotaLeft(m) THEN @ \cup {m} ELSE @]
  <2>1. /\ req' = [req EXCEPT ![r] = q] /\ p.pc = "quota"
        /\ UNCHANGED <<breaker, ledger, stale>>
    BY <1>5 DEF CheckQuota, Resumes
  <2>2. p.at \in Models
    BY <1>0, <2>1 DEF Placed
  <2>3. /\ q \in RequestState /\ Placed(q) /\ q.pc = "plan"
        /\ q.plan = IF QuotaLeft(m) THEN p.plan \cup {m} ELSE p.plan
    BY <1>0, <2>1, <2>2 DEF RequestState, Placed
  <2> HIDE DEF q
  <2>4. Goal(q)
    BY <2>1, <2>3 DEF Turn, Checks
  <2> QED BY <2>4
<1>6. CASE Ranked(r)
  <2> DEFINE q == [p EXCEPT !.at = 0, !.pc = IF p.call = "stream" THEN "ready" ELSE "next"]
  <2>1. CASE p.plan = {}
    BY <1>1, <1>6, <2>1 DEF Ranked
  <2>2. CASE p.plan # {}
    <3>1. /\ req' = [req EXCEPT ![r] = q] /\ p.pc = "plan"
          /\ UNCHANGED <<breaker, ledger, stale>>
      BY <1>6, <2>2 DEF Ranked, TypeOK
    <3>2. /\ q \in RequestState /\ Placed(q) /\ q.pc \in {"ready", "next"}
          /\ q.plan = p.plan
      BY <1>0, <3>1 DEF RequestState, Placed
    <3> HIDE DEF q
    <3>3. Goal(q)
      BY <3>1, <3>2 DEF Turn, Eases
    <3> QED BY <3>3
  <2> QED BY <2>1, <2>2
<1>7. CASE StartStream(r)
  <2> DEFINE q == [p EXCEPT !.pc = "next"]
  <2>1. /\ req' = [req EXCEPT ![r] = q] /\ p.pc = "ready"
        /\ UNCHANGED <<breaker, ledger, stale>>
    BY <1>7 DEF StartStream, Resumes, TypeOK
  <2>2. q \in RequestState /\ Placed(q) /\ q.pc = "next" /\ q.plan = p.plan
    BY <1>0, <2>1 DEF RequestState, Placed
  <2> HIDE DEF q
  <2>3. Goal(q)
    BY <2>1, <2>2 DEF Turn, Eases
  <2> QED BY <2>3
<1>8. ASSUME NEW m \in Models, Attempt(r, m) PROVE \E q : Goal(q)
  <2> DEFINE q == [p EXCEPT !.pc = "attempt", !.at = m, !.plan = @ \ {m}]
  <2>1. /\ req' = [req EXCEPT ![r] = q] /\ p.pc = "next" /\ m \in p.plan
        /\ SentTo(m) /\ UNCHANGED <<breaker, ledger>>
    BY <1>8 DEF Attempt, TypeOK
  <2>2. /\ q \in RequestState /\ Placed(q) /\ q.pc = "attempt" /\ q.at = m
        /\ q.plan = p.plan \ {m}
    BY <1>0, <2>1 DEF RequestState, Placed
  <2> HIDE DEF q
  <2>3. Goal(q)
    BY <2>1, <2>2 DEF Turn, Attempts
  <2> QED BY <2>3
<1>9. CASE Forward(r)
  <2> DEFINE q == [p EXCEPT !.heard = @ \cup {p.at}]
  <2>1. /\ req' = [req EXCEPT ![r] = q] /\ p.pc = "attempt"
        /\ UNCHANGED <<breaker, ledger, stale>>
    BY <1>9 DEF Forward, Resumes, TypeOK
  <2>2. p.at \in Models
    BY <1>0, <2>1 DEF Placed
  <2>3. /\ q \in RequestState /\ Placed(q) /\ q.pc = "attempt" /\ q.at = p.at
        /\ q.plan = p.plan
    BY <1>0, <2>1, <2>2 DEF RequestState, Placed
  <2> HIDE DEF q
  <2>4. Goal(q)
    BY <2>1, <2>3 DEF Turn, Eases
  <2> QED BY <2>4
<1>10. ASSUME NEW pc \in {"next", "record"}, req' = [req EXCEPT ![r].pc = pc],
              p.pc = "attempt", pc = "next" => p.heard = {},
              UNCHANGED ledger,
              \/ Fails(p.at)
              \/ /\ breaker' = [breaker EXCEPT ![p.at] = AfterSuccess(@)]
                 /\ UNCHANGED stale
       PROVE  \E q : Goal(q)
  <2> DEFINE q == [p EXCEPT !.pc = pc]
  <2>1. req' = [req EXCEPT ![r] = q]
    BY <1>10 DEF TypeOK
  <2>2. /\ q \in RequestState /\ Placed(q) /\ q.pc = pc /\ q.at = p.at
        /\ q.plan = p.plan
    BY <1>0, <1>10 DEF RequestState, Placed
  <2> HIDE DEF q
  <2>3. Goal(q)
    BY <1>10, <2>1, <2>2 DEF Turn, Settles
  <2> QED BY <2>3
<1>11. CASE Fail(r) \/ Succeed(r)
  <2>1. /\ req[r].pc = "attempt" /\ UNCHANGED ledger
        /\ \/ Fails(p.at)
           \/ /\ breaker' = [breaker EXCEPT ![p.at] = AfterSuccess(@)]
              /\ UNCHANGED stale
    BY <1>11 DEF Fail, Succeed, Resumes
  <2>2. \E pc \in {"next", "record"} : /\ req' = [req EXCEPT ![r].pc = pc]
                                       /\ pc = "next" => p.heard = {}
    BY <1>11 DEF Fail, Succeed, Forwarded
  <2> QED BY <1>10, <2>1, <2>2
<1>12. CASE RecordUsage(r)
  <2>1. Records(r, Idle) /\ req' = [req EXCEPT ![r] = Idle]
    BY <1>12, IdleFields DEF RecordUsage, Resumes, Records
  <2> QED BY <2>1, IdleFields DEF Turn
<1> QED BY <1>1, <1>2, <1>3, <1>4, <1>5, <1>6, <1>7, <1>8, <1>9, <1>11, <1>12
        DEF Plan, Serve, GiveUp, Refuse, LeaveAtUsage, Cancel

-----------------------------------------------------------------------------
(* Types, breakers and places *)

\* A turn, or the time of a breaker or of the day: nothing else happens.
LEMMA StepTurns ==
  ASSUME TypeOK, PlacesInv, [Next]_vars
  PROVE  \/ \E r \in Requests, q \in RequestState :
              req' = [req EXCEPT ![r] = q] /\ Placed(q) /\ Turn(r, q)
         \/ \E m \in Models : OpenLongEnough(m)
         \/ NewDay
         \/ UNCHANGED vars
BY RequestTurns DEF Next

\* The breaker of a model goes from one of its states to another, and is closed as
\* long as it has counted too few failures.
Sound(b) == b \in BreakerState /\ (b.state = "closed" <=> b.failures < Threshold)

LEMMA BreakerMoves ==
  ASSUME NEW b, Sound(b)
  PROVE  /\ Sound(Closed)
         /\ Sound(AfterSuccess(b))
         /\ Sound(AfterFailure(b))
         /\ Allows(b) => Sound(AfterAllow(b)) /\ AfterAllow(b).state # "open"
<1> USE LimitAssumption DEF Sound, BreakerState
<1>1. Sound(Closed) /\ Sound(AfterSuccess(b))
  BY DEF Closed, AfterSuccess
<1>2. Sound(AfterFailure(b))
  <2> DEFINE n == IF b.failures < Threshold THEN b.failures + 1 ELSE Threshold
  <2>1. n \in 0..Threshold /\ n >= b.failures
    OBVIOUS
  <2>2. AfterFailure(b) = IF b.state = "half_open" \/ n >= Threshold
                          THEN [b EXCEPT !.state = "open", !.failures = n, !.ripe = FALSE]
                          ELSE [b EXCEPT !.failures = n]
    BY DEF AfterFailure
  <2>3. b.state = "half_open" => n = Threshold
    OBVIOUS
  <2> HIDE DEF n
  <2>4. CASE b.state = "half_open" \/ n >= Threshold
    <3>1. AfterFailure(b) = [b EXCEPT !.state = "open", !.failures = n, !.ripe = FALSE]
          /\ n = Threshold
      BY <2>1, <2>2, <2>3, <2>4
    <3>2. AfterFailure(b) \in BreakerState
      BY <2>1, <3>1
    <3>3. AfterFailure(b).state = "open" /\ AfterFailure(b).failures = Threshold
      BY <3>1
    <3> QED BY <3>2, <3>3
  <2>5. CASE ~(b.state = "half_open" \/ n >= Threshold)
    <3>1. b.state = "closed" /\ n < Threshold
      BY <2>1, <2>5
    <3>2. AfterFailure(b) \in BreakerState
      BY <2>1, <2>2, <2>5
    <3>3. AfterFailure(b).state = b.state /\ AfterFailure(b).failures = n
      BY <2>2, <2>5
    <3> QED BY <3>1, <3>2, <3>3
  <2> QED BY <2>4, <2>5
<1>3. ASSUME Allows(b) PROVE Sound(AfterAllow(b)) /\ AfterAllow(b).state # "open"
  <2>1. CASE Probing(b)
    <3>1. ProbesNow(b) = 0 /\ b.state # "closed"
      BY <1>3, <2>1 DEF Allows, Probing
    <3>2. AfterAllow(b) = [b EXCEPT !.state = "half_open", !.ripe = FALSE, !.probes = 1]
      BY <2>1, <3>1 DEF AfterAllow
    <3>3. AfterAllow(b) \in BreakerState
      <4>1. \A k \in 0..1 : [b EXCEPT !.state = "half_open", !.ripe = FALSE, !.probes = k]
                              \in BreakerState
        OBVIOUS
      <4>2. 1 \in 0..1
        OBVIOUS
      <4> HIDE DEF BreakerState
      <4> QED BY <3>2, <4>1, <4>2
    <3>4. AfterAllow(b).state = "half_open" /\ AfterAllow(b).failures = b.failures
      BY <3>2
    <3> QED BY <3>1, <3>3, <3>4
  <2>2. CASE ~Probing(b)
    BY <1>3, <2>2 DEF Allows, AfterAllow
  <2> QED BY <2>1, <2>2
<1> QED BY <1>1, <1>2, <1>3

BaseInv == TypeOK /\ ClosedBelowThreshold /\ PlacesInv

LEMMA BaseInvInit == Init => BaseInv
<1> SUFFICES ASSUME Init PROVE BaseInv
  OBVIOUS
<1>1. Closed \in BreakerState /\ Closed.state = "closed" /\ Closed.failures = 0
  BY LimitAssumption DEF Closed, BreakerState
<1>2. 0 < Threshold
  BY LimitAssumption
<1> QED BY <1>1, <1>2, IdleFields
        DEF Init, BaseInv, TypeOK, ClosedBelowThreshold, PlacesInv

LEMMA BaseInvStep == BaseInv /\ [Next]_vars => BaseInv'
<1> SUFFICES ASSUME BaseInv, [Next]_vars PROVE BaseInv'
  OBVIOUS
<1>0. /\ TypeOK /\ PlacesInv
      /\ \A m \in Models : Sound(breaker[m])
  BY DEF BaseInv, ClosedBelowThreshold, TypeOK, Sound
<1> DEFINE Breakers == breaker' \in [Models -> BreakerState]
                       /\ \A m \in Models : Sound(breaker'[m])
           Ledgers == ledger' \in [Limited -> Nat] /\ stale' \in [Models -> Nat]
           Places == req' \in [Requests -> RequestState]
                     /\ \A r \in Requests : Placed(req'[r])
<1>1. ASSUME Breakers, Ledgers, Places PROVE BaseInv'
  BY <1>1 DEF BaseInv, TypeOK, ClosedBelowThreshold, PlacesInv, Sound, Placed
<1>2. ASSUME NEW m \in Models, NEW b, Sound(b), breaker' = [breaker EXCEPT ![m] = b]
      PROVE  Breakers
  BY <1>0, <1>2 DEF TypeOK, Sound
<1>3. breaker' = breaker => Breakers
  BY <1>0 DEF TypeOK
<1>4. ledger' = ledger /\ stale' = stale => Ledgers
  BY <1>0 DEF TypeOK
<1>5. req' = req => Places
  BY <1>0 DEF TypeOK, PlacesInv
<1>6. CASE \E m \in Models : OpenLongEnough(m)
  <2>1. PICK m \in Models : OpenLongEnough(m)
    BY <1>6
  <2> DEFINE b == [breaker[m] EXCEPT !.ripe = TRUE]
  <2>2. breaker' = [breaker EXCEPT ![m] = b] /\ UNCHANGED <<ledger, req, stale>>
    BY <1>0, <2>1 DEF OpenLongEnough, TypeOK
  <2>3. Sound(b)
    BY <1>0 DEF Sound, BreakerState
  <2> HIDE DEF b
  <2> QED BY <1>1, <1>2, <1>4, <1>5, <2>2, <2>3
<1>7. CASE NewDay
  BY <1>0, <1>1, <1>3, <1>5, <1>7 DEF NewDay, TypeOK
<1>8. CASE UNCHANGED vars
  BY <1>1, <1>3, <1>4, <1>5, <1>8 DEF vars
<1>9. ASSUME NEW r \in Requests, NEW q \in RequestState,
             req' = [req EXCEPT ![r] = q], Placed(q), Turn(r, q)
      PROVE  BaseInv'
  <2>1. Places
    BY <1>0, <1>9 DEF TypeOK, PlacesInv
  <2>2. ASSUME NEW m \in Models, SentTo(m) PROVE stale' \in [Models -> Nat]
    <3>1. stale[m] + 1 \in Nat
      BY <1>0 DEF TypeOK
    <3> QED BY <1>0, <2>2, <3>1 DEF SentTo, TypeOK
  <2>3. CASE Eases(r, q) \/ Checks(r, q)
    BY <1>1, <1>3, <1>4, <2>1, <2>3 DEF Eases, Checks
  <2>4. CASE Settles(r, q)
    <3>1. req[r].at \in Models
      BY <1>0, <2>4 DEF Settles, PlacesInv, Placed
    <3>2. CASE Fails(req[r].at)
      <4>1. Breakers
        BY <1>0, <1>2, <3>1, <3>2, BreakerMoves DEF Fails
      <4>2. stale' \in [Models -> Nat]
        BY <1>0, <3>2 DEF Fails, TypeOK
      <4>3. ledger' = ledger
        BY <2>4 DEF Settles
      <4> QED BY <1>0, <1>1, <2>1, <4>1, <4>2, <4>3 DEF TypeOK
    <3>3. CASE /\ breaker' = [breaker EXCEPT ![req[r].at] = AfterSuccess(@)]
               /\ UNCHANGED stale
      <4>1. Breakers
        BY <1>0, <1>2, <3>1, <3>3, BreakerMoves
      <4> QED BY <1>1, <1>4, <2>1, <2>4, <3>3, <4>1 DEF Settles
    <3> QED BY <2>4, <3>2, <3>3 DEF Settles
  <2>5. CASE Records(r, q)
    <3>1. ledger' \in [Limited -> Nat]
      BY <1>0, <2>5 DEF Records, TypeOK
    <3> QED BY <1>0, <1>1, <1>3, <2>1, <2>5, <3>1 DEF Records, TypeOK
  <2>6. ASSUME NEW m \in Models, Admits(r, q, m) PROVE BaseInv'
    <3>1. Breakers
      BY <1>0, <1>2, <2>6, BreakerMoves DEF Admits
    <3> QED BY <1>1, <1>4, <2>1, <2>6, <3>1 DEF Admits
  <2>7. ASSUME NEW m \in Models, Attempts(r, q, m) PROVE BaseInv'
    <3>1. stale' \in [Models -> Nat]
      BY <2>2, <2>7 DEF Attempts
    <3> QED BY <1>0, <1>1, <1>3, <2>1, <2>7, <3>1 DEF Attempts, TypeOK
  <2> QED BY <1>9, <2>3, <2>4, <2>5, <2>6, <2>7 DEF Turn
<1> QED BY <1>0, <1>6, <1>7, <1>8, <1>9, StepTurns

LEMMA BaseInvariant == Spec => []BaseInv
BY BaseInvInit, BaseInvStep, PTL DEF Spec

\* Every variable stays in its type.
THEOREM GatewayTyping == Spec => []TypeOK
<1>1. BaseInv => TypeOK
  BY DEF BaseInv
<1> QED BY <1>1, BaseInvariant, PTL

\* A breaker is closed exactly while it has counted fewer failures in a row than the
\* threshold, in whatever order the answers of overlapping requests arrive.
THEOREM BreakersCount == Spec => []ClosedBelowThreshold
<1>1. BaseInv => ClosedBelowThreshold
  BY DEF BaseInv
<1> QED BY <1>1, BaseInvariant, PTL

\* Whatever failed before or after, a caller hears one model.
THEOREM CallersHearOneModel == Spec => []OneVoice
<1>1. BaseInv => OneVoice
  <2> SUFFICES ASSUME BaseInv, NEW r \in Requests
               PROVE  Cardinality(req[r].heard) <= 1
    BY DEF OneVoice
  <2>1. req[r].heard \subseteq {req[r].at}
    BY DEF BaseInv, PlacesInv, Placed
  <2>2. CASE req[r].heard = {}
    BY <2>2, FS_EmptySet
  <2>3. CASE req[r].heard # {}
    <3>1. req[r].heard = {req[r].at}
      BY <2>1, <2>3
    <3>2. Cardinality({req[r].at}) = 1
      BY FS_Singleton
    <3> QED BY <3>1, <3>2
  <2> QED BY <2>2, <2>3
<1> QED BY <1>1, BaseInvariant, PTL

-----------------------------------------------------------------------------
(* Counting requests *)

N == Cardinality(Requests)

LEMMA SomeRequests == N \in Nat /\ N >= 1
<1>1. N \in Nat
  BY RequestsAssumption, FS_CardinalityType DEF N
<1>2. N # 0
  BY RequestsAssumption, FS_EmptySet DEF N
<1> QED BY <1>1, <1>2

LEMMA SomeOfThem ==
  ASSUME NEW S \in SUBSET Requests
  PROVE  /\ Cardinality(S) \in Nat /\ Cardinality(S) <= N
         /\ \A T \in SUBSET S : Cardinality(T) \in Nat /\ Cardinality(T) <= Cardinality(S)
         /\ \A r \in S : \A T \in SUBSET (S \ {r}) : Cardinality(T) < Cardinality(S)
<1>1. IsFiniteSet(S) /\ Cardinality(S) <= N
  BY RequestsAssumption, FS_Subset DEF N
<1>2. Cardinality(S) \in Nat
  BY <1>1, FS_CardinalityType
<1>3. ASSUME NEW T \in SUBSET S
      PROVE  Cardinality(T) \in Nat /\ Cardinality(T) <= Cardinality(S)
  BY <1>1, FS_Subset, FS_CardinalityType
<1>4. ASSUME NEW r \in S, NEW T \in SUBSET (S \ {r})
      PROVE  Cardinality(T) < Cardinality(S)
  <2>1. IsFiniteSet(S \ {r}) /\ Cardinality(S \ {r}) = Cardinality(S) - 1
    BY <1>1, FS_RemoveElement
  <2>2. Cardinality(T) <= Cardinality(S \ {r})
    BY <2>1, FS_Subset
  <2>3. Cardinality(T) \in Nat
    BY <1>3
  <2> QED BY <1>2, <2>1, <2>2, <2>3
<1> QED BY <1>1, <1>2, <1>3, <1>4

-----------------------------------------------------------------------------
(* Attempts on an open breaker *)

\* Requests that may still call m on the strength of a plan made so far.
Planned(m) ==
  {r \in Requests : m \in req[r].plan \/ (req[r].pc = "quota" /\ req[r].at = m)}

\* While the breaker is open nobody new plans on m, so each attempt uses up one of the
\* plans; and whoever opened it has no plan on m left.
QuietInv ==
  \A m \in Models :
    /\ stale[m] < N
    /\ breaker[m].state = "open" => stale[m] + Cardinality(Planned(m)) < N

\* A model is planned on anew only when its breaker lets a request through.
LEMMA PlannedByTurn ==
  ASSUME TypeOK, NEW r \in Requests, NEW q \in RequestState, req' = [req EXCEPT ![r] = q],
         Turn(r, q), NEW m \in Models, ~Admits(r, q, m)
  PROVE  Planned(m)' \subseteq Planned(m)
<1>1. /\ req'[r] = q
      /\ \A p \in Requests \ {r} : req'[p] = req[p]
  BY DEF TypeOK
<1>2. ASSUME m \in q.plan \/ (q.pc = "quota" /\ q.at = m)
      PROVE  m \in req[r].plan \/ (req[r].pc = "quota" /\ req[r].at = m)
  BY <1>2 DEF Turn, Eases, Checks, Settles, Records, Admits, Attempts
<1> QED BY <1>1, <1>2 DEF Planned

LEMMA QuietInvTurn ==
  ASSUME BaseInv, QuietInv, NEW r \in Requests, NEW q \in RequestState,
         req' = [req EXCEPT ![r] = q], Turn(r, q)
  PROVE  QuietInv'
<1> SUFFICES ASSUME NEW m \in Models
             PROVE  /\ stale'[m] < N
                    /\ breaker'[m].state = "open" => stale'[m] + Cardinality(Planned(m)') < N
  BY DEF QuietInv, N
<1>0. /\ TypeOK /\ Placed(req[r]) /\ Sound(breaker[m])
      /\ req'[r] = q /\ stale[m] \in Nat /\ N \in Nat /\ N >= 1
  BY SomeRequests DEF BaseInv, TypeOK, PlacesInv, ClosedBelowThreshold, Sound
<1>1. /\ Planned(m) \in SUBSET Requests /\ Planned(m)' \in SUBSET Requests
      /\ Cardinality(Planned(m)) \in Nat /\ Cardinality(Planned(m)') \in Nat
  BY SomeOfThem DEF Planned
<1>2. ~Admits(r, q, m) =>
        Planned(m)' \subseteq Planned(m) /\ Cardinality(Planned(m)') <= Cardinality(Planned(m))
  BY <1>0, <1>1, PlannedByTurn, SomeOfThem
<1>3. /\ stale[m] < N
      /\ breaker[m].state = "open" => stale[m] + Cardinality(Planned(m)) < N
  BY DEF QuietInv
<1>4. CASE stale'[m] = stale[m] /\ breaker'[m] = breaker[m] /\ ~Admits(r, q, m)
  BY <1>0, <1>1, <1>2, <1>3, <1>4
<1>5. CASE Admits(r, q, m)
  <2>1. breaker'[m] = AfterAllow(breaker[m]) /\ stale'[m] = stale[m]
    BY <1>0, <1>5 DEF Admits, TypeOK
  <2>2. breaker'[m].state # "open"
    BY <1>0, <1>5, <2>1, BreakerMoves DEF Admits
  <2> QED BY <1>3, <2>1, <2>2
<1>6. CASE Attempts(r, q, m)
  <2>1. breaker'[m] = breaker[m] /\ SentTo(m) /\ r \in Planned(m)
    BY <1>6 DEF Attempts, Planned
  <2>2. stale'[m] = stale[m] \/ (stale'[m] = stale[m] + 1 /\ breaker[m].state = "open")
    BY <1>0, <2>1 DEF SentTo, TypeOK
  <2>3. ~Admits(r, q, m)
    BY <1>6 DEF Attempts, Admits
  <2>4. r \notin Planned(m)'
    BY <1>0, <1>6 DEF Attempts, Planned
  <2>5. Planned(m)' \in SUBSET (Planned(m) \ {r})
    BY <1>2, <2>3, <2>4
  <2>6. Cardinality(Planned(m)') < Cardinality(Planned(m))
    BY <1>1, <2>1, <2>5, SomeOfThem
  <2> QED BY <1>0, <1>1, <1>3, <2>1, <2>2, <2>6
<1>7. CASE Settles(r, q) /\ req[r].at = m
  <2>1. ~Admits(r, q, m)
    BY <1>7 DEF Settles, Admits
  <2>2. r \notin Planned(m)'
    <3>1. m \notin q.plan /\ q.pc # "quota"
      BY <1>0, <1>7 DEF Settles, Placed
    <3> QED BY <1>0, <3>1 DEF Planned
  <2>3. Cardinality(Planned(m)') < N
    <3>1. Planned(m)' \in SUBSET (Requests \ {r})
      BY <1>1, <2>2
    <3> QED BY <3>1, SomeOfThem DEF N
  <2>4. CASE Fails(m)
    <3>1. stale' = IF breaker[m].state # "open" THEN [stale EXCEPT ![m] = 0] ELSE stale
      BY <2>4 DEF Fails
    <3>2. CASE breaker[m].state = "open"
      BY <1>0, <1>1, <1>2, <1>3, <2>1, <3>1, <3>2
    <3>3. CASE breaker[m].state # "open"
      <4>1. stale'[m] = 0
        BY <3>1, <3>3 DEF TypeOK, BaseInv
      <4> QED BY <1>0, <1>1, <2>3, <4>1
    <3> QED BY <3>2, <3>3
  <2>5. CASE breaker' = [breaker EXCEPT ![m] = AfterSuccess(@)] /\ UNCHANGED stale
    <3>1. breaker'[m].state = "closed"
      BY <1>0, <2>5 DEF TypeOK, AfterSuccess, Closed
    <3> QED BY <1>3, <2>5, <3>1
  <2> QED BY <1>7, <2>4, <2>5 DEF Settles
<1>8. CASE ~Admits(r, q, m) /\ ~Attempts(r, q, m) /\ ~(Settles(r, q) /\ req[r].at = m)
  <2>1. stale'[m] = stale[m] /\ breaker'[m] = breaker[m]
    BY <1>0, <1>8 DEF Turn, Eases, Checks, Settles, Records, Admits, Attempts, Fails, SentTo,
                      TypeOK
  <2> QED BY <1>4, <1>8, <2>1
<1> QED BY <1>5, <1>6, <1>7, <1>8

LEMMA QuietInvInit == Init => QuietInv
<1> SUFFICES ASSUME Init, NEW m \in Models
             PROVE  stale[m] < N /\ breaker[m].state # "open"
  BY DEF QuietInv
<1>1. stale[m] = 0 /\ breaker[m] = Closed
  BY DEF Init
<1> QED BY <1>1, SomeRequests DEF Closed

LEMMA QuietInvStep == BaseInv /\ QuietInv /\ [Next]_vars => QuietInv'
<1> SUFFICES ASSUME BaseInv, QuietInv, [Next]_vars PROVE QuietInv'
  OBVIOUS
<1>0. TypeOK /\ PlacesInv
  BY DEF BaseInv
<1>1. ASSUME UNCHANGED <<req, stale>>,
             \A m \in Models : breaker'[m].state = breaker[m].state
      PROVE  QuietInv'
  BY <1>1 DEF QuietInv, Planned, N
<1>2. CASE \E m \in Models : OpenLongEnough(m)
  BY <1>0, <1>1, <1>2 DEF OpenLongEnough, TypeOK, BreakerState
<1>3. CASE NewDay \/ UNCHANGED vars
  BY <1>1, <1>3 DEF NewDay, vars
<1> QED BY <1>0, <1>2, <1>3, QuietInvTurn, StepTurns

\* Since its breaker opened, a model has been called by fewer requests than there are:
\* by those that were planned before, and by none that came later.
THEOREM OpenBreakersAreQuiet == Spec => []OpenIsNearlyQuiet
<1>1. QuietInv => OpenIsNearlyQuiet
  BY DEF QuietInv, OpenIsNearlyQuiet, N
<1> QED BY <1>1, QuietInvInit, QuietInvStep, BaseInvariant, PTL DEF Spec

-----------------------------------------------------------------------------
(* The daily quota *)

\* Requests that passed the quota of m and have not recorded their use of it.
Holders(m) ==
  {r \in Requests :
     m \in req[r].plan \/ (req[r].pc \in {"attempt", "record"} /\ req[r].at = m)}

\* Once the limit is reached nobody new passes, so what is recorded and what may still
\* be recorded stay below what one request less than all of them can add.
QuotaInv ==
  \A m \in Limited :
    ledger[m] >= Limit => ledger[m] + Cardinality(Holders(m)) < Limit + N

\* A request comes to hold a limited model only by passing its quota.
LEMMA HoldersByTurn ==
  ASSUME TypeOK, NEW r \in Requests, NEW q \in RequestState, req' = [req EXCEPT ![r] = q],
         Turn(r, q), NEW m \in Limited,
         ~(Checks(r, q) /\ req[r].at = m /\ QuotaLeft(m))
  PROVE  Holders(m)' \subseteq Holders(m)
<1>1. /\ req'[r] = q
      /\ \A p \in Requests \ {r} : req'[p] = req[p]
  BY DEF TypeOK
<1>2. ASSUME m \in q.plan \/ (q.pc \in {"attempt", "record"} /\ q.at = m)
      PROVE  m \in req[r].plan \/ (req[r].pc \in {"attempt", "record"} /\ req[r].at = m)
  BY <1>2 DEF Turn, Eases, Checks, Settles, Records, Admits, Attempts
<1> QED BY <1>1, <1>2 DEF Holders

LEMMA QuotaInvTurn ==
  ASSUME BaseInv, QuotaInv, NEW r \in Requests, NEW q \in RequestState,
         req' = [req EXCEPT ![r] = q], Turn(r, q)
  PROVE  QuotaInv'
<1> SUFFICES ASSUME NEW m \in Limited, ledger'[m] >= Limit
             PROVE  ledger'[m] + Cardinality(Holders(m)') < Limit + N
  BY DEF QuotaInv, N
<1>0. /\ TypeOK /\ Placed(req[r])
      /\ req'[r] = q /\ ledger[m] \in Nat /\ N \in Nat /\ N >= 1 /\ Limit \in Nat
  BY SomeRequests, LimitAssumption DEF BaseInv, TypeOK, PlacesInv
<1>1. /\ Holders(m) \in SUBSET Requests /\ Holders(m)' \in SUBSET Requests
      /\ Cardinality(Holders(m)) \in Nat /\ Cardinality(Holders(m)) <= N
      /\ Cardinality(Holders(m)') \in Nat
  BY SomeOfThem DEF Holders
<1>2. ledger[m] >= Limit => ledger[m] + Cardinality(Holders(m)) < Limit + N
  BY DEF QuotaInv
<1>3. CASE Records(r, q) /\ req[r].at = m
  <2>1. ledger'[m] = ledger[m] + 1
    BY <1>3 DEF Records
  <2>2. r \in Holders(m) /\ r \notin Holders(m)'
    BY <1>0, <1>3 DEF Records, Holders
  <2>3. Holders(m)' \in SUBSET (Holders(m) \ {r})
    <3>1. ~Checks(r, q)
      BY <1>3 DEF Records, Checks
    <3> QED BY <1>0, <2>2, <3>1, HoldersByTurn
  <2>4. Cardinality(Holders(m)') < Cardinality(Holders(m))
    BY <1>1, <2>2, <2>3, SomeOfThem
  <2> QED BY <1>0, <1>1, <1>2, <2>1, <2>4
<1>4. CASE ~(Records(r, q) /\ req[r].at = m)
  <2>1. ledger'[m] = ledger[m]
    BY <1>0, <1>4 DEF Turn, Eases, Checks, Settles, Records, Admits, Attempts
  <2>2. ~QuotaLeft(m)
    BY <1>0, <2>1 DEF QuotaLeft
  <2>3. Cardinality(Holders(m)') <= Cardinality(Holders(m))
    BY <1>0, <1>1, <2>2, HoldersByTurn, SomeOfThem
  <2> QED BY <1>0, <1>1, <1>2, <2>1, <2>3
<1> QED BY <1>3, <1>4

LEMMA QuotaInvInit == Init => QuotaInv
<1> SUFFICES ASSUME Init, NEW m \in Limited
             PROVE  ledger[m] + Cardinality(Holders(m)) < Limit + N
  BY DEF QuotaInv
<1>1. Holders(m) = {}
  BY IdleFields DEF Init, Holders
<1>2. ledger[m] = 0 /\ Cardinality(Holders(m)) = 0
  BY <1>1, FS_EmptySet DEF Init
<1> QED BY <1>2, SomeRequests, LimitAssumption

LEMMA QuotaInvStep == BaseInv /\ QuotaInv /\ [Next]_vars => QuotaInv'
<1> SUFFICES ASSUME BaseInv, QuotaInv, [Next]_vars PROVE QuotaInv'
  OBVIOUS
<1>0. TypeOK /\ PlacesInv
  BY DEF BaseInv
<1>1. CASE UNCHANGED <<req, ledger>>
  BY <1>1 DEF QuotaInv, Holders, N
<1>2. CASE NewDay
  <2> SUFFICES ASSUME NEW m \in Limited, ledger'[m] >= Limit
               PROVE  ledger'[m] + Cardinality(Holders(m)') < Limit + N
    BY DEF QuotaInv, N
  <2>1. ledger'[m] = 0 /\ ledger[m] \in Nat /\ Limit \in Nat /\ N \in Nat
    BY <1>0, <1>2, SomeRequests, LimitAssumption DEF NewDay, TypeOK
  <2>2. Holders(m)' = Holders(m) /\ Cardinality(Holders(m)) \in Nat
    BY <1>2, SomeOfThem DEF NewDay, Holders
  <2>3. ledger[m] + Cardinality(Holders(m)) < Limit + N
    BY <2>1 DEF QuotaInv
  <2> QED BY <2>1, <2>2, <2>3
<1>3. CASE UNCHANGED vars \/ \E m \in Models : OpenLongEnough(m)
  BY <1>1, <1>3 DEF vars, OpenLongEnough
<1> QED BY <1>0, <1>2, <1>3, QuotaInvTurn, StepTurns

\* Requests check the quota before they use it; together they pass the daily limit by
\* fewer than there are requests, whatever the limit and however they interleave.
THEOREM QuotaOverrun == Spec => []QuotaOverrunBounded
<1> DEFINE Inv == BaseInv /\ QuotaInv
<1>1. Inv => QuotaOverrunBounded
  <2> SUFFICES ASSUME BaseInv, QuotaInv, NEW m \in Limited
               PROVE  ledger[m] <= Limit + N - 1
    BY DEF QuotaOverrunBounded, N
  <2>1. ledger[m] \in Nat /\ Limit \in Nat /\ N \in Nat /\ N >= 1
    BY SomeRequests, LimitAssumption DEF BaseInv, TypeOK
  <2>2. Cardinality(Holders(m)) \in Nat
    BY SomeOfThem DEF Holders
  <2>3. ledger[m] >= Limit => ledger[m] + Cardinality(Holders(m)) < Limit + N
    BY DEF QuotaInv
  <2> QED BY <2>1, <2>2, <2>3
<1>2. Init => Inv
  BY BaseInvInit, QuotaInvInit
<1>3. Inv /\ [Next]_vars => Inv'
  BY BaseInvStep, QuotaInvStep
<1> HIDE DEF Inv
<1> QED BY <1>1, <1>2, <1>3, PTL DEF Spec
=============================================================================
