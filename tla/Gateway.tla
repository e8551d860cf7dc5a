------------------------------- MODULE Gateway -------------------------------
(***************************************************************************)
(* The inference gateway: RouterEngine.plan, complete_with_decision and    *)
(* stream of gateway/routing.py with the circuit breakers of               *)
(* gateway/circuit.py and the daily quota of gateway/quota.py, and the two *)
(* consumers of a stream, api/gateway.py (drains it) and ModelRouter of    *)
(* router/client.py (leaves it at the usage event).                        *)
(*                                                                         *)
(* One asyncio process serves many requests: a request keeps its turn from *)
(* one await to the next, so what it saw while planning may be stale when  *)
(* it attempts a model.  Whatever the policy, the ranking is some     *)
(* order of the eligible models: the next candidate is any of those left.  *)
(* The tries of _attempt inside one candidate, their backoff and the       *)
(* contents of answers are abstracted to the candidate's outcome.          *)
(***************************************************************************)
EXTENDS Integers, FiniteSets

CONSTANTS Requests,   \* requests that may be in flight together
          Models,     \* numbered in registry order
          Limited,    \* models with a daily_limit
          Limit,      \* ... which is this
          Threshold,  \* failures that open a breaker
          Calls,      \* who asks: complete, stream (api/gateway.py), router
          Cancels     \* callers may disconnect or be cancelled

ASSUME RequestsAssumption == IsFiniteSet(Requests) /\ Requests # {}
ASSUME ModelsAssumption == Models \subseteq Nat /\ Limited \subseteq Models
ASSUME LimitAssumption == Limit \in Nat /\ Threshold \in Nat \ {0}
ASSUME CallsAssumption == Calls \subseteq {"complete", "stream", "router"}
ASSUME CancelsAssumption == Cancels \in BOOLEAN

VARIABLES breaker,  \* one CircuitBreaker per model
          ledger,   \* today's gateway_usage rows of each limited model
          req,      \* the requests
          stale     \* ghost: attempts sent to a model since its breaker opened

vars == <<breaker, ledger, req, stale>>

-----------------------------------------------------------------------------
(* CircuitBreaker *)

Closed == [state |-> "closed", failures |-> 0, ripe |-> FALSE, probes |-> 0]

\* An open breaker whose open_for_s has passed is half open from the next allow
\* on, and a half-open one lets one probe through.
Probing(b) == b.state = "half_open" \/ (b.state = "open" /\ b.ripe)
ProbesNow(b) == IF b.state = "half_open" THEN b.probes ELSE 0

\* Mutant of Allows: an open breaker lets all pass.
IgnoreOpen(b) == b.state # "half_open" \/ ProbesNow(b) = 0

Allows(b) == b.state = "closed" \/ (Probing(b) /\ ProbesNow(b) = 0)

AfterAllow(b) ==
  IF Probing(b)
  THEN [b EXCEPT !.state = "half_open", !.ripe = FALSE, !.probes = ProbesNow(b) + 1]
  ELSE b

AfterSuccess(b) == Closed

\* failures is only ever compared with the threshold: it is counted up to there.
AfterFailure(b) ==
  LET n == IF b.failures < Threshold THEN b.failures + 1 ELSE Threshold
  IN  IF b.state = "half_open" \/ n >= Threshold
      THEN [b EXCEPT !.state = "open", !.failures = n, !.ripe = FALSE]
      ELSE [b EXCEPT !.failures = n]

\* open_for_s seconds have passed since opened_at.
OpenLongEnough(m) ==
  /\ breaker[m].state = "open"
  /\ ~breaker[m].ripe
  /\ breaker' = [breaker EXCEPT ![m].ripe = TRUE]
  /\ UNCHANGED <<ledger, req, stale>>

-----------------------------------------------------------------------------
(* RouterEngine.plan *)

Idle == [pc |-> "idle", call |-> "complete", todo |-> {}, plan |-> {}, at |-> 0,
         heard |-> {}]

\* A request that is planning or between two candidates awaits nothing.
Resumes(r, pc) ==
  req[r].pc = pc /\ \A q \in Requests \ {r} : req[q].pc \notin {"plan", "next"}

\* The models that pass the hard requirements and have a usable adapter.
Begin(r) ==
  /\ Resumes(r, "idle")
  /\ \E c \in Calls, ms \in SUBSET Models \ {{}} :
        req' = [req EXCEPT ![r] = [Idle EXCEPT !.pc = "plan", !.call = c, !.todo = ms]]
  /\ UNCHANGED <<breaker, ledger, stale>>

NextModel(r, m) ==
  /\ req[r].pc = "plan"
  /\ m \in req[r].todo
  /\ \A n \in req[r].todo : m <= n

\* allow is asked here, for every model of the plan and not when it is attempted.
\* The quota of a limited model has to be read from the ledger first.
Admit(r, m) ==
  /\ NextModel(r, m)
  /\ Allows(breaker[m])
  /\ breaker' = [breaker EXCEPT ![m] = AfterAllow(@)]
  /\ req' = [req EXCEPT ![r] =
       IF m \in Limited THEN [req[r] EXCEPT !.pc = "quota", !.at = m]
       ELSE [req[r] EXCEPT !.todo = @ \ {m}, !.plan = @ \cup {m}]]
  /\ UNCHANGED <<ledger, stale>>

Exclude(r, m) ==
  /\ NextModel(r, m)
  /\ ~Allows(breaker[m])
  /\ req' = [req EXCEPT ![r].todo = @ \ {m}]
  /\ UNCHANGED <<breaker, ledger, stale>>

\* Mutant: one request too many.
QuotaLeftOrSpent(m) == ledger[m] <= Limit

QuotaLeft(m) == ledger[m] < Limit

CheckQuota(r) ==
  /\ Resumes(r, "quota")
  /\ LET m == req[r].at
     IN  req' = [req EXCEPT ![r] =
           [req[r] EXCEPT !.pc = "plan", !.todo = @ \ {m},
                          !.plan = IF QuotaLeft(m) THEN @ \cup {m} ELSE @]]
  /\ UNCHANGED <<breaker, ledger, stale>>

\* NoCandidatesError, or on to the candidates.  The gateway's API hands a planned
\* stream to the server, which starts it in its own time.
Ranked(r) ==
  /\ req[r].pc = "plan"
  /\ req[r].todo = {}
  /\ req' = [req EXCEPT ![r] =
       IF req[r].plan = {} THEN Idle
       ELSE [@ EXCEPT !.at = 0, !.pc = IF req[r].call = "stream" THEN "ready" ELSE "next"]]
  /\ UNCHANGED <<breaker, ledger, stale>>

StartStream(r) ==
  /\ Resumes(r, "ready")
  /\ req' = [req EXCEPT ![r].pc = "next"]
  /\ UNCHANGED <<breaker, ledger, stale>>

-----------------------------------------------------------------------------
(* complete_with_decision and stream *)

SentTo(m) ==
  stale' = IF breaker[m].state = "open" /\ stale[m] <= Cardinality(Requests)
           THEN [stale EXCEPT ![m] = @ + 1] ELSE stale

Attempt(r, m) ==
  /\ req[r].pc = "next"
  /\ m \in req[r].plan
  /\ req' = [req EXCEPT ![r].pc = "attempt", ![r].at = m, ![r].plan = @ \ {m}]
  /\ SentTo(m)
  /\ UNCHANGED <<breaker, ledger>>

\* No candidate is left, or less time than an attempt and the reserve need (there
\* is time for one).  The row this leaves in the ledger names no model.
GiveUp(r) ==
  /\ req[r].pc = "next"
  /\ req[r].plan = {} \/ req[r].at # 0
  /\ req' = [req EXCEPT ![r] = Idle]
  /\ UNCHANGED <<breaker, ledger, stale>>

Streams(r) == req[r].call # "complete"
Forwarded(r) == req[r].heard # {}

\* The first text or tool-call delta reaches the caller.
Forward(r) ==
  /\ Resumes(r, "attempt")
  /\ Streams(r)
  /\ req[r].at \notin req[r].heard
  /\ req' = [req EXCEPT ![r].heard = @ \cup {req[r].at}]
  /\ UNCHANGED <<breaker, ledger, stale>>

Fails(m) ==
  /\ breaker' = [breaker EXCEPT ![m] = AfterFailure(@)]
  /\ stale' = IF breaker[m].state # "open" THEN [stale EXCEPT ![m] = 0] ELSE stale

\* Mutant: falls back whatever the caller has seen.
FallBackAlways(r) ==
  /\ Resumes(r, "attempt")
  /\ Fails(req[r].at)
  /\ req' = [req EXCEPT ![r].pc = "next"]
  /\ UNCHANGED ledger

\* A GatewayError, or an answer with neither text nor tool call.  In a stream
\* that has forwarded something the caller owns the partial answer: no fallback.
Fail(r) ==
  /\ Resumes(r, "attempt")
  /\ Fails(req[r].at)
  /\ req' = [req EXCEPT ![r].pc = IF Forwarded(r) THEN "record" ELSE "next"]
  /\ UNCHANGED ledger

\* InvalidRequestError is raised at once where nothing is streamed; a stream
\* treats it like any other GatewayError (Fail).
Refuse(r) ==
  /\ Resumes(r, "attempt")
  /\ ~Streams(r)
  /\ req' = [req EXCEPT ![r] = Idle]
  /\ UNCHANGED <<breaker, ledger, stale>>

\* A usable answer: the whole completion, or the clean end of a stream that has
\* forwarded something.
Succeed(r) ==
  /\ Resumes(r, "attempt")
  /\ req[r].call = "complete" \/ (req[r].call = "stream" /\ Forwarded(r))
  /\ breaker' = [breaker EXCEPT ![req[r].at] = AfterSuccess(@)]
  /\ req' = [req EXCEPT ![r].pc = "record"]
  /\ UNCHANGED <<ledger, stale>>

\* ModelRouter takes the usage event for its final answer and drops the stream,
\* which is closed before it records anything.
LeaveAtUsage(r) ==
  /\ Resumes(r, "attempt")
  /\ req[r].call = "router"
  /\ req' = [req EXCEPT ![r] = Idle]
  /\ UNCHANGED <<breaker, ledger, stale>>

\* record_usage: the INSERT into gateway_usage.
RecordUsage(r) ==
  /\ Resumes(r, "record")
  /\ ledger' = [m \in Limited |-> ledger[m] + IF m = req[r].at THEN 1 ELSE 0]
  /\ req' = [req EXCEPT ![r] = Idle]
  /\ UNCHANGED <<breaker, stale>>

\* CancelledError or GeneratorExit where the request awaits or yields: no
\* handler for either.
Cancel(r) ==
  /\ Cancels
  /\ \E pc \in {"quota", "ready", "attempt", "record"} : Resumes(r, pc)
  /\ req' = [req EXCEPT ![r] = Idle]
  /\ UNCHANGED <<breaker, ledger, stale>>

\* date_trunc('day', now()) moves on.
NewDay ==
  /\ \E m \in Limited : ledger[m] > 0
  /\ ledger' = [m \in Limited |-> 0]
  /\ UNCHANGED <<breaker, req, stale>>

-----------------------------------------------------------------------------
Init ==
  /\ breaker = [m \in Models |-> Closed]
  /\ ledger = [m \in Limited |-> 0]
  /\ req = [r \in Requests |-> Idle]
  /\ stale = [m \in Models |-> 0]

Plan(r) == (\E m \in Models : Admit(r, m) \/ Exclude(r, m)) \/ CheckQuota(r) \/ Ranked(r)
Serve(r) ==
  \/ \E m \in Models : Attempt(r, m)
  \/ StartStream(r) \/ GiveUp(r) \/ Forward(r) \/ Fail(r) \/ Refuse(r) \/ Succeed(r) \/ LeaveAtUsage(r)
  \/ RecordUsage(r)

Next ==
  \/ \E r \in Requests : Begin(r) \/ Plan(r) \/ Serve(r) \/ Cancel(r)
  \/ \E m \in Models : OpenLongEnough(m)
  \/ NewDay

Spec == Init /\ [][Next]_vars

-----------------------------------------------------------------------------
(* Properties *)

BreakerState ==
  [state : {"closed", "open", "half_open"}, failures : 0..Threshold, ripe : BOOLEAN,
   probes : 0..1]

RequestState ==
  [pc : {"idle", "plan", "quota", "ready", "next", "attempt", "record"},
   call : Calls \cup {"complete"}, todo : SUBSET Models, plan : SUBSET Models,
   at : Models \cup {0}, heard : SUBSET Models]

\* Every variable stays within the values the code can give it.
TypeOK ==
  /\ breaker \in [Models -> BreakerState]
  /\ ledger \in [Limited -> Nat]
  /\ req \in [Requests -> RequestState]
  /\ stale \in [Models -> Nat]

\* A breaker is closed exactly while it has counted fewer failures in a row than
\* the threshold, in whatever order the answers of overlapping requests arrive.
ClosedBelowThreshold ==
  \A m \in Models : breaker[m].state = "closed" <=> breaker[m].failures < Threshold

\* An open breaker is asked when a request is planned, so a request planned before
\* it opened still reaches the provider; there is at most one such attempt for
\* every other request, and none from requests that began later.
OpenIsNearlyQuiet == \A m \in Models : stale[m] < Cardinality(Requests)

\* What a caller hears comes from one model, whatever failed before or after.
OneVoice == \A r \in Requests : Cardinality(req[r].heard) <= 1

\* Requests check the quota before they use it, so together they may pass the
\* daily limit, by fewer than there are requests.
QuotaOverrunBounded ==
  \A m \in Limited : ledger[m] <= Limit + Cardinality(Requests) - 1

(* Statements of the sources that the code does not keep *)

\* circuit.py: HALF_OPEN means that a probe is in flight.
MayProbe(r, m) ==
  m \in req[r].plan \/ (req[r].pc \in {"quota", "attempt"} /\ req[r].at = m)
ProbeInFlight ==
  \A m \in Models :
     breaker[m].state = "half_open" => \E r \in Requests : MayProbe(r, m)

=============================================================================
