------------------------ MODULE CodeTaskOutcomeProofs ------------------------
(***************************************************************************)
(* How a code task ends: its final decision, its rounds, its verdicts and  *)
(* its outcome, for any number of retries and tries.                       *)
(*                                                                         *)
(* A step either has an effect of a running try, and then the workflow     *)
(* only waits, or it moves the workflow, and then nothing outside it       *)
(* changes.  The first part describes the moves once, by the fields they   *)
(* change; each invariant is then kept by the moves and by the effects it  *)
(* is about.                                                               *)
(***************************************************************************)
EXTENDS CodeTaskProofs, FiniteSetTheorems

(* The moves of the workflow *)

SameRound == wf'.attempt = wf.attempt /\ wf'.verdict = wf.verdict
SameEnd == wf'.action = wf.action /\ wf'.outcome = wf.outcome
SameAccount == wf'.cost = wf.cost /\ wf'.seen = wf.seen

Waits == wf'.pc = wf.pc /\ SameRound /\ SameEnd /\ SameAccount

Planned ==
  /\ wf.pc = "plan" /\ wf'.pc = "guard"
  /\ wf'.attempt = wf.attempt + 1 /\ wf'.verdict = "none" /\ SameEnd
  /\ wf'.seen = wf.seen
Starts ==
  /\ wf.pc = "guard" /\ wf'.pc = "work"
  /\ SameRound /\ SameEnd /\ SameAccount
Worked ==
  /\ wf.pc = "work" /\ wf'.pc = "verify"
  /\ SameRound /\ SameEnd
Judged ==
  /\ wf.pc = "verify" /\ wf'.pc = "policy"
  /\ wf'.attempt = wf.attempt /\ SameEnd /\ wf'.cost = wf.cost
  /\ \E x \in execs : /\ x.act = "verify" /\ Answered(x)
                      /\ wf'.verdict = IF x.passed THEN "pass" ELSE "fail"
                      /\ wf'.seen = x.seen
GivesUp ==
  /\ wf.pc \in {"plan", "work", "verify"} /\ wf'.pc = "fail"
  /\ SameRound /\ SameEnd /\ SameAccount
Decides ==
  /\ wf.pc \in {"guard", "policy", "strategy"} /\ wf'.pc = "decide"
  /\ SameRound /\ wf'.outcome = wf.outcome /\ SameAccount
  /\ wf'.action = "halt" \/ (wf.pc = "policy" /\ wf'.action = Decision)

\* The decision has been answered, or the in-process runner has dropped its error.
Decided == Lite \/ \E x \in execs : x.act = "decide" /\ Answered(x)
Retrying ==
  \/ wf.pc = "decide" /\ wf.action = "retry" /\ Decided
  \/ wf.pc = "strategy"
Strategizes ==
  /\ wf.pc = "decide" /\ Retrying /\ wf'.pc = "strategy"
  /\ SameRound /\ SameEnd /\ SameAccount
GoesRound ==
  /\ Retrying /\ wf'.pc = "guard"
  /\ wf.attempt <= MaxRetries /\ wf'.attempt = wf.attempt + 1 /\ wf'.verdict = "none"
  /\ SameEnd /\ SameAccount
Ends ==
  /\ wf.pc # "closed" /\ wf'.pc = "closed"
  /\ SameRound /\ wf'.action = wf.action /\ SameAccount
  /\ \/ wf'.outcome \in {"failed", "crashed"}
     \/ /\ wf.pc = "decide" /\ wf.action \in Actions \ {"retry"} /\ Decided
        /\ wf'.outcome = OutcomeOf[wf.action]
     \/ /\ Retrying /\ ~(wf.attempt <= MaxRetries)
        /\ wf'.outcome = "needs_human_review"

\* A move takes the answer of the current try, or there is none to wait for.
Leaves ==
  \/ execs' = {}
  \/ \E x \in execs : Current(x) /\ execs' = execs \ {x}
  \/ execs' = execs /\ (wf.pc \in Activities => NothingRunning \/ TimedOut)

Moves ==
  /\ \/ Planned \/ Starts \/ Worked \/ Judged \/ GivesUp \/ Decides
     \/ Strategizes \/ GoesRound \/ Ends
  /\ Leaves
  /\ UNCHANGED <<recorded, folded, row, workspace>>

-----------------------------------------------------------------------------
LEMMA GoToFields ==
  ASSUME NEW w \in WorkflowState, NEW pc, NEW v, v = GoTo(w, pc)
  PROVE  /\ v.pc = pc /\ v.attempt = w.attempt /\ v.verdict = w.verdict
         /\ v.action = w.action /\ v.outcome = w.outcome
         /\ v.cost = w.cost /\ v.seen = w.seen
<1>1. v = [w EXCEPT !.pc = pc, !.try = 0]
  BY DEF GoTo
<1> QED BY <1>1 DEF WorkflowState

LEMMA CloseFields ==
  ASSUME NEW w \in WorkflowState, NEW o, NEW v, v = Close(w, o)
  PROVE  /\ v.pc = "closed" /\ v.attempt = w.attempt /\ v.verdict = w.verdict
         /\ v.action = w.action /\ v.outcome = o
         /\ v.cost = w.cost /\ v.seen = w.seen
<1>1. v = [w EXCEPT !.pc = "closed", !.outcome = o]
  BY DEF Close
<1> QED BY <1>1 DEF WorkflowState

LEMMA DecideFields ==
  ASSUME NEW w \in WorkflowState, NEW a, NEW v, v = Decide(w, a)
  PROVE  /\ v.pc = "decide" /\ v.attempt = w.attempt /\ v.verdict = w.verdict
         /\ v.action = a /\ v.outcome = w.outcome
         /\ v.cost = w.cost /\ v.seen = w.seen
<1>1. v = [[w EXCEPT !.pc = "decide", !.try = 0] EXCEPT !.action = a]
  BY DEF Decide, GoTo
<1> QED BY <1>1 DEF WorkflowState

LEMMA NextAttemptFields ==
  ASSUME NEW w \in WorkflowState, NEW v, v = NextAttempt(w)
  PROVE  /\ v.pc = "guard" /\ v.attempt = w.attempt + 1 /\ v.verdict = "none"
         /\ v.action = w.action /\ v.outcome = w.outcome
         /\ v.cost = w.cost /\ v.seen = w.seen
<1>1. v = [[w EXCEPT !.pc = "guard", !.try = 0] EXCEPT !.attempt = @ + 1,
                                                      !.verdict = "none"]
  BY DEF NextAttempt, GoTo
<1> QED BY <1>1 DEF WorkflowState

LEMMA AccountFields ==
  ASSUME NEW w \in WorkflowState, NEW x, NEW v, v = Account(w, x)
  PROVE  /\ v.pc = w.pc /\ v.attempt = w.attempt /\ v.verdict = w.verdict
         /\ v.action = w.action /\ v.outcome = w.outcome /\ v.seen = w.seen
BY DEF Account, WorkflowState

\* How a round that is over goes on.
LEMMA LoopBackMoves ==
  ASSUME wf \in WorkflowState, wf.pc # "closed", Retrying, wf' = LoopBack
  PROVE  GoesRound \/ Ends
<1>1. CASE wf.attempt <= MaxRetries
  <2>1. wf' = NextAttempt(wf)
    BY <1>1 DEF LoopBack
  <2> QED BY <1>1, <2>1, NextAttemptFields DEF GoesRound, SameEnd, SameAccount
<1>2. CASE ~(wf.attempt <= MaxRetries)
  <2>1. wf' = Close(wf, "needs_human_review")
    BY <1>2 DEF LoopBack
  <2> QED BY <1>2, <2>1, CloseFields DEF Ends, SameRound, SameAccount
<1> QED BY <1>1, <1>2

\* How the workflow goes on once its decision is recorded or given up.
LEMMA ProceedMoves ==
  ASSUME wf \in WorkflowState, wf.pc = "decide", wf.action # "none", Decided,
         wf' = Proceed
  PROVE  Strategizes \/ GoesRound \/ Ends
<1>1. CASE wf.action # "retry"
  <2>1. wf' = Close(wf, OutcomeOf[wf.action])
    BY <1>1 DEF Proceed
  <2>2. wf.action \in Actions \ {"retry"}
    BY <1>1 DEF WorkflowState
  <2> QED BY <2>1, <2>2, CloseFields DEF Ends, SameRound, SameAccount
<1>2. CASE wf.action = "retry" /\ Adaptive
  <2>1. wf' = GoTo(wf, "strategy")
    BY <1>2 DEF Proceed
  <2> QED BY <1>2, <2>1, GoToFields
          DEF Strategizes, Retrying, SameRound, SameEnd, SameAccount
<1>3. CASE wf.action = "retry" /\ ~Adaptive
  <2>1. wf' = LoopBack
    BY <1>3 DEF Proceed
  <2> QED BY <1>3, <2>1, LoopBackMoves DEF Retrying
<1> QED BY <1>1, <1>2, <1>3

\* What the workflow does with an answer.
LEMMA AnswerMoves ==
  ASSUME TypeOK, InStep, NEW x \in execs, AnswerStep(x)
  PROVE  Moves \/ IgnoreAnswer(x)
<1>0. wf \in WorkflowState /\ x \in Try
  BY DEF TypeOK
<1>1. ASSUME NEW act, NEW w, Answer(x, act, w)
      PROVE  /\ wf' = w /\ wf.pc = act /\ x.act = act /\ Answered(x)
             /\ Leaves /\ UNCHANGED <<recorded, folded, row, workspace>>
  BY <1>1 DEF Answer, Current, Answered, Leaves
<1>2. CASE OnPlan(x)
  <2> DEFINE w == Account(wf, x)
  <2>1. /\ wf' = NextAttempt(w) /\ wf.pc = "plan"
        /\ Leaves /\ UNCHANGED <<recorded, folded, row, workspace>>
    BY <1>1, <1>2 DEF OnPlan
  <2>2. w \in WorkflowState
    BY <1>0, AccountTyped
  <2>3. /\ w.attempt = wf.attempt /\ w.action = wf.action /\ w.outcome = wf.outcome
        /\ w.seen = wf.seen
    BY <1>0, AccountFields
  <2> HIDE DEF w
  <2>4. Planned
    BY <2>1, <2>2, <2>3, NextAttemptFields DEF Planned, SameEnd
  <2> QED BY <2>1, <2>4 DEF Moves
<1>3. CASE OnWork(x)
  <2> DEFINE w == Account(wf, x)
  <2>1. /\ wf' = GoTo(w, "verify") /\ wf.pc = "work"
        /\ Leaves /\ UNCHANGED <<recorded, folded, row, workspace>>
    BY <1>1, <1>3 DEF OnWork
  <2>2. w \in WorkflowState
    BY <1>0, AccountTyped
  <2>3. /\ w.attempt = wf.attempt /\ w.verdict = wf.verdict
        /\ w.action = wf.action /\ w.outcome = wf.outcome
    BY <1>0, AccountFields
  <2> HIDE DEF w
  <2>4. Worked
    BY <2>1, <2>2, <2>3, GoToFields DEF Worked, SameRound, SameEnd
  <2> QED BY <2>1, <2>4 DEF Moves
<1>4. CASE OnVerdict(x)
  <2> DEFINE w == GoTo(wf, "policy")
             v == IF x.passed THEN "pass" ELSE "fail"
  <2>1. /\ wf' = [w EXCEPT !.verdict = v, !.seen = x.seen]
        /\ wf.pc = "verify" /\ x.act = "verify" /\ Answered(x)
        /\ Leaves /\ UNCHANGED <<recorded, folded, row, workspace>>
    BY <1>1, <1>4 DEF OnVerdict
  <2>2. w \in WorkflowState
    BY <1>0, GoToTyped
  <2>3. /\ w.pc = "policy" /\ w.attempt = wf.attempt /\ w.action = wf.action
        /\ w.outcome = wf.outcome /\ w.cost = wf.cost
    BY <1>0, GoToFields
  <2> HIDE DEF w, v
  <2>4. /\ wf'.pc = "policy" /\ wf'.attempt = wf.attempt /\ SameEnd
        /\ wf'.cost = wf.cost /\ wf'.verdict = v /\ wf'.seen = x.seen
    BY <2>1, <2>2, <2>3 DEF WorkflowState, SameEnd
  <2>5. Judged
    BY <2>1, <2>4 DEF Judged, v
  <2> QED BY <2>1, <2>5 DEF Moves
<1>5. CASE OnDecision(x)
  <2>1. /\ wf' = Proceed /\ wf.pc = "decide" /\ x.act = "decide" /\ Answered(x)
        /\ Leaves /\ UNCHANGED <<recorded, folded, row, workspace>>
    BY <1>1, <1>5 DEF OnDecision
  <2>2. Decided /\ wf.action # "none"
    BY <2>1 DEF Decided, InStep
  <2> QED BY <1>0, <2>1, <2>2, ProceedMoves DEF Moves
<1>6. CASE OnFailureRecorded(x)
  <2>1. /\ wf' = Close(wf, "failed") /\ wf.pc = "fail"
        /\ Leaves /\ UNCHANGED <<recorded, folded, row, workspace>>
    BY <1>1, <1>6 DEF OnFailureRecorded
  <2>2. Ends
    BY <1>0, <2>1, CloseFields DEF Ends, SameRound, SameAccount
  <2> QED BY <2>1, <2>2 DEF Moves
<1> QED BY <1>2, <1>3, <1>4, <1>5, <1>6 DEF AnswerStep

\* What it does with the last error of an activity, on its own, and when its
\* process dies.
LEMMA OwnMoves ==
  ASSUME TypeOK, InStep,
         ActivityError \/ PreSpend \/ EvaluatePolicy \/ ChooseStrategy \/ ProcessDies
  PROVE  Moves
<1>0. wf \in WorkflowState
  BY DEF TypeOK
<1>1. Leaves /\ UNCHANGED <<recorded, folded, row, workspace>>
  BY DEF ActivityError, PreSpend, EvaluatePolicy, ChooseStrategy, ProcessDies, Leaves,
         Activities
<1>2. ASSUME NEW o \in {"failed", "crashed"}, wf' = Close(wf, o), wf.pc # "closed"
      PROVE  Ends
  BY <1>0, <1>2, CloseFields DEF Ends, SameRound, SameAccount
<1>3. ASSUME NEW a, wf' = Decide(wf, a), wf.pc \in {"guard", "policy", "strategy"},
             a = "halt" \/ (wf.pc = "policy" /\ a = Decision)
      PROVE  Decides
  BY <1>0, <1>3, DecideFields DEF Decides, SameRound, SameAccount
<1>4. CASE ActivityError
  <2>1. wf.pc \in Activities /\ wf' = AfterActivityError
    BY <1>4 DEF ActivityError
  <2>2. CASE wf.pc \in {"plan", "work", "verify"}
    <3>1. wf' = GoTo(wf, "fail")
      BY <2>1, <2>2 DEF AfterActivityError
    <3>2. GivesUp
      BY <1>0, <2>2, <3>1, GoToFields DEF GivesUp, SameRound, SameEnd, SameAccount
    <3> QED BY <1>1, <3>2 DEF Moves
  <2>3. CASE wf.pc = "fail" \/ (wf.pc = "decide" /\ ~Lite)
    <3>1. wf' = Close(wf, "failed") \/ wf' = Close(wf, "crashed")
      BY <2>1, <2>3 DEF AfterActivityError
    <3> QED BY <1>1, <1>2, <2>3, <3>1 DEF Moves
  <2>4. CASE wf.pc = "decide" /\ Lite
    <3>1. wf' = Proceed /\ wf.action # "none" /\ Decided
      BY <2>1, <2>4 DEF AfterActivityError, InStep, Decided
    <3> QED BY <1>0, <1>1, <2>4, <3>1, ProceedMoves DEF Moves
  <2> QED BY <2>1, <2>2, <2>3, <2>4 DEF Activities
<1>5. CASE PreSpend
  <2>1. wf.pc = "guard" /\ (wf' = Decide(wf, "halt") \/ wf' = GoTo(wf, "work"))
    BY <1>5 DEF PreSpend
  <2>2. CASE wf' = GoTo(wf, "work")
    <3>1. Starts
      BY <1>0, <2>1, <2>2, GoToFields DEF Starts, SameRound, SameEnd, SameAccount
    <3> QED BY <1>1, <3>1 DEF Moves
  <2> QED BY <1>1, <1>3, <2>1, <2>2 DEF Moves
<1>6. CASE EvaluatePolicy
  <2>1. wf.pc = "policy" /\ (wf' = Decide(wf, Decision) \/ wf' = Close(wf, "crashed"))
    BY <1>6 DEF EvaluatePolicy
  <2> QED BY <1>1, <1>2, <1>3, <2>1 DEF Moves
<1>7. CASE ChooseStrategy
  <2>1. /\ wf.pc = "strategy"
        /\ wf' = Decide(wf, "halt") \/ wf' = LoopBack \/ wf' = Close(wf, "crashed")
    BY <1>7 DEF ChooseStrategy
  <2>2. CASE wf' = LoopBack
    BY <1>0, <1>1, <2>1, <2>2, LoopBackMoves DEF Moves, Retrying
  <2> QED BY <1>1, <1>2, <1>3, <2>1, <2>2 DEF Moves
<1>8. CASE ProcessDies
  BY <1>1, <1>2, <1>8 DEF ProcessDies, Moves
<1> QED BY <1>4, <1>5, <1>6, <1>7, <1>8

-----------------------------------------------------------------------------
(* The effects of running tries *)

SameCall(y, x) ==
  y.act = x.act /\ y.attempt = x.attempt /\ y.action = x.action /\ y.try = x.try

\* Events that touch neither the retries nor the verdict of the stream.
NeutralKinds ==
  {"PlanRequested", "PlanGenerated", "PlanFailed", "ApplyStarted", "ApplyCompleted",
   "WorkerCompleted", "VerifyRequested", "Failed"}
Neutral ==
  /\ recorded \subseteq recorded'
  /\ \A e \in recorded' \ recorded : e.key \in NeutralKinds
  /\ folded'.attempts = folded.attempts /\ folded'.verdict = folded.verdict

\* Everything but judging and deciding.
Prepares(x) ==
  /\ x.act # "decide" /\ wf' = wf /\ Neutral
  /\ workspace' = workspace \/ x.act = "work"
  /\ row' = row \/ x.act = "fail"
  /\ \/ execs' = execs \ {x}
     \/ \E y \in Try : /\ Becomes(x, y) /\ SameCall(y, x)
                       /\ y.act = "verify" => y.pc = "run"

Drops(x) ==
  execs' = execs \ {x} /\ UNCHANGED <<wf, recorded, folded, row, workspace>>

Effect(x) ==
  \/ PlanStep(x) \/ WorkStep(x) \/ VerifyStep(x) \/ RecordStep(x)
  \/ LoseTry(x) \/ IgnoreAnswer(x)

LEMMA NeutralAppend ==
  ASSUME TypeOK, NEW k \in NeutralKinds, NEW n, Append(Ev(k, n))
  PROVE  Neutral
<1> DEFINE e == Ev(k, n)
<1>1. e.key = k /\ recorded' = recorded \cup {e}
      /\ folded' = IF e \in recorded THEN folded ELSE Fold(folded, e)
  BY DEF Append, Ev
<1> HIDE DEF e
<1>2. e.key # "Retry" /\ e.key # "VerifyPassed" /\ e.key # "VerifyFailed"
  BY <1>1 DEF NeutralKinds
<1>3. /\ Fold(folded, e).attempts = folded.attempts
      /\ Fold(folded, e).verdict = folded.verdict
  BY <1>2 DEF Fold
<1> QED BY <1>1, <1>3 DEF Neutral

\* A try that moves on is another record of the same call.
LEMMA StepBecomes ==
  ASSUME TypeOK, NEW x \in execs, NEW pc \in Steps, Step(x, pc)
  PROVE  \E y \in Try : Becomes(x, y) /\ SameCall(y, x) /\ y.pc = pc
<1> DEFINE y == [x EXCEPT !.pc = pc]
<1>1. x \in Try
  BY DEF TypeOK
<1>2. y \in Try /\ SameCall(y, x) /\ y.pc = pc
  BY <1>1 DEF Try, SameCall
<1>3. Becomes(x, y)
  BY DEF Step
<1> HIDE DEF y
<1> QED BY <1>2, <1>3

\* What one effect of a try can do.
LEMMA EffectKinds ==
  ASSUME TypeOK, NEW x \in execs, Effect(x)
  PROVE  \/ Prepares(x) \/ Drops(x)
         \/ RunVerifier(x) \/ RecordVerdict(x) \/ RecordDecision(x) \/ UpdateRow(x)
<1>0. x \in Try
  BY DEF TypeOK
<1>1. recorded' = recorded /\ folded' = folded => Neutral
  BY DEF Neutral
<1>2. ASSUME NEW pc \in Steps, Step(x, pc), x.act = "verify" => pc = "run"
      PROVE  \E y \in Try : /\ Becomes(x, y) /\ SameCall(y, x)
                            /\ y.act = "verify" => y.pc = "run"
  BY <1>2, StepBecomes DEF SameCall
<1>3. CASE CallPlanner(x) \/ CallWorker(x)
  <2>1. /\ wf' = wf /\ recorded' = recorded /\ folded' = folded /\ workspace' = workspace
        /\ row' = row /\ x.act \in {"plan", "work"}
        /\ \/ execs' = execs \ {x}
           \/ \E c \in Prices, pc \in {"record", "invalid", "start", "complete"} :
                Becomes(x, [x EXCEPT !.pc = pc, !.cost = c])
    BY <1>3 DEF CallPlanner, CallWorker, At
  <2>2. ASSUME NEW c \in Prices, NEW pc \in {"record", "invalid", "start", "complete"}
        PROVE  /\ [x EXCEPT !.pc = pc, !.cost = c] \in Try
               /\ SameCall([x EXCEPT !.pc = pc, !.cost = c], x)
    BY <1>0, <2>2 DEF Try, Steps, SameCall
  <2>3. \/ execs' = execs \ {x}
        \/ \E y \in Try : /\ Becomes(x, y) /\ SameCall(y, x)
                          /\ y.act = "verify" => y.pc = "run"
    <3> SUFFICES ASSUME execs' # execs \ {x}
                 PROVE  \E y \in Try : /\ Becomes(x, y) /\ SameCall(y, x)
                                       /\ y.act = "verify" => y.pc = "run"
      OBVIOUS
    <3>1. PICK c \in Prices, pc \in {"record", "invalid", "start", "complete"} :
            Becomes(x, [x EXCEPT !.pc = pc, !.cost = c])
      BY <2>1
    <3> DEFINE y == [x EXCEPT !.pc = pc, !.cost = c]
    <3>2. y \in Try /\ SameCall(y, x) /\ Becomes(x, y)
      BY <2>2, <3>1
    <3> HIDE DEF y
    <3> QED BY <2>1, <3>2 DEF SameCall
  <2> QED BY <1>1, <2>1, <2>3 DEF Prepares
<1>4. CASE RequestPlan(x) \/ RecordPlan(x) \/ StartApply(x) \/ RecordApply(x)
           \/ RecordWork(x) \/ RequestVerification(x) \/ RecordFailure(x)
  <2>1. PICK k \in NeutralKinds, n \in {0, x.attempt}, pc \in Steps :
          /\ Append(Ev(k, n)) /\ Step(x, pc) /\ (x.act = "verify" => pc = "run")
    BY <1>4 DEF RequestPlan, RecordPlan, StartApply, RecordApply, RecordWork,
                RequestVerification, RecordFailure, At, NeutralKinds, Steps
  <2>2. wf' = wf /\ workspace' = workspace /\ row' = row /\ x.act # "decide"
    BY <1>4 DEF RequestPlan, RecordPlan, StartApply, RecordApply, RecordWork,
                RequestVerification, RecordFailure, At
  <2> QED BY <1>2, <2>1, <2>2, NeutralAppend DEF Prepares
<1>5. CASE RecordInvalidPlan(x)
  <2>1. /\ Append(Ev("PlanFailed", 0)) /\ execs' = execs \ {x} /\ wf' = wf
        /\ workspace' = workspace /\ row' = row /\ x.act = "plan"
    BY <1>5 DEF RecordInvalidPlan, At
  <2>2. Neutral
    BY <2>1, NeutralAppend DEF NeutralKinds
  <2> QED BY <2>1, <2>2 DEF Prepares
<1>6. CASE LookBack(x) \/ ApplyDiff(x) \/ UpdateFailedRow(x)
  <2>1. /\ wf' = wf /\ recorded' = recorded /\ folded' = folded
        /\ workspace' = workspace \/ x.act = "work"
        /\ row' = row \/ x.act = "fail"
        /\ x.act # "verify" /\ x.act # "decide"
        /\ \E pc \in {"complete", "apply", "applied", "return"} : Step(x, pc)
    BY <1>6 DEF LookBack, ApplyDiff, UpdateFailedRow, At
  <2> QED BY <1>1, <1>2, <2>1 DEF Prepares, Steps
<1>7. CASE FailToPrice(x) \/ LoseTry(x) \/ IgnoreAnswer(x)
  BY <1>7 DEF FailToPrice, LoseTry, IgnoreAnswer, Drops
<1> QED BY <1>3, <1>4, <1>5, <1>6, <1>7
        DEF Effect, PlanStep, WorkStep, VerifyStep, RecordStep

Idles == UNCHANGED <<wf, execs, recorded, folded, row, workspace>>

\* Every step moves the workflow, starts a try, has an effect, or does neither.
LEMMA StepKinds ==
  ASSUME TypeOK, InStep, [Next]_vars
  PROVE  Moves \/ NextTry \/ (\E x \in execs : Effect(x)) \/ Idles
<1>1. ASSUME NEW x \in execs, TryStep(x) \/ LoseTry(x) PROVE Effect(x) \/ Moves
  BY <1>1, AnswerMoves DEF TryStep, Effect
<1>2. DeadlinePasses \/ UNCHANGED vars => Idles
  BY DEF DeadlinePasses, vars, Idles
<1> QED BY <1>1, <1>2, OwnMoves DEF Next, WorkflowStep

\* The workflow waits while tries have their effects.
LEMMA EffectWaits ==
  ASSUME TypeOK, NEW x \in execs, Effect(x)
  PROVE  wf' = wf
BY EffectKinds DEF Prepares, Drops, RunVerifier, RecordVerdict, RecordDecision, UpdateRow

LEMMA WaitsOrMoves ==
  ASSUME TypeOK, InStep, [Next]_vars
  PROVE  Waits \/ Moves
<1>0. wf \in WorkflowState
  BY DEF TypeOK
<1>1. wf' = wf => Waits
  BY DEF Waits, SameRound, SameEnd, SameAccount
<1>2. NextTry => Waits
  BY <1>0 DEF NextTry, WorkflowState, Waits, SameRound, SameEnd, SameAccount
<1>3. ASSUME NEW x \in execs, Effect(x) PROVE Waits
  BY <1>1, <1>3, EffectWaits
<1> QED BY <1>1, <1>2, <1>3, StepKinds DEF Idles

-----------------------------------------------------------------------------
(* The rounds *)

Final == {"complete", "escalate", "halt"}
FinalKinds == {"Complete", "Escalate", "Halt"}

\* Where the workflow stands in its round says what it knows of it.
RoundInv ==
  /\ wf.outcome = "open" <=> wf.pc # "closed"
  /\ wf.pc \in {"guard", "work", "verify", "policy", "decide", "strategy"} =>
       wf.attempt >= 1
  /\ wf.pc \in {"plan", "guard", "work", "verify"} => wf.verdict = "none"
  /\ wf.pc = "policy" => wf.verdict # "none"
  /\ wf.pc = "strategy" => wf.action = "retry"
  /\ wf.pc \in {"decide", "strategy"} /\ wf.action = "retry" =>
       wf.verdict = "fail" /\ wf.attempt <= MaxRetries
  /\ wf.action \in Final => wf.pc \in {"decide", "closed"}
  /\ wf.action = "complete" => wf.verdict = "pass" /\ (HasBudget => wf.cost <= Budget)
  /\ wf.action = "escalate" => wf.verdict = "fail" /\ wf.attempt = MaxRetries + 1

\* What the policy's table decides: it completes what passed within budget, and
\* escalates when the retries are used up.
LEMMA DecisionTable ==
  ASSUME wf \in WorkflowState
  PROVE  /\ Decision \in Actions
         /\ Decision = "complete" => wf.verdict = "pass" /\ (HasBudget => wf.cost <= Budget)
         /\ Decision = "retry" => wf.verdict # "pass" /\ wf.attempt <= MaxRetries
         /\ Decision = "escalate" => wf.verdict # "pass" /\ wf.attempt = MaxRetries + 1
<1>1. /\ wf.attempt \in 0..(MaxRetries + 1) /\ wf.cost \in Nat
      /\ HasBudget => Budget \in Nat
  BY BudgetAssumption DEF WorkflowState, HasBudget
<1> QED BY <1>1, RetriesAssumption DEF Decision, Actions

LEMMA RoundInvKept ==
  ASSUME TypeOK, RowInv, RoundInv, [Next]_vars
  PROVE  RoundInv'
<1>0. /\ wf \in WorkflowState /\ wf.attempt \in 0..(MaxRetries + 1)
      /\ wf.verdict \in {"none", "pass", "fail"} /\ MaxRetries \in Nat
  BY RetriesAssumption DEF TypeOK, WorkflowState
<1>1. Waits \/ Moves
  BY WaitsOrMoves DEF RowInv
<1>2. CASE Waits
  BY <1>2 DEF Waits, SameRound, SameEnd, SameAccount, RoundInv, HasBudget
<1> USE DEF SameRound, SameEnd, SameAccount, HasBudget, Final
<1>3. CASE Planned
  BY <1>0, <1>3 DEF Planned, RoundInv
<1>4. CASE Starts
  BY <1>4 DEF Starts, RoundInv
<1>5. CASE Worked
  BY <1>5 DEF Worked, RoundInv
<1>6. CASE Judged
  BY <1>6 DEF Judged, RoundInv
<1>7. CASE GivesUp
  BY <1>7 DEF GivesUp, RoundInv
<1>8. CASE Decides
  <2>1. CASE wf'.action = "halt"
    BY <1>8, <2>1 DEF Decides, RoundInv
  <2>2. CASE wf.pc = "policy" /\ wf'.action = Decision
    <3>1. wf.verdict # "pass" => wf.verdict = "fail"
      BY <1>0, <2>2 DEF RoundInv
    <3> QED BY <1>0, <1>8, <2>2, <3>1, DecisionTable DEF Decides, RoundInv
  <2> QED BY <1>8, <2>1, <2>2 DEF Decides
<1>9. CASE Strategizes
  BY <1>9 DEF Strategizes, Retrying, RoundInv
<1>10. CASE GoesRound
  BY <1>0, <1>10 DEF GoesRound, Retrying, RoundInv
<1>11. CASE Ends
  <2>1. wf'.outcome # "open"
    BY <1>11 DEF Ends, Actions, OutcomeOf
  <2> QED BY <1>11, <2>1 DEF Ends, RoundInv
<1> QED BY <1>1, <1>2, <1>3, <1>4, <1>5, <1>6, <1>7, <1>8, <1>9, <1>10, <1>11 DEF Moves

LEMMA RoundInvInit == Init => RoundInv
BY DEF Init, RoundInv, Final

LEMMA RoundInvariant == Spec => [](RowInv /\ RoundInv)
<1>1. Init => RowInv /\ RoundInv
  BY RowInvInit, RoundInvInit
<1>2. RowInv /\ RoundInv /\ [Next]_vars => RowInv' /\ RoundInv'
  BY RowInvStep, RoundInvKept DEF RowInv
<1> QED BY <1>1, <1>2, PTL DEF Spec

\* The workflow, for any parameters, keeps the promise it makes to whoever submitted
\* the task: rounds follow only failed verdicts and are bounded, only a passing
\* verdict completes, only used-up rounds escalate, and an outcome is final.
THEOREM TaskImplementsLifecycle == Spec => ImplementsLifecycle
<1>1. Init => Lifecycle!Init
  BY DEF Init, Lifecycle!Init
<1>2. ASSUME RowInv, RoundInv, [Next]_vars
      PROVE  [Lifecycle!Next]_Lifecycle!lifecycle
  <2>0. /\ wf.attempt \in 0..(MaxRetries + 1) /\ MaxRetries \in Nat
        /\ wf.verdict \in {"none", "pass", "fail"} /\ wf.action \in Actions \cup {"none"}
        /\ wf.pc = "plan" => wf.attempt = 0
    BY <1>2, RetriesAssumption DEF RowInv, TypeOK, WorkflowState, InStep
  <2>1. SameRound /\ wf'.outcome = wf.outcome => UNCHANGED Lifecycle!lifecycle
    BY DEF SameRound, Lifecycle!lifecycle
  <2> USE DEF SameRound, SameEnd
  <2>2. Waits \/ Starts \/ Worked \/ GivesUp \/ Decides \/ Strategizes =>
          UNCHANGED Lifecycle!lifecycle
    BY <2>1 DEF Waits, Starts, Worked, GivesUp, Decides, Strategizes
  <2>3. Planned \/ GoesRound => Lifecycle!BeginRound
    BY <1>2, <2>0 DEF Planned, GoesRound, Retrying, RoundInv, Lifecycle!BeginRound
  <2>4. Judged => Lifecycle!Judge
    BY <1>2, <2>0 DEF Judged, RoundInv, Lifecycle!Judge
  <2>5. Ends => Lifecycle!Close
    <3> SUFFICES ASSUME Ends PROVE Lifecycle!Close
      OBVIOUS
    <3>1. CASE wf'.outcome \in {"failed", "crashed"}
      BY <1>2, <3>1 DEF Ends, RoundInv, Lifecycle!Close
    <3>2. CASE /\ wf.action \in Actions \ {"retry"}
               /\ wf'.outcome = OutcomeOf[wf.action]
      BY <1>2, <3>2 DEF Ends, RoundInv, Lifecycle!Close, OutcomeOf, Actions
    <3>3. CASE /\ Retrying /\ ~(wf.attempt <= MaxRetries)
               /\ wf'.outcome = "needs_human_review"
      BY <1>2, <2>0, <3>3 DEF Ends, Retrying, RoundInv, Lifecycle!Close
    <3> QED BY <3>1, <3>2, <3>3 DEF Ends
  <2> QED BY <1>2, <2>2, <2>3, <2>4, <2>5, WaitsOrMoves
          DEF RowInv, Moves, Lifecycle!Next
<1> QED BY <1>1, <1>2, RoundInvariant, PTL DEF Spec, ImplementsLifecycle, Lifecycle!Spec

-----------------------------------------------------------------------------
(* What a step leaves running and recorded *)

Verdict(passed) == IF passed THEN "VerifyPassed" ELSE "VerifyFailed"

\* A verifier sees the files as they are and passes only what can pass.
Judges(x, y) ==
  /\ Becomes(x, y)
  /\ SameCall(y, x)
  /\ y.act = "verify" /\ y.pc = "record"
  /\ y.passed => workspace.good
  /\ y.seen = workspace.applied

LEMMA VerifierJudges ==
  ASSUME TypeOK, NEW x \in execs, RunVerifier(x)
  PROVE  \E y \in Try : Judges(x, y)
<1>1. PICK passed \in BOOLEAN :
        /\ passed => workspace.good
        /\ Becomes(x, [x EXCEPT !.pc = "record", !.passed = passed,
                                !.seen = workspace.applied])
  BY DEF RunVerifier
<1> DEFINE y == [x EXCEPT !.pc = "record", !.passed = passed, !.seen = workspace.applied]
<1>2. y \in Try /\ SameCall(y, x)
  BY DEF TypeOK, Try, Steps, SameCall
<1>3. y.pc = "record" /\ y.passed = passed /\ y.seen = workspace.applied
      /\ y.act = "verify"
  BY DEF TypeOK, Try, RunVerifier, At
<1>4. Becomes(x, y)
  BY <1>1
<1> HIDE DEF y
<1> QED BY <1>1, <1>2, <1>3, <1>4 DEF Judges

\* An effect leaves the tries that were running, as the same calls.
LEMMA EffectTries ==
  ASSUME TypeOK, NEW x \in execs, Effect(x)
  PROVE  \A y \in execs' : \E z \in execs : SameCall(y, z)
<1>1. CASE Prepares(x)
  BY <1>1 DEF Prepares, Becomes, SameCall
<1>2. CASE Drops(x)
  BY <1>2 DEF Drops, SameCall
<1>3. CASE RecordVerdict(x) \/ RecordDecision(x) \/ UpdateRow(x)
  <2>1. \E pc \in Steps : Step(x, pc)
    BY <1>3 DEF RecordVerdict, RecordDecision, UpdateRow, Steps
  <2>2. PICK y \in Try : Becomes(x, y) /\ SameCall(y, x)
    BY <2>1, StepBecomes
  <2> QED BY <2>2 DEF Becomes, SameCall
<1>4. CASE RunVerifier(x)
  BY <1>4, VerifierJudges DEF Judges, Becomes, SameCall
<1> QED BY <1>1, <1>2, <1>3, <1>4, EffectKinds

\* A running try was running, or is the one just started.
LEMMA TriesGoOn ==
  ASSUME TypeOK, InStep, [Next]_vars
  PROVE  \A y \in execs' : (y = NewTry /\ wf'.pc \in Activities /\ Waits)
                           \/ \E z \in execs : SameCall(y, z)
<1>1. execs' \subseteq execs => \A y \in execs' : \E z \in execs : SameCall(y, z)
  BY DEF SameCall
<1>2. Moves \/ Idles => execs' \subseteq execs
  BY DEF Moves, Leaves, Idles
<1>3. CASE NextTry
  <2>1. execs' = execs \cup {NewTry} /\ wf.pc \in Activities
    BY <1>3 DEF NextTry
  <2>2. Waits
    BY <1>3 DEF NextTry, TypeOK, WorkflowState, Waits, SameRound, SameEnd, SameAccount
  <2> QED BY <2>1, <2>2 DEF SameCall, Waits
<1>4. ASSUME NEW x \in execs, Effect(x)
      PROVE  \A y \in execs' : \E z \in execs : SameCall(y, z)
  BY <1>4, EffectTries
<1> QED BY <1>1, <1>2, <1>3, <1>4, StepKinds

\* An event that was not there is neutral, a verdict or a decision of its try.
LEMMA EventsComeFromTries ==
  ASSUME TypeOK, InStep, [Next]_vars
  PROVE  /\ recorded \subseteq recorded'
         /\ \A e \in recorded' \ recorded :
              /\ wf' = wf
              /\ \/ e.key \in NeutralKinds
                 \/ \E x \in execs : /\ x.act = "verify"
                                     /\ e = Ev(Verdict(x.passed), x.attempt)
                 \/ \E x \in execs : /\ x.act = "decide" /\ x.action \in Actions
                                     /\ e = Ev(DecisionKind[x.action], x.attempt)
<1>1. Moves \/ NextTry \/ Idles => recorded' = recorded
  BY DEF Moves, NextTry, Idles
<1>2. ASSUME NEW x \in execs, Effect(x)
      PROVE  \/ recorded' = recorded
             \/ Neutral
             \/ x.act = "verify" /\ recorded' = recorded \cup {Ev(Verdict(x.passed), x.attempt)}
             \/ /\ x.act = "decide" /\ x.action \in Actions
                /\ recorded' = recorded \cup {Ev(DecisionKind[x.action], x.attempt)}
  <2>1. x.act = "decide" => x.action \in Actions
    BY DEF TypeOK, Try, InStep
  <2> QED BY <1>2, <2>1, EffectKinds
          DEF Prepares, Drops, RunVerifier, RecordVerdict, RecordDecision, UpdateRow, At,
              Append, Verdict, VerdictKey
<1>3. ASSUME NEW x \in execs, Effect(x)
      PROVE  /\ recorded \subseteq recorded'
             /\ \A e \in recorded' \ recorded :
                  /\ wf' = wf
                  /\ \/ e.key \in NeutralKinds
                     \/ x.act = "verify" /\ e = Ev(Verdict(x.passed), x.attempt)
                     \/ /\ x.act = "decide" /\ x.action \in Actions
                        /\ e = Ev(DecisionKind[x.action], x.attempt)
  <2>1. wf' = wf
    BY <1>3, EffectWaits
  <2> QED BY <1>2, <1>3, <2>1 DEF Neutral
<1> QED BY <1>1, <1>3, StepKinds

-----------------------------------------------------------------------------
(* The final decision *)

\* A final decision, wherever it stands, is the one the workflow has taken.
DecisionInv ==
  /\ \A x \in execs : x.act = "decide" /\ x.action \in Final =>
       x.action = wf.action /\ x.attempt = wf.attempt
  /\ \A e \in recorded : e.key \in FinalKinds =>
       wf.action \in Final /\ e = Ev(DecisionKind[wf.action], wf.attempt)

LEMMA DecisionInvKept ==
  ASSUME RowInv, RoundInv, DecisionInv, [Next]_vars
  PROVE  DecisionInv'
<1>0. TypeOK /\ InStep
  BY DEF RowInv
<1>1. wf.action \in Final => wf'.action = wf.action /\ wf'.attempt = wf.attempt
  <2>1. Waits \/ Moves
    BY <1>0, WaitsOrMoves
  <2>2. wf.action \in Final => wf.pc \in {"decide", "closed"} /\ wf.action # "retry"
    BY DEF RoundInv, Final
  <2> QED BY <2>1, <2>2
          DEF Waits, Moves, Planned, Starts, Worked, Judged, GivesUp, Decides, Strategizes,
              GoesRound, Ends, Retrying, SameRound, SameEnd
<1>2. ASSUME NEW y \in execs', y.act = "decide", y.action \in Final
      PROVE  y.action = wf'.action /\ y.attempt = wf'.attempt
  <2>1. CASE y = NewTry /\ wf'.pc \in Activities /\ Waits
    <3>1. y.action = wf.action /\ y.attempt = wf.attempt
      BY <2>1 DEF NewTry
    <3> QED BY <2>1, <3>1 DEF Waits, SameRound, SameEnd
  <2>2. ASSUME NEW z \in execs, SameCall(y, z) PROVE y.action = wf'.action /\ y.attempt = wf'.attempt
    BY <1>1, <1>2, <2>2 DEF DecisionInv, SameCall
  <2> QED BY <1>0, <2>1, <2>2, TriesGoOn
<1>3. ASSUME NEW e \in recorded', e.key \in FinalKinds
      PROVE  wf'.action \in Final /\ e = Ev(DecisionKind[wf'.action], wf'.attempt)
  <2>1. CASE e \in recorded
    BY <1>1, <1>3, <2>1 DEF DecisionInv
  <2>2. CASE e \notin recorded
    <3>1. e.key \notin NeutralKinds
      BY <1>3 DEF FinalKinds, NeutralKinds
    <3>2. ASSUME NEW x, e = Ev(Verdict(x.passed), x.attempt) PROVE FALSE
      BY <1>3, <3>2 DEF Ev, Verdict, FinalKinds
    <3>3. PICK x \in execs : /\ x.act = "decide" /\ x.action \in Actions
                             /\ e = Ev(DecisionKind[x.action], x.attempt)
      BY <1>0, <2>2, <3>1, <3>2, EventsComeFromTries
    <3>4. x.action \in Final
      BY <1>3, <3>3 DEF Ev, DecisionKind, FinalKinds, Final, Actions
    <3>5. wf' = wf
      BY <1>0, <2>2, EventsComeFromTries
    <3> QED BY <3>3, <3>4, <3>5 DEF DecisionInv
  <2> QED BY <2>1, <2>2
<1> QED BY <1>2, <1>3 DEF DecisionInv

\* However many tries of record_decision ran, died or overlapped, and whatever the
\* workflow did about it, the stream never holds two final decisions of the policy.
THEOREM FinalDecisionUnique == Spec => []OneFinalDecision
<1>1. Init => DecisionInv
  BY DEF Init, DecisionInv
<1>2. RowInv /\ RoundInv /\ DecisionInv /\ [Next]_vars => DecisionInv'
  BY DecisionInvKept
<1>3. DecisionInv => OneFinalDecision
  BY DEF DecisionInv, OneFinalDecision, FinalKinds
<1> QED BY <1>1, <1>2, <1>3, RoundInvariant, PTL DEF Spec

-----------------------------------------------------------------------------
(* The retries, counted twice *)

Retried(n) == Ev("Retry", n) \in recorded

\* The retries in the stream are those of the rounds gone by, and of this one once
\* its decision is recorded.
RetriesCounted ==
  /\ \A e \in recorded : e.key = "Retry" => e.attempt <= wf.attempt
  /\ folded.attempts = IF Retried(wf.attempt) \/ wf.attempt = 0 THEN wf.attempt
                       ELSE wf.attempt - 1
  /\ wf.pc = "strategy" => Retried(wf.attempt)
  /\ Retried(wf.attempt) => wf.pc \in {"decide", "strategy", "closed"}

\* A try that records a retry is of this round or of one whose retry is recorded.
RetryTries ==
  \A x \in execs : x.act = "decide" /\ x.action = "retry" =>
    /\ x.attempt >= 1 /\ x.attempt <= wf.attempt
    /\ x.attempt = wf.attempt => wf.pc \in {"decide", "strategy", "closed"}
    /\ x.attempt < wf.attempt \/ x.pc = "return" => Retried(x.attempt)

RetryInv == RetriesCounted /\ RetryTries

\* The two activities that record a decision leave every other try as it is.
LEMMA DecideTries ==
  ASSUME TypeOK, InStep, NEW x \in execs, Effect(x), NEW y \in execs', y.act = "decide"
  PROVE  \/ y \in execs
         \/ SameCall(y, x) /\ RecordDecision(x)
         \/ SameCall(y, x) /\ UpdateRow(x) /\ y.pc = "return"
<1>1. CASE Prepares(x)
  BY <1>1 DEF Prepares, Becomes, SameCall
<1>2. CASE Drops(x)
  BY <1>2 DEF Drops
<1>3. CASE RunVerifier(x)
  BY <1>3, VerifierJudges DEF Judges, Becomes
<1>4. CASE RecordVerdict(x)
  <2>1. Step(x, "return") /\ x.act = "verify"
    BY <1>4 DEF RecordVerdict, At
  <2> QED BY <2>1, StepBecomes DEF Steps, Becomes, SameCall
<1>5. CASE RecordDecision(x)
  <2>1. \E pc \in Steps : Step(x, pc)
    BY <1>5 DEF RecordDecision, Steps
  <2> QED BY <1>5, <2>1, StepBecomes DEF Becomes
<1>6. CASE UpdateRow(x)
  <2>1. Step(x, "return")
    BY <1>6 DEF UpdateRow
  <2> QED BY <1>6, <2>1, StepBecomes DEF Steps, Becomes
<1> QED BY <1>1, <1>2, <1>3, <1>4, <1>5, <1>6, EffectKinds

\* Only a recorded retry adds to the retries of the stream.
LEMMA RetriesOfEffect ==
  ASSUME TypeOK, InStep, NEW x \in execs, Effect(x)
  PROVE  IF RecordDecision(x) /\ x.action = "retry"
         THEN /\ recorded' = recorded \cup {Ev("Retry", x.attempt)}
              /\ folded'.attempts = folded.attempts + IF Retried(x.attempt) THEN 0 ELSE 1
         ELSE /\ \A n : Retried(n)' <=> Retried(n)
              /\ \A e \in recorded' \ recorded : e.key # "Retry"
              /\ folded'.attempts = folded.attempts
<1> DEFINE Silent == /\ recorded \subseteq recorded'
                     /\ \A e \in recorded' \ recorded : e.key # "Retry"
                     /\ folded'.attempts = folded.attempts
<1>1. Silent => \A n : Retried(n)' <=> Retried(n)
  BY DEF Retried, Ev
<1>2. Neutral \/ (recorded' = recorded /\ folded' = folded) => Silent
  BY DEF Neutral, NeutralKinds
<1>3. ASSUME NEW k, NEW n, Append(Ev(k, n)), k # "Retry" PROVE Silent
  BY <1>3 DEF Append, Ev, Fold
<1>4. CASE RecordVerdict(x)
  <2> DEFINE k == VerdictKey(x)
  <2>1. k # "Retry" /\ Append(Ev(k, x.attempt))
    BY <1>4 DEF RecordVerdict, VerdictKey
  <2> HIDE DEF k
  <2>2. Silent
    BY <1>3, <2>1
  <2>3. ~RecordDecision(x)
    BY <1>4 DEF RecordVerdict, RecordDecision, At
  <2> QED BY <1>1, <2>2, <2>3
<1>5. CASE RecordDecision(x) /\ x.action # "retry"
  <2> DEFINE k == DecisionKind[x.action]
  <2>1. x.action \in Actions /\ Append(Ev(k, x.attempt))
    BY <1>5 DEF TypeOK, Try, InStep, RecordDecision, At
  <2>2. k # "Retry"
    BY <1>5, <2>1 DEF Actions, DecisionKind
  <2> HIDE DEF k
  <2>3. Silent
    BY <1>3, <2>1, <2>2
  <2> QED BY <1>1, <1>5, <2>3
<1>6. CASE RecordDecision(x) /\ x.action = "retry"
  <2>1. Append(Ev("Retry", x.attempt))
    BY <1>6 DEF RecordDecision, DecisionKind
  <2>2. folded.attempts \in Nat
    BY DEF TypeOK, FoldedState
  <2>3. Fold(folded, Ev("Retry", x.attempt)).attempts = folded.attempts + 1
    BY DEF Fold, Ev
  <2> QED BY <1>6, <2>1, <2>2, <2>3 DEF Append, Retried
<1>7. Prepares(x) \/ Drops(x) \/ RunVerifier(x) \/ UpdateRow(x) => Silent
  BY <1>2 DEF Prepares, Drops, RunVerifier, UpdateRow
<1> HIDE DEF Silent
<1> QED BY <1>1, <1>4, <1>5, <1>6, <1>7, EffectKinds DEF Silent

\* The moves: a round is left by a retry only when the retry is recorded.
LEMMA RetryInvMoves ==
  ASSUME ~Lite, RowInv, RoundInv, RetryInv, Moves
  PROVE  RetryInv'
<1>0. /\ wf.attempt \in Nat
      /\ wf.pc = "plan" => wf.attempt = 0
      /\ \A x \in execs : x.attempt \in Nat
      /\ \A e \in recorded : e.attempt \in Nat
  BY RetriesAssumption DEF RowInv, TypeOK, WorkflowState, Try, Event, InStep
<1>1. recorded' = recorded /\ folded' = folded /\ execs' \subseteq execs
  BY DEF Moves, Leaves
<1>2. \A n : Retried(n)' <=> Retried(n)
  BY <1>1 DEF Retried
<1>3. Retrying => Retried(wf.attempt)
  <2>1. ASSUME NEW x \in execs, x.act = "decide", Answered(x), wf.action = "retry"
        PROVE  Retried(wf.attempt)
    BY <2>1 DEF Answered, Current, RetryInv, RetryTries
  <2> QED BY <2>1 DEF Retrying, Decided, RetryInv, RetriesCounted
<1>4. ~Retried(wf.attempt + 1)
  <2> SUFFICES ASSUME Retried(wf.attempt + 1) PROVE FALSE
    OBVIOUS
  <2>1. Ev("Retry", wf.attempt + 1).attempt <= wf.attempt
    BY DEF Retried, Ev, RetryInv, RetriesCounted
  <2> QED BY <1>0, <2>1 DEF Ev
<1>5. CASE wf'.attempt = wf.attempt
  <2>1. /\ wf'.pc = "strategy" => Retrying
        /\ wf.pc \in {"decide", "strategy", "closed"} =>
             wf'.pc \in {"decide", "strategy", "closed"}
    BY <1>0, <1>5 DEF Moves, Planned, Starts, Worked, Judged, GivesUp, Decides, Strategizes,
           GoesRound, Ends
  <2>2. RetriesCounted'
    BY <1>0, <1>1, <1>2, <1>3, <1>5, <2>1 DEF RetryInv, RetriesCounted
  <2>3. RetryTries'
    BY <1>0, <1>1, <1>2, <1>5, <2>1 DEF RetryInv, RetryTries
  <2> QED BY <2>2, <2>3 DEF RetryInv
<1>6. CASE wf'.attempt # wf.attempt
  <2>1. /\ wf'.attempt = wf.attempt + 1 /\ wf'.pc = "guard"
        /\ Retried(wf.attempt) \/ wf.attempt = 0
    BY <1>0, <1>3, <1>6 DEF Moves, Planned, Starts, Worked, Judged, GivesUp, Decides,
           Strategizes, GoesRound, Ends, SameRound
  <2>2. RetriesCounted'
    BY <1>0, <1>1, <1>2, <1>4, <2>1 DEF RetryInv, RetriesCounted
  <2>3. RetryTries'
    BY <1>0, <1>1, <1>2, <2>1 DEF RetryInv, RetryTries
  <2> QED BY <2>2, <2>3 DEF RetryInv
<1> QED BY <1>5, <1>6

LEMMA RetryInvEffect ==
  ASSUME RowInv, RoundInv, RetryInv, NEW x \in execs, Effect(x)
  PROVE  RetryInv'
<1>0. /\ TypeOK /\ InStep /\ wf.attempt \in Nat
      /\ wf.pc = "plan" => wf.attempt = 0
      /\ \A z \in execs : z.attempt \in Nat
      /\ folded.attempts \in Nat
  BY RetriesAssumption DEF RowInv, TypeOK, WorkflowState, Try, InStep, FoldedState
<1>1. wf' = wf
  BY <1>0, EffectWaits
<1>2. CASE RecordDecision(x) /\ x.action = "retry"
  <2>1. /\ x.act = "decide" /\ x.attempt >= 1 /\ x.attempt <= wf.attempt
        /\ x.attempt = wf.attempt => wf.pc \in {"decide", "strategy", "closed"}
        /\ x.attempt < wf.attempt => Retried(x.attempt)
    BY <1>2 DEF RecordDecision, At, RetryInv, RetryTries
  <2>2. /\ recorded' = recorded \cup {Ev("Retry", x.attempt)}
        /\ folded'.attempts = folded.attempts + IF Retried(x.attempt) THEN 0 ELSE 1
    BY <1>0, <1>2, RetriesOfEffect
  <2>3. \A n : Retried(n)' <=> Retried(n) \/ n = x.attempt
    BY <2>2 DEF Retried, Ev
  <2>4. RetriesCounted'
    <3>1. \A e \in recorded' : e.key = "Retry" => e.attempt <= wf.attempt
      BY <2>1, <2>2 DEF Ev, RetryInv, RetriesCounted
    <3>2. folded'.attempts = IF Retried(wf.attempt)' \/ wf.attempt = 0 THEN wf.attempt
                             ELSE wf.attempt - 1
      <4>1. CASE x.attempt = wf.attempt
        BY <1>0, <1>1, <2>1, <2>2, <2>3, <4>1 DEF RetryInv, RetriesCounted
      <4>2. CASE x.attempt # wf.attempt
        <5>1. Retried(x.attempt) /\ (Retried(wf.attempt)' <=> Retried(wf.attempt))
          BY <1>0, <1>1, <2>1, <2>3, <4>2
        <5>2. folded'.attempts = folded.attempts
          BY <1>0, <2>2, <5>1
        <5> QED BY <5>1, <5>2 DEF RetryInv, RetriesCounted
      <4> QED BY <4>1, <4>2
    <3> QED BY <1>1, <2>1, <2>3, <3>1, <3>2 DEF RetryInv, RetriesCounted
  <2>5. RetryTries'
    <3>1. ASSUME NEW y \in execs', y.act = "decide", y.action = "retry"
          PROVE  y \in execs \/ SameCall(y, x)
      BY <1>0, <3>1, DecideTries
    <3>2. ASSUME NEW y \in execs', y.act = "decide", y.action = "retry"
          PROVE  /\ y.attempt >= 1 /\ y.attempt <= wf.attempt
                 /\ y.attempt = wf.attempt => wf.pc \in {"decide", "strategy", "closed"}
                 /\ y.attempt < wf.attempt \/ y.pc = "return" => Retried(y.attempt)'
      BY <2>1, <2>3, <3>1, <3>2 DEF SameCall, RetryInv, RetryTries
    <3> QED BY <1>1, <3>2 DEF RetryTries
  <2> QED BY <2>4, <2>5 DEF RetryInv
<1>3. CASE ~(RecordDecision(x) /\ x.action = "retry")
  <2>1. /\ \A n : Retried(n)' <=> Retried(n)
        /\ \A e \in recorded' \ recorded : e.key # "Retry"
        /\ folded'.attempts = folded.attempts
    BY <1>0, <1>3, RetriesOfEffect
  <2>2. RetriesCounted'
    BY <1>1, <2>1 DEF RetryInv, RetriesCounted
  <2>3. ASSUME NEW y \in execs', y.act = "decide", y.action = "retry"
        PROVE  y \in execs
    <3>1. UpdateRow(x) => x.action # "retry"
      BY DEF UpdateRow, At, RowInv, RowIsDue
    <3> QED BY <1>0, <1>3, <2>3, <3>1, DecideTries DEF SameCall
  <2>4. RetryTries'
    BY <1>1, <2>1, <2>3 DEF RetryInv, RetryTries
  <2> QED BY <2>2, <2>4 DEF RetryInv
<1> QED BY <1>2, <1>3

LEMMA RetryInvKept ==
  ASSUME ~Lite, RowInv, RoundInv, RetryInv, [Next]_vars
  PROVE  RetryInv'
<1>1. CASE NextTry
  <2>1. /\ execs' = execs \cup {NewTry} /\ Waits /\ recorded' = recorded
        /\ folded' = folded /\ \A n : Retried(n)' <=> Retried(n)
    BY <1>1 DEF NextTry, RowInv, TypeOK, WorkflowState, Waits, SameRound, SameEnd,
                SameAccount, Retried
  <2>2. /\ NewTry.act = wf.pc /\ NewTry.attempt = wf.attempt
        /\ NewTry.pc = "return" => wf.pc # "decide"
    BY DEF NewTry, FirstStep
  <2>3. wf.attempt \in Nat /\ (wf.pc = "decide" => wf.attempt >= 1)
    BY DEF RowInv, TypeOK, WorkflowState, RoundInv
  <2>4. RetriesCounted'
    BY <2>1 DEF RetryInv, RetriesCounted, Waits, SameRound
  <2>5. RetryTries'
    BY <2>1, <2>2, <2>3 DEF RetryInv, RetryTries, Waits, SameRound
  <2> QED BY <2>4, <2>5 DEF RetryInv
<1>2. CASE Idles
  BY <1>2 DEF Idles, RetryInv, RetriesCounted, RetryTries, Retried
<1> QED BY <1>1, <1>2, RetryInvMoves, RetryInvEffect, StepKinds DEF RowInv

\* In the durable workflow the retry count survives every crash: whatever tries of
\* record_decision died, ran twice or overlapped, the retries folded from the stream
\* are the rounds the workflow has gone through.  The in-process runner suppresses an
\* error of record_decision and makes no such promise.
THEOREM RetriesAgree == ~Lite => (Spec => []AttemptsAgree)
<1> SUFFICES ASSUME ~Lite PROVE Spec => []AttemptsAgree
  OBVIOUS
<1>1. Init => RetryInv
  BY DEF Init, RetryInv, RetriesCounted, RetryTries, Retried
<1>2. RowInv /\ RoundInv /\ RetryInv /\ [Next]_vars => RetryInv'
  BY RetryInvKept
<1>3. RowInv /\ RoundInv /\ RetryInv => AttemptsAgree
  <2> SUFFICES ASSUME RowInv, RoundInv, RetryInv,
                      wf.pc \in {"guard", "work", "verify", "policy"}
               PROVE  folded.attempts + 1 = wf.attempt
    BY DEF AttemptsAgree
  <2>1. wf.attempt \in Nat /\ wf.attempt >= 1 /\ ~Retried(wf.attempt)
    BY RetriesAssumption
       DEF RowInv, TypeOK, WorkflowState, RoundInv, RetryInv, RetriesCounted
  <2>2. folded.attempts = wf.attempt - 1
    BY <2>1 DEF RetryInv, RetriesCounted
  <2> QED BY <2>1, <2>2
<1> QED BY <1>1, <1>2, <1>3, RoundInvariant, PTL DEF Spec

-----------------------------------------------------------------------------
(* One try at a time *)

\* Without overlap the running try, if any, is the one the workflow waits for.
Alone == \A x, y \in execs : Current(x) /\ x = y

\* A try that has timed out is still running only beside others.
LEMMA NobodyLeft ==
  ASSUME Overlap = 0, NothingRunning \/ TimedOut, Alone, IsFiniteSet(execs)
  PROVE  execs = {}
<1>1. CASE NothingRunning
  BY <1>1 DEF NothingRunning, Alone
<1>2. CASE TimedOut
  BY <1>2, FS_EmptySet, FS_CardinalityType DEF TimedOut
<1> QED BY <1>1, <1>2

LEMMA AloneIsFinite == Alone => IsFiniteSet(execs)
<1> SUFFICES ASSUME Alone PROVE IsFiniteSet(execs)
  OBVIOUS
<1>1. CASE execs = {}
  BY <1>1, FS_EmptySet
<1>2. CASE execs # {}
  <2>1. PICK x \in execs : TRUE
    BY <1>2
  <2>2. execs = {x}
    BY <2>1 DEF Alone
  <2> QED BY <2>2, FS_Singleton
<1> QED BY <1>1, <1>2

\* The workflow moves only when nothing is left running.
LEMMA AloneMoves ==
  ASSUME Overlap = 0, TypeOK, Alone, Moves
  PROVE  execs' = {}
<1>1. CASE \E x \in execs : Current(x) /\ execs' = execs \ {x}
  BY <1>1 DEF Alone
<1>2. CASE execs' = execs /\ (wf.pc \in Activities => NothingRunning \/ TimedOut)
  <2>1. CASE wf.pc \in Activities
    BY <1>2, <2>1, NobodyLeft, AloneIsFinite
  <2>2. CASE wf.pc \notin Activities
    BY <1>2, <2>2 DEF Alone, Current, TypeOK, Try
  <2> QED BY <2>1, <2>2
<1> QED BY <1>1, <1>2 DEF Moves, Leaves

LEMMA AloneKept ==
  ASSUME Overlap = 0, TypeOK, InStep, Alone, [Next]_vars
  PROVE  Alone'
<1>1. CASE Moves
  BY <1>1, AloneMoves DEF Alone
<1>2. CASE NextTry
  <2>1. execs' = {NewTry}
    BY <1>2, NobodyLeft, AloneIsFinite DEF NextTry
  <2>2. wf' = [wf EXCEPT !.try = @ + 1]
    BY <1>2 DEF NextTry
  <2>3. /\ wf'.pc = wf.pc /\ wf'.attempt = wf.attempt /\ wf'.action = wf.action
        /\ wf'.try = wf.try + 1
    BY <2>2 DEF TypeOK, WorkflowState
  <2>4. /\ NewTry.act = wf.pc /\ NewTry.attempt = wf.attempt /\ NewTry.action = wf.action
        /\ NewTry.try = wf.try + 1
    BY DEF NewTry
  <2>5. ASSUME NEW y \in execs'
        PROVE  /\ y.act = wf'.pc /\ y.attempt = wf'.attempt /\ y.action = wf'.action
               /\ y.try = wf'.try
    BY <2>1, <2>3, <2>4
  <2> QED BY <2>1, <2>5 DEF Alone, Current
<1>3. ASSUME NEW x \in execs, Effect(x) PROVE Alone'
  <2>1. execs = {x}
    BY DEF Alone
  <2>2. wf' = wf
    BY <1>3, EffectWaits
  <2>3. \A y \in execs' : SameCall(y, x)
    BY <1>3, <2>1, EffectTries
  <2>4. \A y, z \in execs' : y = z
    <3>1. \/ execs' = execs \ {x}
          \/ \E y : Becomes(x, y)
      BY <1>3, EffectKinds
         DEF Prepares, Drops, RunVerifier, RecordVerdict, RecordDecision, UpdateRow, Step
    <3> QED BY <2>1, <3>1 DEF Becomes
  <2> QED BY <2>2, <2>3, <2>4 DEF Alone, Current, SameCall
<1>4. CASE Idles
  BY <1>4 DEF Idles, Alone, Current
<1> QED BY <1>1, <1>2, <1>3, <1>4, StepKinds

-----------------------------------------------------------------------------
(* The verdicts *)

\* The verdicts in the stream are of rounds gone by until this one is verified.
VerdictsInStream ==
  \A e \in recorded : e.key \in {"VerifyPassed", "VerifyFailed"} =>
    /\ e.attempt <= wf.attempt
    /\ wf.pc \in {"plan", "guard", "work"} => e.attempt < wf.attempt

\* A verdict of the round is the one the stream folds to, unless the round has both.
Said(v) ==
  Ev(VerdictKind[v], wf.attempt) \in recorded =>
    folded.verdict = v \/ BothVerdicts(wf.attempt)

\* A verifier that has run saw the files as they are, and one that answers has
\* recorded what it says.
VerifiersSeeTheFiles ==
  \A x \in execs : x.act = "verify" =>
    /\ x.pc \in {"record", "return"} =>
         (x.passed => workspace.good) /\ x.seen = workspace.applied
    /\ x.pc = "return" => Ev(Verdict(x.passed), x.attempt) \in recorded

\* What the workflow knows of a verdict is in the stream, and of the files there are.
VerdictIsKnown ==
  /\ wf.pc = "policy" \/ wf.action = "complete" =>
       wf.seen = workspace.applied /\ (wf.verdict = "pass" => workspace.good)
  /\ wf.outcome = "completed" => wf.action = "complete"
  /\ wf.verdict # "none" => Ev(VerdictKind[wf.verdict], wf.attempt) \in recorded

VerdictInv ==
  VerdictsInStream /\ Said("pass") /\ Said("fail") /\ VerifiersSeeTheFiles
  /\ VerdictIsKnown

\* A verdict the stream had it still has, and it folds to the same.
LEMMA SaidAgain ==
  ASSUME NEW v \in {"pass", "fail"}, Said(v), wf'.attempt = wf.attempt,
         recorded \subseteq recorded', folded'.verdict = folded.verdict,
         Ev(VerdictKind[v], wf.attempt) \in recorded' =>
           Ev(VerdictKind[v], wf.attempt) \in recorded
  PROVE  Said(v)'
BY DEF Said, BothVerdicts

LEMMA VerdictInvMoves ==
  ASSUME Overlap = 0, RowInv, RoundInv, Alone, VerdictInv, Moves
  PROVE  VerdictInv'
<1>0. /\ wf.attempt \in Nat
      /\ \A e \in recorded : e.attempt \in Nat
      /\ \A x \in execs : x.passed \in BOOLEAN
  BY RetriesAssumption DEF RowInv, TypeOK, WorkflowState, Event, Try
<1>1. recorded' = recorded /\ folded' = folded /\ workspace' = workspace
  BY DEF Moves
<1>2. execs' = {}
  BY AloneMoves DEF RowInv
<1>3. VerifiersSeeTheFiles'
  BY <1>1, <1>2 DEF VerifiersSeeTheFiles
<1>4. VerdictsInStream'
  <2> SUFFICES ASSUME NEW e \in recorded, e.key \in {"VerifyPassed", "VerifyFailed"}
               PROVE  /\ e.attempt <= wf'.attempt
                      /\ wf'.pc \in {"plan", "guard", "work"} => e.attempt < wf'.attempt
    BY <1>1 DEF VerdictsInStream
  <2>1. /\ e.attempt <= wf.attempt
        /\ wf.pc \in {"plan", "guard", "work"} => e.attempt < wf.attempt
    BY DEF VerdictInv, VerdictsInStream
  <2> USE DEF SameRound
  <2>2. CASE Planned \/ GoesRound
    BY <1>0, <2>1, <2>2 DEF Planned, GoesRound
  <2>3. CASE Starts \/ Worked
    BY <1>0, <2>1, <2>3 DEF Starts, Worked
  <2>4. CASE Judged \/ GivesUp \/ Decides \/ Strategizes \/ Ends
    BY <1>0, <2>1, <2>4 DEF Judged, GivesUp, Decides, Strategizes, Ends
  <2> QED BY <2>2, <2>3, <2>4 DEF Moves
<1>5. ASSUME NEW v \in {"pass", "fail"} PROVE Said(v)'
  <2>1. CASE Planned \/ GoesRound
    <3>1. wf'.attempt = wf.attempt + 1
      BY <2>1 DEF Planned, GoesRound
    <3>2. Ev(VerdictKind[v], wf'.attempt) \notin recorded
      <4> DEFINE e == Ev(VerdictKind[v], wf'.attempt)
      <4>1. e.key \in {"VerifyPassed", "VerifyFailed"} /\ e.attempt = wf'.attempt
        BY DEF Ev, VerdictKind
      <4> HIDE DEF e
      <4>2. e \notin recorded
        BY <1>0, <3>1, <4>1 DEF VerdictInv, VerdictsInStream
      <4> QED BY <4>2 DEF e
    <3> QED BY <1>1, <3>2 DEF Said
  <2>2. CASE wf'.attempt = wf.attempt
    BY <1>1, <2>2, SaidAgain DEF VerdictInv
  <2> QED BY <2>1, <2>2
          DEF Moves, Starts, Worked, Judged, GivesUp, Decides, Strategizes, Ends, SameRound
<1>6. VerdictIsKnown'
  <2> USE DEF SameRound, SameEnd, SameAccount
  <2>1. CASE Judged
    <3>1. PICK x \in execs : /\ x.act = "verify" /\ Answered(x)
                             /\ wf'.verdict = IF x.passed THEN "pass" ELSE "fail"
                             /\ wf'.seen = x.seen
      BY <2>1 DEF Judged
    <3>2. /\ wf.pc = "verify" /\ wf'.pc = "policy" /\ wf'.attempt = wf.attempt
          /\ wf'.action = wf.action /\ wf'.outcome = wf.outcome
      BY <2>1 DEF Judged
    <3>3. /\ x.pc = "return" /\ x.attempt = wf.attempt
          /\ x.passed => workspace.good
          /\ x.seen = workspace.applied
          /\ Ev(Verdict(x.passed), wf.attempt) \in recorded
      BY <3>1 DEF Answered, Current, VerdictInv, VerifiersSeeTheFiles
    <3>4. Verdict(x.passed) = VerdictKind[wf'.verdict]
      BY <1>0, <3>1 DEF Verdict, VerdictKind
    <3>5. wf'.verdict = "pass" => workspace.good
      BY <3>1, <3>3
    <3>6. wf.outcome # "completed"
      BY <3>2 DEF RoundInv
    <3> QED BY <1>1, <3>1, <3>2, <3>3, <3>4, <3>5, <3>6 DEF VerdictIsKnown
  <2>2. CASE Planned \/ GoesRound \/ Worked
    BY <1>1, <2>2
       DEF Planned, GoesRound, Worked, Retrying, RoundInv, VerdictInv, VerdictIsKnown, Final
  <2>3. CASE Starts \/ GivesUp \/ Strategizes
    BY <1>1, <2>3 DEF Starts, GivesUp, Strategizes, VerdictInv, VerdictIsKnown
  <2>4. CASE Decides
    <3>1. wf'.action = "complete" => wf.pc = "policy"
      BY <2>4 DEF Decides
    <3>2. wf.outcome # "completed"
      BY <2>4 DEF Decides, RoundInv
    <3> QED BY <1>1, <2>4, <3>1, <3>2 DEF Decides, VerdictInv, VerdictIsKnown
  <2>5. CASE Ends
    <3>1. wf'.outcome = "completed" => wf.action = "complete"
      BY <2>5 DEF Ends, OutcomeOf, Actions
    <3> QED BY <1>1, <2>5, <3>1 DEF Ends, VerdictInv, VerdictIsKnown
  <2> QED BY <2>1, <2>2, <2>3, <2>4, <2>5 DEF Moves
<1> QED BY <1>3, <1>4, <1>5, <1>6 DEF VerdictInv

\* A step that records no verdict, and changes the files only while the worker runs,
\* keeps what is known of the verdicts.
LEMMA VerdictsStay ==
  ASSUME RoundInv, VerdictInv, wf' = wf, recorded \subseteq recorded',
         \A e \in recorded' \ recorded : e.key \notin {"VerifyPassed", "VerifyFailed"},
         folded'.verdict = folded.verdict, workspace' = workspace \/ wf.pc = "work"
  PROVE  VerdictsInStream' /\ Said("pass")' /\ Said("fail")' /\ VerdictIsKnown'
<1>1. VerdictsInStream'
  BY DEF VerdictInv, VerdictsInStream
<1>2. ASSUME NEW v \in {"pass", "fail"} PROVE Said(v)'
  <2>1. Ev(VerdictKind[v], wf.attempt).key \in {"VerifyPassed", "VerifyFailed"}
    BY DEF Ev, VerdictKind
  <2> QED BY <2>1, SaidAgain DEF VerdictInv
<1>3. VerdictIsKnown'
  BY DEF VerdictInv, VerdictIsKnown, RoundInv, Final
<1> QED BY <1>1, <1>2, <1>3

\* A verdict that is appended becomes the one the stream folds to; if it was there
\* already and the stream folds to the other, the round has both.
LEMMA VerdictAppended ==
  ASSUME RowInv, RoundInv, Alone, VerdictInv, NEW x \in execs, RecordVerdict(x)
  PROVE  VerdictInv'
<1> DEFINE k == Verdict(x.passed)
           e == Ev(k, x.attempt)
<1>0. /\ wf' = wf /\ workspace' = workspace /\ Append(e) /\ Step(x, "return")
      /\ x.act = "verify" /\ x.pc = "record" /\ x \in Try
  BY DEF RecordVerdict, At, Verdict, VerdictKey, RowInv, TypeOK
<1>1. execs = {x} /\ x.attempt = wf.attempt /\ wf.pc = "verify" /\ wf.attempt \in Nat
  BY <1>0 DEF Alone, Current, RowInv, TypeOK, WorkflowState
<1>2. (x.passed => workspace.good) /\ x.seen = workspace.applied /\ wf.verdict = "none"
  BY <1>0, <1>1 DEF VerdictInv, VerifiersSeeTheFiles, RoundInv
<1>3. /\ e.key = k /\ e.attempt = wf.attempt /\ recorded' = recorded \cup {e}
      /\ folded' = IF e \in recorded THEN folded ELSE Fold(folded, e)
      /\ e = Ev(k, wf.attempt)
  BY <1>0, <1>1 DEF Append, Ev
<1>4. k \in {"VerifyPassed", "VerifyFailed"}
  BY DEF Verdict
<1>5. VerifiersSeeTheFiles'
  <2>1. PICK y \in Try : execs' = {y} /\ y = [x EXCEPT !.pc = "return"]
    <3>1. [x EXCEPT !.pc = "return"] \in Try
      BY <1>0 DEF Try, Steps
    <3> QED BY <1>0, <1>1, <3>1 DEF Step, Becomes
  <2>2. y.passed = x.passed /\ y.seen = x.seen /\ y.attempt = x.attempt
    BY <1>0, <2>1 DEF Try
  <2>3. Ev(Verdict(y.passed), y.attempt) \in recorded'
    BY <1>3, <2>2 DEF e, k
  <2> QED BY <1>0, <1>2, <2>1, <2>2, <2>3 DEF VerifiersSeeTheFiles
<1> HIDE DEF k, e
<1>6. VerdictsInStream'
  BY <1>0, <1>1, <1>3 DEF VerdictInv, VerdictsInStream
<1>7. ASSUME NEW v \in {"pass", "fail"} PROVE Said(v)'
  <2>1. CASE e \in recorded
    BY <1>0, <1>3, <2>1, SaidAgain DEF VerdictInv
  <2>2. CASE e \notin recorded /\ k = VerdictKind[v]
    <3>1. folded'.verdict = v
      BY <1>3, <2>2 DEF Fold, VerdictKind
    <3> QED BY <3>1 DEF Said
  <2>3. CASE e \notin recorded /\ k # VerdictKind[v]
    <3>1. \/ e = Ev("VerifyPassed", wf.attempt) /\ v = "fail"
          \/ e = Ev("VerifyFailed", wf.attempt) /\ v = "pass"
      BY <1>3, <1>4, <2>3 DEF VerdictKind
    <3>2. Ev(VerdictKind[v], wf.attempt) \in recorded' =>
            /\ Ev("VerifyPassed", wf.attempt) \in recorded'
            /\ Ev("VerifyFailed", wf.attempt) \in recorded'
      <4>1. VerdictKind["pass"] = "VerifyPassed" /\ VerdictKind["fail"] = "VerifyFailed"
        BY DEF VerdictKind
      <4>2. e \in recorded'
        BY <1>3
      <4> QED BY <3>1, <4>1, <4>2
    <3> QED BY <1>0, <3>2 DEF Said, BothVerdicts
  <2> QED BY <2>1, <2>2, <2>3
<1>8. VerdictIsKnown'
  BY <1>0, <1>1, <1>2 DEF VerdictInv, VerdictIsKnown, RoundInv, Final
<1> QED BY <1>5, <1>6, <1>7, <1>8 DEF VerdictInv

LEMMA VerdictInvEffect ==
  ASSUME RowInv, RoundInv, Alone, VerdictInv, NEW x \in execs, Effect(x)
  PROVE  VerdictInv'
<1>0. TypeOK /\ InStep /\ x \in Try
  BY DEF RowInv, TypeOK
<1>1. wf' = wf /\ execs = {x} /\ x.act = wf.pc
  BY <1>0, EffectWaits DEF Alone, Current
<1>2. CASE Prepares(x)
  <2>1. VerdictsInStream' /\ Said("pass")' /\ Said("fail")' /\ VerdictIsKnown'
    <3>1. \A e \in recorded' \ recorded : e.key \notin {"VerifyPassed", "VerifyFailed"}
      BY <1>2 DEF Prepares, Neutral, NeutralKinds
    <3> QED BY <1>1, <1>2, <3>1, VerdictsStay DEF Prepares, Neutral
  <2>2. \A y \in execs' : y.act = "verify" => y.pc = "run"
    BY <1>1, <1>2 DEF Prepares, Becomes
  <2>3. VerifiersSeeTheFiles'
    BY <2>2 DEF VerifiersSeeTheFiles
  <2> QED BY <2>1, <2>3 DEF VerdictInv
<1>3. CASE Drops(x)
  <2>1. VerdictsInStream' /\ Said("pass")' /\ Said("fail")' /\ VerdictIsKnown'
    BY <1>3, VerdictsStay DEF Drops
  <2>2. execs' = {}
    BY <1>1, <1>3 DEF Drops
  <2> QED BY <2>1, <2>2 DEF VerdictInv, VerifiersSeeTheFiles
<1>4. CASE RunVerifier(x)
  <2>1. VerdictsInStream' /\ Said("pass")' /\ Said("fail")' /\ VerdictIsKnown'
    BY <1>4, VerdictsStay DEF RunVerifier
  <2>2. PICK y \in Try : Judges(x, y)
    BY <1>0, <1>4, VerifierJudges
  <2>3. execs' = {y} /\ workspace' = workspace
    BY <1>1, <1>4, <2>2 DEF RunVerifier, Judges, Becomes
  <2>4. VerifiersSeeTheFiles'
    BY <2>2, <2>3 DEF VerifiersSeeTheFiles, Judges
  <2> QED BY <2>1, <2>4 DEF VerdictInv
<1>5. CASE RecordDecision(x)
  <2> DEFINE k == DecisionKind[x.action]
  <2>1. x.action \in Actions /\ Append(Ev(k, x.attempt)) /\ workspace' = workspace
    BY <1>0, <1>5 DEF RecordDecision, At, InStep, Try
  <2>2. k \notin {"VerifyPassed", "VerifyFailed"}
    BY <2>1 DEF Actions, DecisionKind
  <2> HIDE DEF k
  <2>3. /\ recorded' = recorded \cup {Ev(k, x.attempt)} /\ folded'.verdict = folded.verdict
        /\ Ev(k, x.attempt).key = k
    BY <2>1, <2>2 DEF Append, Ev, Fold
  <2>4. VerdictsInStream' /\ Said("pass")' /\ Said("fail")' /\ VerdictIsKnown'
    BY <1>1, <2>1, <2>2, <2>3, VerdictsStay
  <2>5. \A y \in execs' : y.act # "verify"
    <3>1. x.act = "decide" /\ \A y \in execs' : \E z \in execs : SameCall(y, z)
      BY <1>0, <1>5, EffectTries DEF RecordDecision, At
    <3> QED BY <1>1, <3>1 DEF SameCall
  <2> QED BY <2>4, <2>5 DEF VerdictInv, VerifiersSeeTheFiles
<1>6. CASE UpdateRow(x)
  <2>1. VerdictsInStream' /\ Said("pass")' /\ Said("fail")' /\ VerdictIsKnown'
    BY <1>6, VerdictsStay DEF UpdateRow
  <2>2. \A y \in execs' : y.act # "verify"
    <3>1. x.act = "decide" /\ \A y \in execs' : \E z \in execs : SameCall(y, z)
      BY <1>0, <1>6, EffectTries DEF UpdateRow, At
    <3> QED BY <1>1, <3>1 DEF SameCall
  <2> QED BY <2>1, <2>2 DEF VerdictInv, VerifiersSeeTheFiles
<1> QED BY <1>0, <1>2, <1>3, <1>4, <1>5, <1>6, EffectKinds, VerdictAppended

LEMMA VerdictInvKept ==
  ASSUME Overlap = 0, RowInv, RoundInv, Alone, VerdictInv, [Next]_vars
  PROVE  VerdictInv'
<1>1. CASE NextTry
  <2>1. /\ execs' = {NewTry} /\ Waits /\ recorded' = recorded
        /\ folded' = folded /\ workspace' = workspace
    BY <1>1, NobodyLeft, AloneIsFinite
       DEF NextTry, RowInv, TypeOK, WorkflowState, Waits, SameRound, SameEnd, SameAccount
  <2>2. NewTry.act = "verify" => NewTry.pc = "request"
    BY DEF NewTry, FirstStep
  <2>3. VerifiersSeeTheFiles'
    BY <2>1, <2>2 DEF VerifiersSeeTheFiles
  <2>4. VerdictsInStream' /\ VerdictIsKnown'
    BY <2>1 DEF VerdictInv, VerdictsInStream, VerdictIsKnown, Waits,
                SameRound, SameEnd, SameAccount
  <2>5. Said("pass")' /\ Said("fail")'
    BY <2>1, SaidAgain DEF VerdictInv, Waits, SameRound
  <2> QED BY <2>3, <2>4, <2>5 DEF VerdictInv
<1>2. CASE Idles
  <2>1. VerdictsInStream' /\ VerdictIsKnown' /\ VerifiersSeeTheFiles'
    BY <1>2 DEF Idles, VerdictInv, VerdictsInStream, VerdictIsKnown, VerifiersSeeTheFiles
  <2>2. Said("pass")' /\ Said("fail")'
    BY <1>2, SaidAgain DEF VerdictInv, Idles
  <2> QED BY <2>1, <2>2 DEF VerdictInv
<1> QED BY <1>1, <1>2, VerdictInvMoves, VerdictInvEffect, StepKinds DEF RowInv

LEMMA VerdictInvariant == Overlap = 0 => (Spec => [](Alone /\ VerdictInv))
<1> SUFFICES ASSUME Overlap = 0 PROVE Spec => [](Alone /\ VerdictInv)
  OBVIOUS
<1>1. Init => Alone /\ VerdictInv
  BY DEF Init, Alone, VerdictInv, VerdictsInStream, Said, VerifiersSeeTheFiles,
         VerdictIsKnown
<1>2. /\ RowInv /\ RoundInv /\ Alone /\ VerdictInv /\ [Next]_vars
      => Alone' /\ VerdictInv'
  BY AloneKept, VerdictInvKept DEF RowInv
<1> QED BY <1>1, <1>2, RoundInvariant, PTL DEF Spec

\* Where a try that has timed out does not run on beside the next, the verdict a task
\* goes by is recorded for its attempt, the stream folds to another only where a lost
\* try of that attempt recorded it, and what completes is what was verified, files
\* that can pass: no diff has been applied since.  The verifier may say anything but
\* a pass of files that cannot pass, and something else the next time.
THEOREM VerdictsHold == Overlap = 0 => (Spec => []VerdictsAreTrue)
<1> SUFFICES ASSUME Overlap = 0 PROVE Spec => []VerdictsAreTrue
  OBVIOUS
<1>1. RowInv /\ VerdictInv => HeardIsRecorded
  BY DEF RowInv, TypeOK, WorkflowState, VerdictInv, VerdictIsKnown, Said, HeardIsRecorded
<1>2. RoundInv /\ VerdictInv => VerifiedContent
  BY DEF RoundInv, VerdictInv, VerdictIsKnown, VerifiedContent
<1> QED BY <1>1, <1>2, RoundInvariant, VerdictInvariant, PTL DEF VerdictsAreTrue

\* Under the same condition a completion in the stream has behind it, in the stream
\* too, a passing verdict of the last attempt, and spending within the budget.
THEOREM CompletionIsVerified == Overlap = 0 => (Spec => []CompletedIsVerified)
<1> SUFFICES ASSUME Overlap = 0 PROVE Spec => []CompletedIsVerified
  OBVIOUS
<1>1. Init => DecisionInv
  BY DEF Init, DecisionInv
<1>2. RowInv /\ RoundInv /\ DecisionInv /\ [Next]_vars => DecisionInv'
  BY DecisionInvKept
<1>3. RowInv /\ RoundInv /\ DecisionInv /\ VerdictInv => CompletedIsVerified
  <2> SUFFICES ASSUME RowInv, RoundInv, DecisionInv, VerdictInv,
                      NEW e \in recorded, e.key = "Complete"
               PROVE  /\ Ev("VerifyPassed", wf.attempt) \in recorded
                      /\ folded.verdict = "pass" \/ BothVerdicts(wf.attempt)
                      /\ HasBudget => wf.cost <= Budget
    BY DEF CompletedIsVerified, Has
  <2>1. wf.action \in Final /\ e = Ev(DecisionKind[wf.action], wf.attempt)
    BY DEF DecisionInv, FinalKinds
  <2>2. wf.action = "complete"
    BY <2>1 DEF Ev, DecisionKind, Final
  <2>3. wf.verdict = "pass" /\ (HasBudget => wf.cost <= Budget)
    BY <2>2 DEF RoundInv
  <2>4. Ev("VerifyPassed", wf.attempt) \in recorded
    BY <2>3 DEF VerdictInv, VerdictIsKnown, VerdictKind
  <2> QED BY <2>3, <2>4 DEF VerdictInv, Said, VerdictKind
<1> QED BY <1>1, <1>2, <1>3, RoundInvariant, VerdictInvariant, PTL DEF Spec

-----------------------------------------------------------------------------
(* The outcome *)

FinalEvent == Ev(DecisionKind[wf.action], wf.attempt)

\* A final decision that is recorded is the last word of the stream; its try writes
\* the row after it; and an outcome that follows a decision finds both done.
EndInv ==
  /\ wf.action \in Final /\ FinalEvent \in recorded =>
       folded.status = OutcomeOf[wf.action]
  /\ \A x \in execs : x.act = "decide" /\ x.action \in Final =>
       /\ x.pc \in {"row", "return"} => FinalEvent \in recorded
       /\ x.pc = "return" => row = RowAfter[x.action]
  /\ wf.outcome \in {"completed", "needs_human_review", "halted"} =>
       /\ wf.action \in Final /\ wf.outcome = OutcomeOf[wf.action]
       /\ FinalEvent \in recorded /\ row = wf.outcome

LEMMA EndInvMoves ==
  ASSUME Overlap = 0, ~Lite, RowInv, RoundInv, Alone, DecisionInv, EndInv, Moves
  PROVE  EndInv'
<1>0. /\ recorded' = recorded /\ folded' = folded /\ row' = row
      /\ execs' = {}
  BY AloneMoves DEF Moves, RowInv
<1> USE DEF SameRound, SameEnd, SameAccount
<1>1. CASE wf'.action = wf.action /\ wf'.attempt = wf.attempt /\ wf'.outcome = wf.outcome
  BY <1>0, <1>1 DEF EndInv, FinalEvent
<1>2. CASE Planned \/ GoesRound
  <2>1. /\ wf'.action = wf.action /\ wf.action \notin Final /\ wf'.outcome = "open"
    BY <1>2 DEF Planned, GoesRound, Retrying, RoundInv, Final
  <2> QED BY <1>0, <2>1 DEF EndInv
<1>3. CASE Decides
  <2>1. /\ wf.action \notin Final /\ wf'.attempt = wf.attempt /\ wf'.outcome = "open"
    BY <1>3 DEF Decides, RoundInv
  <2>2. wf'.action \in Final => FinalEvent' \notin recorded
    <3> SUFFICES ASSUME wf'.action \in Final PROVE FinalEvent' \notin recorded
      OBVIOUS
    <3>1. FinalEvent'.key \in FinalKinds
      BY DEF FinalEvent, Ev, DecisionKind, Final, FinalKinds
    <3> QED BY <2>1, <3>1 DEF DecisionInv
  <2> QED BY <1>0, <2>1, <2>2 DEF EndInv
<1>4. CASE Ends
  <2>1. wf'.action = wf.action /\ wf'.attempt = wf.attempt
    BY <1>4 DEF Ends
  <2>2. CASE wf'.outcome \in {"failed", "crashed"}
    BY <1>0, <2>1, <2>2 DEF EndInv, FinalEvent
  <2>3. CASE /\ wf.pc = "decide" /\ wf.action \in Actions \ {"retry"} /\ Decided
             /\ wf'.outcome = OutcomeOf[wf.action]
    <3>1. PICK x \in execs : x.act = "decide" /\ Answered(x)
      BY <2>3 DEF Decided
    <3>2. wf.action \in Final
      BY <2>3 DEF Actions, Final
    <3>3. FinalEvent \in recorded /\ row = RowAfter[wf.action]
      BY <3>1, <3>2 DEF Answered, Current, EndInv
    <3>4. RowAfter[wf.action] = OutcomeOf[wf.action]
      BY <3>2 DEF Final, RowAfter, OutcomeOf
    <3>5. FinalEvent' = FinalEvent
      BY <2>1 DEF FinalEvent
    <3>6. folded.status = OutcomeOf[wf.action]
      BY <3>2, <3>3 DEF EndInv
    <3> QED BY <1>0, <2>1, <2>3, <3>2, <3>3, <3>4, <3>5, <3>6 DEF EndInv
  <2>4. CASE Retrying /\ ~(wf.attempt <= MaxRetries)
    BY <2>4 DEF Retrying, RoundInv
  <2> QED BY <1>4, <2>2, <2>3, <2>4 DEF Ends
<1> QED BY <1>1, <1>2, <1>3, <1>4
        DEF Moves, Starts, Worked, Judged, GivesUp, Strategizes

LEMMA EndInvEffect ==
  ASSUME RowInv, RoundInv, Alone, EndInv, NEW x \in execs, Effect(x)
  PROVE  EndInv'
<1>0. TypeOK /\ InStep /\ x \in Try
  BY DEF RowInv, TypeOK
<1>1. /\ wf' = wf /\ execs = {x} /\ x.act = wf.pc /\ x.action = wf.action
      /\ x.attempt = wf.attempt
  BY <1>0, EffectWaits DEF Alone, Current
<1>2. wf.outcome = "open" /\ FinalEvent' = FinalEvent
  BY <1>0, <1>1 DEF RoundInv, Try, Activities, FinalEvent
<1>3. CASE x.act # "decide"
  <2>1. wf.action \notin Final
    BY <1>0, <1>1, <1>3 DEF RoundInv, Try, Activities
  <2>2. \A y \in execs' : y.act # "decide"
    BY <1>0, <1>1, <1>3, EffectTries DEF SameCall
  <2> QED BY <1>1, <1>2, <2>1, <2>2 DEF EndInv
<1>4. CASE Drops(x)
  BY <1>1, <1>2, <1>4 DEF Drops, EndInv
<1>5. CASE RecordDecision(x)
  <2>1. /\ x.action \in Actions /\ Append(FinalEvent) /\ row' = row
        /\ Step(x, IF x.action = "retry" THEN "return" ELSE "row")
    BY <1>0, <1>1, <1>5 DEF RecordDecision, At, InStep, Try, FinalEvent
  <2>2. FinalEvent \in recorded'
    BY <2>1 DEF Append
  <2>3. wf.action \in Final => folded'.status = OutcomeOf[wf.action]
    <3> SUFFICES ASSUME wf.action \in Final
                 PROVE  folded'.status = OutcomeOf[wf.action]
      OBVIOUS
    <3>1. CASE FinalEvent \in recorded
      BY <2>1, <3>1 DEF Append, EndInv
    <3>2. CASE FinalEvent \notin recorded
      <4>1. folded' = Fold(folded, FinalEvent)
        BY <2>1, <3>2 DEF Append
      <4>2. FinalEvent.key = DecisionKind[wf.action]
        BY DEF FinalEvent, Ev
      <4> HIDE DEF FinalEvent
      <4>3. FinalEvent.key \in DOMAIN StatusAfter
            /\ StatusAfter[FinalEvent.key] = OutcomeOf[wf.action]
        BY <4>2 DEF Final, DecisionKind, StatusAfter, OutcomeOf
      <4> QED BY <4>1, <4>3 DEF Fold
    <3> QED BY <3>1, <3>2
  <2>4. \A y \in execs' : y.action \in Final => y.pc = "row"
    <3>1. PICK y \in Try : execs' = {y} /\ SameCall(y, x)
                           /\ y.pc = IF x.action = "retry" THEN "return" ELSE "row"
      <4>1. (IF x.action = "retry" THEN "return" ELSE "row") \in Steps
        BY DEF Steps
      <4> QED BY <1>0, <1>1, <2>1, <4>1, StepBecomes DEF Becomes
    <3> QED BY <3>1 DEF SameCall, Final
  <2> QED BY <1>1, <1>2, <2>2, <2>3, <2>4 DEF EndInv
<1>6. CASE UpdateRow(x)
  <2>1. /\ row' = RowAfter[wf.action] /\ recorded' = recorded /\ folded' = folded
        /\ x.pc = "row" /\ x.act = "decide" /\ Step(x, "return")
    BY <1>1, <1>6 DEF UpdateRow, At
  <2>2. PICK y \in Try : execs' = {y} /\ SameCall(y, x)
    BY <1>0, <1>1, <2>1, StepBecomes DEF Becomes, Steps
  <2>3. wf.action \in Final => FinalEvent \in recorded
    BY <1>1, <2>1 DEF EndInv
  <2> QED BY <1>1, <1>2, <2>1, <2>2, <2>3 DEF EndInv, SameCall
<1> QED BY <1>0, <1>3, <1>4, <1>5, <1>6, EffectKinds
        DEF Prepares, RunVerifier, RecordVerdict, At

LEMMA EndInvKept ==
  ASSUME Overlap = 0, ~Lite, RowInv, RoundInv, Alone, DecisionInv, EndInv, [Next]_vars
  PROVE  EndInv'
<1>1. CASE NextTry
  <2>1. /\ execs' = {NewTry} /\ Waits /\ recorded' = recorded
        /\ folded' = folded /\ row' = row
    BY <1>1, NobodyLeft, AloneIsFinite
       DEF NextTry, RowInv, TypeOK, WorkflowState, Waits, SameRound, SameEnd, SameAccount
  <2>2. NewTry.act = "decide" => NewTry.pc = "event"
    BY DEF NewTry, FirstStep
  <2> QED BY <2>1, <2>2 DEF EndInv, FinalEvent, Waits, SameRound, SameEnd
<1>2. CASE Idles
  BY <1>2 DEF Idles, EndInv, FinalEvent
<1> QED BY <1>1, <1>2, EndInvMoves, EndInvEffect, StepKinds DEF RowInv

\* In the durable workflow, without overlapping tries, a task that ended by a decision
\* has that decision as the last word of its stream and in its row: no crash between
\* the event and the row is left uncorrected.  The in-process runner may end a task
\* whose decision it failed to record.
THEOREM OutcomeIsRecorded == Overlap = 0 /\ ~Lite => (Spec => []EndIsRecorded)
<1> SUFFICES ASSUME Overlap = 0, ~Lite PROVE Spec => []EndIsRecorded
  OBVIOUS
<1>1. Init => DecisionInv /\ EndInv
  BY DEF Init, DecisionInv, EndInv, Final
<1>2. /\ RowInv /\ RoundInv /\ Alone /\ DecisionInv /\ EndInv /\ [Next]_vars
      => DecisionInv' /\ EndInv'
  BY DecisionInvKept, EndInvKept
<1>3. EndInv => EndIsRecorded
  <2>1. EndInv /\ wf.outcome \in {"completed", "needs_human_review", "halted"} =>
          folded.status = wf.outcome /\ row = wf.outcome
    BY DEF EndInv
  <2> QED BY <2>1 DEF EndIsRecorded
<1> QED BY <1>1, <1>2, <1>3, RoundInvariant, VerdictInvariant, PTL DEF Spec
=============================================================================
