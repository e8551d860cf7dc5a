------------------------------ MODULE CodeTask ------------------------------
(***************************************************************************)
(* One code task from planning to its outcome: the orchestration of        *)
(* workflows/code_task_workflow.py (and of lite/runner.py, its in-process  *)
(* mirror), the activities of activities/planner.py and                    *)
(* activities/pipeline.py it calls, the policy of retry.py and the guard   *)
(* of core/budget.py.                                                      *)
(*                                                                         *)
(* The workflow's variables are durable: Temporal rebuilds them by replay. *)
(* An activity is not.  It is tried up to MaxTries times; a try may die or *)
(* raise between any two of its effects, and where Overlap allows the try    *)
(* that timed out may still be running while the next one starts.  Only    *)
(* the answer of the latest try reaches the workflow.                      *)
(*                                                                         *)
(* An event is the pair of its idempotency key and its attempt: append     *)
(* ignores a key the stream already has.  The stream is kept with its fold *)
(* (core/state.py), applied as each event is appended.                     *)
(***************************************************************************)
EXTENDS Naturals, FiniteSets

CONSTANTS MaxRetries,   \* CodeTaskInput.max_retries
          MaxTries,     \* RetryPolicy.maximum_attempts
          Overlap,      \* bound: timed-out tries that may go on running
          Faulty,       \* tries may fail
          Lite,         \* the in-process runner instead of the workflow
          Adaptive,     \* CodeTaskInput.adaptive
          HasDeadline,  \* a deadline is set
          Prices,       \* what the model calls of one activity may cost
          Unpriced,     \* ... the price of a call the provider did not price
          Replayed,     \* calls are served from recordings
          Audited,      \* bound: the ghost spent is kept
          Budget, NoBudget,
          Estimate      \* CodeTaskInput.step_estimate_usd

ASSUME RetriesAssumption ==
  MaxRetries \in Nat /\ MaxTries \in Nat \ {0} /\ Overlap \in Nat
ASSUME FlagsAssumption ==
  {Faulty, Lite, Adaptive, HasDeadline, Replayed, Audited} \subseteq BOOLEAN
ASSUME PriceAssumption ==
  Prices \subseteq Nat \cup {Unpriced} /\ Unpriced \notin Nat /\ Estimate \in Nat
ASSUME SomePriceIsHighest ==
  \E c \in Prices \cap Nat : \A d \in Prices \cap Nat : d <= c
ASSUME BudgetAssumption == NoBudget \notin Nat /\ Budget \in Nat \cup {NoBudget}

VARIABLES wf,         \* the workflow's own variables
          execs,      \* tries of activities that are running
          recorded,   \* events of the task's stream
          folded,     \* rebuild_state of that stream
          row,        \* tasks.status
          workspace,  \* what the diffs applied so far have made of the files, and
                        \* whether the tests can pass on them
          spent,      \* ghost: everything the providers have charged, if Audited
          late        \* the deadline has passed

vars == <<wf, execs, recorded, folded, row, workspace, spent, late>>

Attempts == 1..(MaxRetries + 1)
Activities == {"plan", "work", "verify", "decide", "fail"}
Actions == {"retry", "escalate", "complete", "halt"}
Outcomes == {"completed", "needs_human_review", "halted", "failed", "crashed"}

-----------------------------------------------------------------------------
(* The stream *)

Ev(key, attempt) == [key |-> key, attempt |-> attempt]

\* The status each kind of event folds into; the others leave it alone.
StatusAfter ==
  [PlanRequested |-> "in_progress",       PlanGenerated |-> "in_progress",
   PlanFailed |-> "failed",               WorkerCompleted |-> "in_progress",
   VerifyRequested |-> "in_progress",     VerifyFailed |-> "verification_failed",
   Retry |-> "in_progress",               Complete |-> "completed",
   Escalate |-> "needs_human_review",     Halt |-> "halted",
   Failed |-> "failed"]

Kinds == DOMAIN StatusAfter \cup {"ApplyStarted", "ApplyCompleted", "VerifyPassed"}

Fold(s, e) ==
  [status   |-> IF e.key \in DOMAIN StatusAfter THEN StatusAfter[e.key] ELSE s.status,
   attempts |-> IF e.key = "Retry" THEN s.attempts + 1 ELSE s.attempts,
   verdict  |-> CASE e.key = "VerifyPassed" -> "pass"
                  [] e.key = "VerifyFailed" -> "fail"
                  [] OTHER -> s.verdict,
   pending  |-> CASE e.key = "ApplyStarted" -> s.pending \cup {e.attempt}
                  [] e.key = "ApplyCompleted" -> s.pending \ {e.attempt}
                  [] OTHER -> s.pending]

\* Mutant: the key of the append does not name the event, so nothing conflicts.
AppendAgain(e) ==
  /\ recorded' = recorded \cup {e}
  /\ folded' = Fold(folded, e)

Append(e) ==
  /\ recorded' = recorded \cup {e}
  /\ folded' = IF e \in recorded THEN folded ELSE Fold(folded, e)

-----------------------------------------------------------------------------
(* Tries of activities *)

FirstStep == [plan |-> "request", work |-> "call", verify |-> "request",
              decide |-> "event", fail |-> "event"]

NewTry ==
  [act |-> wf.pc, attempt |-> wf.attempt, action |-> wf.action, try |-> wf.try + 1,
   pc |-> FirstStep[wf.pc], cost |-> 0, passed |-> FALSE,
   seen |-> workspace.applied]

Current(x) ==
  /\ x.act = wf.pc
  /\ x.attempt = wf.attempt
  /\ x.action = wf.action
  /\ x.try = wf.try

NothingRunning == \A x \in execs : ~Current(x)

At(x, act, pc) == x.act = act /\ x.pc = pc
Becomes(x, y) == execs' = (execs \ {x}) \cup {y}
Step(x, pc) == Becomes(x, [x EXCEPT !.pc = pc])

\* Mutant: one more try than allowed is left running.
NeverCancelled == Faulty /\ Cardinality(execs) <= Overlap + 1

\* start_to_close_timeout has passed and the try has not noticed.
TimedOut == Faulty /\ Cardinality(execs) <= Overlap

\* Schedules the first try, or the next one after the last has raised, died or
\* run past start_to_close_timeout.
NextTry ==
  /\ wf.pc \in Activities
  /\ wf.try < MaxTries
  /\ NothingRunning \/ TimedOut
  /\ execs' = execs \cup {NewTry}
  /\ wf' = [wf EXCEPT !.try = @ + 1]
  /\ UNCHANGED <<recorded, folded, row, workspace, spent, late>>

\* A try raises or its process dies, with the effects it has had so far.
LoseTry(x) ==
  /\ Faulty
  /\ execs' = execs \ {x}
  /\ UNCHANGED <<wf, recorded, folded, row, workspace, spent, late>>

\* The answer of a try the workflow no longer waits for.
IgnoreAnswer(x) ==
  /\ x.pc = "return"
  /\ ~Current(x)
  /\ execs' = execs \ {x}
  /\ UNCHANGED <<wf, recorded, folded, row, workspace, spent, late>>

-----------------------------------------------------------------------------
(* plan_task *)

RequestPlan(x) ==
  /\ At(x, "plan", "request")
  /\ Append(Ev("PlanRequested", 0))
  /\ Step(x, "call")
  /\ UNCHANGED <<wf, row, workspace, spent, late>>

\* The calls of an activity are charged when they are made, whatever becomes
\* of the activity.  A reply without a price counts as 0 in a replay and has
\* no cost otherwise.
Charge(c) == spent' = spent + IF c = Unpriced \/ ~Audited THEN 0 ELSE c

CallPlanner(x) ==
  /\ At(x, "plan", "call")
  /\ \E c \in Prices :
        /\ Charge(c)
        /\ \/ Becomes(x, [x EXCEPT !.pc = "record", !.cost = c])
           \/ Faulty /\ Becomes(x, [x EXCEPT !.pc = "invalid", !.cost = c])
  /\ UNCHANGED <<wf, recorded, folded, row, workspace, late>>

\* PlanningFailed: the stream is told the task has failed and the try raises.
RecordInvalidPlan(x) ==
  /\ At(x, "plan", "invalid")
  /\ Append(Ev("PlanFailed", 0))
  /\ execs' = execs \ {x}
  /\ UNCHANGED <<wf, row, workspace, spent, late>>

\* cost_usd of a result adds up its calls' costs: None + float raises TypeError.
CostIsKnown(x) == x.cost # Unpriced \/ Replayed

RecordPlan(x) ==
  /\ At(x, "plan", "record")
  /\ CostIsKnown(x)
  /\ Append(Ev("PlanGenerated", 0))
  /\ Step(x, "return")
  /\ UNCHANGED <<wf, row, workspace, spent, late>>

\* The sum over the calls raises before PLAN_GENERATED or WORKER_COMPLETED.
FailToPrice(x) ==
  /\ At(x, "plan", "record") \/ At(x, "work", "complete")
  /\ ~CostIsKnown(x)
  /\ execs' = execs \ {x}
  /\ UNCHANGED <<wf, recorded, folded, row, workspace, spent, late>>

-----------------------------------------------------------------------------
(* run_worker *)

\* execute_task calls the worker model (and the critic).  WorkFailed, a
\* response that is still invalid after the repair prompt, loses the try; a
\* valid one carries a diff to apply or reports that there is nothing to do.
CallWorker(x) ==
  /\ At(x, "work", "call")
  /\ \E c \in Prices :
        /\ Charge(c)
        /\ \/ Becomes(x, [x EXCEPT !.pc = "start", !.cost = c])
           \/ Becomes(x, [x EXCEPT !.pc = "complete", !.cost = c])
           \/ Faulty /\ execs' = execs \ {x}
  /\ UNCHANGED <<wf, recorded, folded, row, workspace, late>>

\* _pre_apply: the intent is recorded before the side effect ...
StartApply(x) ==
  /\ At(x, "work", "start")
  /\ Append(Ev("ApplyStarted", x.attempt))
  /\ Step(x, "lookback")
  /\ UNCHANGED <<wf, row, workspace, spent, late>>

\* ... and a completion already in the stream makes the apply unnecessary.  A
\* stream that cannot be read counts as one without a completion.
LookBack(x) ==
  /\ At(x, "work", "lookback")
  /\ \/ Ev("ApplyCompleted", x.attempt) \in recorded /\ Step(x, "complete")
     \/ Ev("ApplyCompleted", x.attempt) \notin recorded /\ Step(x, "apply")
     \/ Faulty /\ Step(x, "apply")
  /\ UNCHANGED <<wf, recorded, folded, row, workspace, spent, late>>

\* sandbox.apply_diff: the diff may or may not make the files good.
ApplyDiff(x) ==
  /\ At(x, "work", "apply")
  /\ \E good \in BOOLEAN :
        workspace' = [good |-> good,
                      applied |-> [workspace.applied EXCEPT ![x.attempt] = @ + 1]]
  /\ Step(x, "applied")
  /\ UNCHANGED <<wf, recorded, folded, row, spent, late>>

RecordApply(x) ==
  /\ At(x, "work", "applied")
  /\ Append(Ev("ApplyCompleted", x.attempt))
  /\ Step(x, "complete")
  /\ UNCHANGED <<wf, row, workspace, spent, late>>

RecordWork(x) ==
  /\ At(x, "work", "complete")
  /\ CostIsKnown(x)
  /\ Append(Ev("WorkerCompleted", x.attempt))
  /\ Step(x, "return")
  /\ UNCHANGED <<wf, row, workspace, spent, late>>

-----------------------------------------------------------------------------
(* run_verifier *)

RequestVerification(x) ==
  /\ At(x, "verify", "request")
  /\ Append(Ev("VerifyRequested", x.attempt))
  /\ Step(x, "run")
  /\ UNCHANGED <<wf, row, workspace, spent, late>>

\* The verifier judges the files as they are.  Tests that fail on these files
\* never pass; tests that can pass may still fail once, and a run that takes too
\* long counts as failed.
RunVerifier(x) ==
  /\ At(x, "verify", "run")
  /\ \E passed \in BOOLEAN :
        /\ passed => workspace.good
        /\ Becomes(x, [x EXCEPT !.pc = "record", !.passed = passed,
                                !.seen = workspace.applied])
  /\ UNCHANGED <<wf, recorded, folded, row, workspace, spent, late>>

VerdictKey(x) == IF x.passed THEN "VerifyPassed" ELSE "VerifyFailed"

HasVerdict(n) == {Ev("VerifyPassed", n), Ev("VerifyFailed", n)} \cap recorded # {}

\* Mutant: the key names the attempt only, so the first verdict of an attempt keeps
\* out the other.
RecordFirstVerdict(x) ==
  /\ At(x, "verify", "record")
  /\ IF HasVerdict(x.attempt) THEN UNCHANGED <<recorded, folded>>
     ELSE Append(Ev(VerdictKey(x), x.attempt))
  /\ Step(x, "return")
  /\ UNCHANGED <<wf, row, workspace, spent, late>>

RecordVerdict(x) ==
  /\ At(x, "verify", "record")
  /\ Append(Ev(VerdictKey(x), x.attempt))
  /\ Step(x, "return")
  /\ UNCHANGED <<wf, row, workspace, spent, late>>

-----------------------------------------------------------------------------
(* record_decision and record_failure: the event first, then tasks.status *)

DecisionKind == [retry |-> "Retry", complete |-> "Complete", escalate |-> "Escalate",
                 halt |-> "Halt"]
RowAfter == [complete |-> "completed", escalate |-> "needs_human_review",
             halt |-> "halted"]

RecordDecision(x) ==
  /\ At(x, "decide", "event")
  /\ Append(Ev(DecisionKind[x.action], x.attempt))
  /\ Step(x, IF x.action = "retry" THEN "return" ELSE "row")
  /\ UNCHANGED <<wf, row, workspace, spent, late>>

\* Mutant: the row may be written before the event.
UpdateRowEarly(x) ==
  /\ x.act = "decide" /\ x.pc \in {"event", "row"} /\ x.action # "retry"
  /\ row' = RowAfter[x.action]
  /\ Step(x, "return")
  /\ UNCHANGED <<wf, recorded, folded, workspace, spent, late>>

UpdateRow(x) ==
  /\ At(x, "decide", "row")
  /\ row' = RowAfter[x.action]
  /\ Step(x, "return")
  /\ UNCHANGED <<wf, recorded, folded, workspace, spent, late>>

RecordFailure(x) ==
  /\ At(x, "fail", "event")
  /\ Append(Ev("Failed", x.attempt))
  /\ Step(x, "row")
  /\ UNCHANGED <<wf, row, workspace, spent, late>>

UpdateFailedRow(x) ==
  /\ At(x, "fail", "row")
  /\ row' = "failed"
  /\ Step(x, "return")
  /\ UNCHANGED <<wf, recorded, folded, workspace, spent, late>>

-----------------------------------------------------------------------------
(* CodeTaskWorkflow.run: what it does with each answer *)

Answered(x) == x.pc = "return" /\ Current(x)
GoTo(w, pc) == [w EXCEPT !.pc = pc, !.try = 0]
Close(w, outcome) == [w EXCEPT !.pc = "closed", !.outcome = outcome]
Decide(w, action) == [GoTo(w, "decide") EXCEPT !.action = action]

\* The cost and the unknown flag that come with an answer.
Account(w, x) ==
  [w EXCEPT !.cost = @ + IF x.cost = Unpriced THEN 0 ELSE x.cost,
            !.unknown = @ \/ x.cost = Unpriced]

NextAttempt(w) == [GoTo(w, "guard") EXCEPT !.attempt = @ + 1, !.verdict = "none"]

LoopBack == IF wf.attempt <= MaxRetries THEN NextAttempt(wf)
            ELSE Close(wf, "needs_human_review")

OutcomeOf == [complete |-> "completed", escalate |-> "needs_human_review",
              halt |-> "halted"]

\* What follows a recorded decision.
Proceed ==
  CASE wf.action # "retry" -> Close(wf, OutcomeOf[wf.action])
    [] wf.action = "retry" /\ Adaptive -> GoTo(wf, "strategy")
    [] OTHER -> LoopBack

Answer(x, act, w) ==
  /\ x.act = act
  /\ x.pc = "return"
  /\ Current(x)
  /\ wf' = w
  /\ execs' = execs \ {x}
  /\ UNCHANGED <<recorded, folded, row, workspace, spent, late>>

OnPlan(x) == Answer(x, "plan", NextAttempt(Account(wf, x)))

OnWork(x) == Answer(x, "work", GoTo(Account(wf, x), "verify"))

OnVerdict(x) ==
  Answer(x, "verify", [GoTo(wf, "policy") EXCEPT
                         !.verdict = IF x.passed THEN "pass" ELSE "fail",
                         !.seen = x.seen])

OnDecision(x) == Answer(x, "decide", Proceed)

OnFailureRecorded(x) == Answer(x, "fail", Close(wf, "failed"))

\* Mutant: a decision that could not be recorded starts another attempt.
LoopAfterLostDecision ==
  CASE wf.pc \in {"plan", "work", "verify"} -> GoTo(wf, "fail")
    [] wf.pc = "fail" -> Close(wf, "failed")
    [] OTHER -> LoopBack

\* Mutant: an activity that failed for good is scheduled again.
ScheduleAgain == GoTo(wf, wf.pc)

\* Every try has failed: ActivityError.  Planning, working and verifying lead to
\* _fail; record_failure's own error is suppressed; nothing catches the error of
\* record_decision, except in the in-process runner, which suppresses it.
AfterActivityError ==
  CASE wf.pc \in {"plan", "work", "verify"} -> GoTo(wf, "fail")
    [] wf.pc = "fail" -> Close(wf, "failed")
    [] wf.pc = "decide" /\ Lite -> Proceed
    [] OTHER -> Close(wf, "crashed")

ActivityError ==
  /\ wf.pc \in Activities
  /\ wf.try = MaxTries
  /\ NothingRunning \/ TimedOut
  /\ wf' = AfterActivityError
  /\ UNCHANGED <<execs, recorded, folded, row, workspace, spent, late>>

-----------------------------------------------------------------------------
(* pre_spend_decision, decide, and the adaptive step *)

HasBudget == Budget # NoBudget

\* Mutant: the guard does not add the estimate of the step to the cost.
MustHaltAtBudget ==
  \/ HasBudget /\ wf.unknown
  \/ HasBudget /\ wf.cost > Budget
  \/ late

MustHalt ==
  \/ HasBudget /\ wf.unknown
  \/ HasBudget /\ wf.cost + Estimate > Budget
  \/ late

PreSpend ==
  /\ wf.pc = "guard"
  /\ wf' = IF MustHalt THEN Decide(wf, "halt") ELSE GoTo(wf, "work")
  /\ UNCHANGED <<execs, recorded, folded, row, workspace, spent, late>>

\* Mutant: success is looked at before the ceilings.
PassFirst ==
  CASE wf.verdict = "pass" -> "complete"
    [] (HasBudget /\ wf.cost > Budget) \/ late -> "halt"
    [] wf.attempt <= MaxRetries -> "retry"
    [] OTHER -> "escalate"

\* Mutant: one retry more than the loop has attempts.
RetryOnceMore ==
  CASE (HasBudget /\ wf.cost > Budget) \/ late -> "halt"
    [] wf.verdict = "pass" -> "complete"
    [] wf.attempt <= MaxRetries + 1 -> "retry"
    [] OTHER -> "escalate"

\* Mutant: escalates one retry early.
RetryOnceLess ==
  CASE (HasBudget /\ wf.cost > Budget) \/ late -> "halt"
    [] wf.verdict = "pass" -> "complete"
    [] wf.attempt < MaxRetries -> "retry"
    [] OTHER -> "escalate"

Decision ==
  IF (HasBudget /\ wf.cost > Budget) \/ late THEN "halt"
  ELSE IF wf.verdict = "pass" THEN "complete"
  ELSE IF wf.attempt <= MaxRetries THEN "retry"
  ELSE "escalate"

EvaluatePolicy ==
  /\ wf.pc = "policy"
  /\ \/ wf' = Decide(wf, Decision)
     \/ Faulty /\ wf' = Close(wf, "crashed")
  /\ UNCHANGED <<execs, recorded, folded, row, workspace, spent, late>>

\* The guard applies to the strategy step too; the in-process runner keeps its
\* objective when the step fails.
ChooseStrategy ==
  /\ wf.pc = "strategy"
  /\ \/ MustHalt /\ wf' = Decide(wf, "halt")
     \/ ~MustHalt /\ wf' = LoopBack
     \/ ~MustHalt /\ Faulty /\ ~Lite /\ wf' = Close(wf, "crashed")
  /\ UNCHANGED <<execs, recorded, folded, row, workspace, spent, late>>

\* The in-process runner has nobody to resume it.
ProcessDies ==
  /\ Lite
  /\ Faulty
  /\ wf.pc # "closed"
  /\ wf' = Close(wf, "crashed")
  /\ execs' = {}
  /\ UNCHANGED <<recorded, folded, row, workspace, spent, late>>

DeadlinePasses ==
  /\ HasDeadline
  /\ ~late
  /\ late' = TRUE
  /\ UNCHANGED <<wf, execs, recorded, folded, row, workspace, spent>>

-----------------------------------------------------------------------------
Init ==
  /\ wf = [pc |-> "plan", attempt |-> 0, try |-> 0, cost |-> 0, unknown |-> FALSE,
           verdict |-> "none", action |-> "none", outcome |-> "open",
           seen |-> [n \in Attempts |-> 0]]
  /\ execs = {}
  /\ recorded = {}
  /\ folded = [status |-> "pending", attempts |-> 0, verdict |-> "none", pending |-> {}]
  /\ row = "active"
  /\ \E good \in BOOLEAN :
        workspace = [good |-> good, applied |-> [n \in Attempts |-> 0]]
  /\ spent = 0
  /\ late = FALSE

PlanStep(x) ==
  RequestPlan(x) \/ CallPlanner(x) \/ RecordInvalidPlan(x) \/ RecordPlan(x) \/ FailToPrice(x)
WorkStep(x) ==
  CallWorker(x) \/ StartApply(x) \/ LookBack(x) \/ ApplyDiff(x) \/ RecordApply(x)
  \/ RecordWork(x)
VerifyStep(x) == RequestVerification(x) \/ RunVerifier(x) \/ RecordVerdict(x)
RecordStep(x) ==
  RecordDecision(x) \/ UpdateRow(x) \/ RecordFailure(x) \/ UpdateFailedRow(x)
AnswerStep(x) ==
  OnPlan(x) \/ OnWork(x) \/ OnVerdict(x) \/ OnDecision(x) \/ OnFailureRecorded(x)
  \/ IgnoreAnswer(x)

TryStep(x) == PlanStep(x) \/ WorkStep(x) \/ VerifyStep(x) \/ RecordStep(x) \/ AnswerStep(x)
WorkflowStep == NextTry \/ ActivityError \/ PreSpend \/ EvaluatePolicy \/ ChooseStrategy

Next ==
  \/ \E x \in execs : TryStep(x) \/ LoseTry(x)
  \/ WorkflowStep
  \/ ProcessDies
  \/ DeadlinePasses

Spec == Init /\ [][Next]_vars

\* Temporal keeps scheduling tries until they are used up, and a try that is
\* not lost keeps going.
FairSpec ==
  /\ Spec
  /\ WF_vars(WorkflowStep)
  /\ WF_vars(\E x \in execs : TryStep(x))

-----------------------------------------------------------------------------
(* Properties *)

Steps == {"request", "call", "invalid", "record", "start", "lookback", "apply", "applied",
          "complete", "run", "event", "row", "return"}
Statuses == {"pending", "in_progress", "verification_failed"} \cup (Outcomes \ {"crashed"})

WorkflowState ==
  [pc : Activities \cup {"guard", "policy", "strategy", "closed"},
   attempt : 0..(MaxRetries + 1), try : 0..MaxTries, cost : Nat, unknown : BOOLEAN,
   verdict : {"none", "pass", "fail"}, action : Actions \cup {"none"},
   outcome : Outcomes \cup {"open"}, seen : [Attempts -> Nat]]

Try ==
  [act : Activities, attempt : 0..(MaxRetries + 1), action : Actions \cup {"none"},
   try : 1..MaxTries, pc : Steps, cost : Prices \cup {0}, passed : BOOLEAN,
   seen : [Attempts -> Nat]]

Event == [key : Kinds, attempt : 0..(MaxRetries + 1)]

FoldedState ==
  [status : Statuses, attempts : Nat, verdict : {"none", "pass", "fail"},
   pending : SUBSET Attempts]

\* Every variable stays within the values the code can give it.
TypeOK ==
  /\ wf \in WorkflowState
  /\ execs \subseteq Try
  /\ recorded \subseteq Event
  /\ folded \in FoldedState
  /\ row \in {"active", "completed", "needs_human_review", "halted", "failed"}
  /\ workspace \in [good : BOOLEAN, applied : [Attempts -> Nat]]
  /\ spent \in Nat
  /\ late \in BOOLEAN

Has(key) == \E e \in recorded : e.key = key

\* The retry policy is durable state seen twice, in the workflow and in the
\* stream: once the task is planned, the number of retries folded from the
\* stream is the number of attempts the workflow has used, whatever tries of
\* record_decision died or ran twice.
AttemptsAgree ==
  wf.pc \in {"guard", "work", "verify", "policy"} => folded.attempts + 1 = wf.attempt

BothVerdicts(n) == {Ev("VerifyPassed", n), Ev("VerifyFailed", n)} \subseteq recorded

\* A task is completed only if its last attempt has a passing verdict in the stream
\* and the spending accounted for is within budget.  The stream then folds to
\* that verdict, unless a lost try of the same attempt has recorded the other.
CompletedIsVerified ==
  Has("Complete") =>
    /\ Ev("VerifyPassed", wf.attempt) \in recorded
    /\ folded.verdict = "pass" \/ BothVerdicts(wf.attempt)
    /\ HasBudget => wf.cost <= Budget

VerdictKind == [pass |-> "VerifyPassed", fail |-> "VerifyFailed"]

\* The verdict the workflow decides by is recorded for the attempt it is in, and is
\* the one the stream folds to unless the verifier was run again and said otherwise.
HeardIsRecorded ==
  wf.verdict # "none" =>
    /\ Ev(VerdictKind[wf.verdict], wf.attempt) \in recorded
    /\ folded.verdict = wf.verdict \/ BothVerdicts(wf.attempt)

\* What completed is what was verified, files on which the tests can pass: no
\* diff has been applied since.
VerifiedContent ==
  wf.outcome = "completed" => wf.seen = workspace.applied /\ workspace.good

\* However often its tries die and whatever the verifier says the second time, a task
\* goes by a verdict its stream has, and what completes is what was judged.
VerdictsAreTrue == HeardIsRecorded /\ VerifiedContent

\* A task that ended by a decision has that decision as the last word of its
\* stream, and its row says the same.
EndIsRecorded ==
  wf.outcome \in {"completed", "needs_human_review", "halted"} =>
    folded.status = wf.outcome /\ row = wf.outcome

\* tasks.status is a cache of the stream: it names no outcome whose event is
\* not there already, even if the process dies between the two writes.
RowFollowsStream ==
  /\ row = "completed" => Has("Complete")
  /\ row = "needs_human_review" => Has("Escalate")
  /\ row = "halted" => Has("Halt")
  /\ row = "failed" => Has("Failed")

\* The stream never holds two of the policy's final decisions.
OneFinalDecision ==
  \A e, f \in {g \in recorded : g.key \in {"Complete", "Escalate", "Halt"}} : e = f

MaxPrice == CHOOSE c \in Prices \cap Nat : \A d \in Prices \cap Nat : d <= c

\* The accounted cost passes the point where the guard lets a step start, the
\* budget less the step's estimate, by at most the cost of one activity.
OverrunBounded ==
  HasBudget => wf.cost <= MaxPrice + IF Estimate <= Budget THEN Budget - Estimate ELSE 0

\* With a budget, a call whose price is unknown stops all further spending.
UnknownCostStops ==
  [][HasBudget /\ wf.unknown /\ wf.pc # "verify" /\ wf.pc # "policy" /\ wf.pc # "decide"
       => ~\E x \in execs' \ execs : x.act = "work"]_vars

\* Every run ends.
EventuallyCloses == <>(wf.pc = "closed")

\* The rounds, verdicts and outcome of the workflow are those of a task
\* lifecycle.
Lifecycle == INSTANCE TaskLifecycle WITH
  MaxRounds <- MaxRetries + 1, round <- wf.attempt, verdict <- wf.verdict,
  outcome <- wf.outcome
ImplementsLifecycle == Lifecycle!Spec

-----------------------------------------------------------------------------
(* The inductive strengthening of TypeOK, RowFollowsStream and OverrunBounded. *)

\* Planning is before the first attempt, the rest belongs to one; a decision is
\* recorded once it has been taken.
InStep ==
  /\ wf.pc = "plan" => wf.attempt = 0 /\ wf.cost = 0
  /\ wf.pc = "work" => wf.attempt >= 1
  /\ wf.pc = "guard" => wf.attempt >= 1
  /\ wf.pc = "decide" => wf.action # "none"
  /\ \A x \in execs : x.act = "work" => x.attempt >= 1
  /\ \A x \in execs : x.act = "decide" => x.action # "none"

\* Whoever is about to write the row has appended the event.
RowIsDue ==
  \A x \in execs : x.pc = "row" =>
    /\ x.act = "decide" => x.action # "retry" /\ Has(DecisionKind[x.action])
    /\ x.act = "fail" => Has("Failed")

\* Work starts only while the step's estimate fits.
WorkFits == HasBudget /\ wf.pc = "work" => wf.cost + Estimate <= Budget

-----------------------------------------------------------------------------
(* Statements of the sources that the code does not keep *)

\* worker_agent.py: a retry after a crash never duplicates the tool call.
ApplyOnce == \A n \in Attempts : workspace.applied[n] <= 1

\* replay/engine.py: verifying is deterministic, so an attempt has one verdict.
OneVerdictPerAttempt == \A n \in Attempts : ~BothVerdicts(n)

\* ... and the verdict a completed task folds to is a pass.
CompletedFoldsToPass == Has("Complete") => folded.verdict = "pass"

\* core/events.py: no further events are expected after a terminal one.
TerminalIsLast ==
  [][Has("Complete") \/ Has("Escalate") \/ Has("Failed") \/ Has("PlanFailed")
       => recorded' = recorded]_vars

\* core/budget.py: what a task overspends is bounded by the cost of one call.
SpendBounded == HasBudget => spent <= Budget + MaxPrice

\* code_task_workflow.py: no task is left in progress by an activity that
\* fails for good.
ClosedRowIsTerminal == wf.outcome = "crashed" => row # "active"

\* core/budget.py: without a budget an unknown cost alone stops nothing.
UnpricedIsHarmless == ~HasBudget => wf.outcome # "failed"

=============================================================================
