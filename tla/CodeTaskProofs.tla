--------------------------- MODULE CodeTaskProofs ---------------------------
(***************************************************************************)
(* Proofs about CodeTask, for any number of retries, tries and overlapping *)
(* tries, any prices and any budget, with or without faults.               *)
(***************************************************************************)
EXTENDS CodeTask, TLAPS

(* Effects of activities *)

\* What an appended event leaves of the stream and its fold.
LEMMA AppendTyped ==
  ASSUME TypeOK, NEW k \in Kinds, NEW n \in 0..(MaxRetries + 1),
         k = "ApplyStarted" => n >= 1, Append(Ev(k, n))
  PROVE  recorded' \subseteq Event /\ folded' \in FoldedState
<1>1. Ev(k, n) \in Event
  BY DEF Ev, Event
<1>2. recorded' \subseteq Event
  BY <1>1 DEF Append, TypeOK
<1>3. Ev(k, n).key = k /\ Ev(k, n).attempt = n
  BY DEF Ev
<1>4. Fold(folded, Ev(k, n)) \in FoldedState
  <2> DEFINE e == Ev(k, n)
  <2>1. (IF e.key \in DOMAIN StatusAfter THEN StatusAfter[e.key] ELSE folded.status)
          \in Statuses
    BY <1>3 DEF StatusAfter, Statuses, Outcomes, TypeOK, FoldedState
  <2>2. (IF e.key = "Retry" THEN folded.attempts + 1 ELSE folded.attempts) \in Nat
    BY <1>3 DEF TypeOK, FoldedState
  <2>3. (CASE e.key = "VerifyPassed" -> "pass"
           [] e.key = "VerifyFailed" -> "fail"
           [] OTHER -> folded.verdict) \in {"none", "pass", "fail"}
    BY <1>3 DEF TypeOK, FoldedState
  <2>4. (CASE e.key = "ApplyStarted" -> folded.pending \cup {e.attempt}
           [] e.key = "ApplyCompleted" -> folded.pending \ {e.attempt}
           [] OTHER -> folded.pending) \in SUBSET Attempts
    BY <1>3, RetriesAssumption DEF TypeOK, FoldedState, Attempts
  <2> QED BY <2>1, <2>2, <2>3, <2>4 DEF Fold, FoldedState
<1> QED BY <1>2, <1>4 DEF Append, TypeOK

\* A try that moves on is the same try of the same activity.
SameTries ==
  \A y \in execs' : \E z \in execs :
     y.act = z.act /\ y.attempt = z.attempt /\ y.action = z.action

LEMMA StepTyped ==
  ASSUME TypeOK, NEW x \in execs, NEW pc \in Steps, Step(x, pc)
  PROVE  execs' \subseteq Try /\ SameTries
<1> DEFINE y == [x EXCEPT !.pc = pc]
<1>1. x \in Try
  BY DEF TypeOK
<1>2. /\ y \in Try
      /\ y.act = x.act /\ y.attempt = x.attempt /\ y.action = x.action
  BY <1>1 DEF Try
<1>3. execs' = (execs \ {x}) \cup {y}
  BY DEF Step, Becomes
<1> QED BY <1>2, <1>3 DEF TypeOK, SameTries

\* Nothing the workflow holds has changed and every running try was running before.
LEMMA InStepKept ==
  ASSUME InStep, wf' = wf, SameTries
  PROVE  InStep'
BY DEF InStep, SameTries

\* A try ends.
LEMMA EndTyped ==
  ASSUME TypeOK, NEW x \in execs, execs' = execs \ {x}
  PROVE  execs' \subseteq Try /\ SameTries
BY DEF TypeOK, SameTries

-----------------------------------------------------------------------------
(* What the workflow does with its own variables *)

LEMMA GoToTyped ==
  ASSUME NEW w \in WorkflowState,
         NEW pc \in Activities \cup {"guard", "policy", "strategy", "closed"}
  PROVE  /\ GoTo(w, pc) \in WorkflowState
         /\ GoTo(w, pc).pc = pc /\ GoTo(w, pc).attempt = w.attempt
         /\ GoTo(w, pc).cost = w.cost /\ GoTo(w, pc).action = w.action
<1>1. 0 \in 0..MaxTries
  BY RetriesAssumption
<1>2. GoTo(w, pc) = [w EXCEPT !.pc = pc, !.try = 0]
  BY DEF GoTo
<1> QED BY <1>1, <1>2 DEF WorkflowState

LEMMA CloseTyped ==
  ASSUME NEW w \in WorkflowState, NEW o \in Outcomes
  PROVE  /\ Close(w, o) \in WorkflowState
         /\ Close(w, o).pc = "closed" /\ Close(w, o).cost = w.cost
<1>1. Close(w, o) \in WorkflowState
  BY DEF Close, WorkflowState
<1>2. Close(w, o).pc = "closed" /\ Close(w, o).cost = w.cost
  BY DEF Close, WorkflowState
<1> QED BY <1>1, <1>2

LEMMA DecideTyped ==
  ASSUME NEW w \in WorkflowState, NEW a \in Actions
  PROVE  /\ Decide(w, a) \in WorkflowState
         /\ Decide(w, a).pc = "decide" /\ Decide(w, a).action = a
         /\ Decide(w, a).cost = w.cost
<1> DEFINE g == GoTo(w, "decide")
<1>1. g \in WorkflowState /\ g.pc = "decide" /\ g.cost = w.cost
  BY GoToTyped DEF Activities
<1>2. Decide(w, a) = [g EXCEPT !.action = a]
  BY DEF Decide
<1> HIDE DEF g
<1> QED BY <1>1, <1>2 DEF WorkflowState

LEMMA NextAttemptTyped ==
  ASSUME NEW w \in WorkflowState, w.attempt <= MaxRetries
  PROVE  /\ NextAttempt(w) \in WorkflowState
         /\ NextAttempt(w).pc = "guard" /\ NextAttempt(w).attempt >= 1
         /\ NextAttempt(w).cost = w.cost
<1> DEFINE g == GoTo(w, "guard")
<1>1. g \in WorkflowState /\ g.pc = "guard" /\ g.attempt = w.attempt /\ g.cost = w.cost
  BY GoToTyped
<1>2. NextAttempt(w) = [g EXCEPT !.attempt = @ + 1, !.verdict = "none"]
  BY DEF NextAttempt
<1> HIDE DEF g
<1>3. g.attempt + 1 \in 0..(MaxRetries + 1) /\ g.attempt + 1 >= 1
  BY <1>1, RetriesAssumption DEF WorkflowState
<1> QED BY <1>1, <1>2, <1>3 DEF WorkflowState

\* A price that is known is a number.
LEMMA PriceIsNumber ==
  ASSUME NEW c \in Prices \cup {0}, c # Unpriced PROVE c \in Nat
<1>1. CASE c = 0
  BY <1>1
<1>2. CASE c \in Prices
  BY <1>2, PriceAssumption
<1> QED BY <1>1, <1>2

\* What an answer adds to the workflow's accounts.
LEMMA AccountTyped ==
  ASSUME NEW w \in WorkflowState, NEW x \in Try
  PROVE  /\ Account(w, x) \in WorkflowState
         /\ Account(w, x).pc = w.pc /\ Account(w, x).attempt = w.attempt
         /\ Account(w, x).cost = w.cost + IF x.cost = Unpriced THEN 0 ELSE x.cost
<1> DEFINE c == IF x.cost = Unpriced THEN 0 ELSE x.cost
           u == w.unknown \/ x.cost = Unpriced
<1>1. c \in Nat
  <2>1. x.cost \in Prices \cup {0}
    BY DEF Try
  <2>2. x.cost # Unpriced => x.cost \in Nat
    BY <2>1, PriceIsNumber
  <2> QED BY <2>2
<1>2. u \in BOOLEAN
  OBVIOUS
<1>3. Account(w, x) = [w EXCEPT !.cost = @ + c, !.unknown = u]
  BY DEF Account, WorkflowState
<1> HIDE DEF c, u
<1>4. w.cost + c \in Nat
  BY <1>1 DEF WorkflowState
<1>5. Account(w, x) \in WorkflowState /\ Account(w, x).cost = w.cost + c
      /\ Account(w, x).pc = w.pc /\ Account(w, x).attempt = w.attempt
  BY <1>2, <1>3, <1>4 DEF WorkflowState
<1> QED BY <1>5 DEF c

\* The ways a round and a run may end.
LEMMA LoopBackTyped ==
  ASSUME wf \in WorkflowState
  PROVE  /\ LoopBack \in WorkflowState
         /\ LoopBack.pc \in {"guard", "closed"}
         /\ LoopBack.pc = "guard" => LoopBack.attempt >= 1
         /\ LoopBack.cost = wf.cost
<1>1. CASE wf.attempt <= MaxRetries
  BY <1>1, NextAttemptTyped DEF LoopBack
<1>2. CASE ~(wf.attempt <= MaxRetries)
  BY <1>2, CloseTyped DEF LoopBack, Outcomes
<1> QED BY <1>1, <1>2

LEMMA ProceedTyped ==
  ASSUME wf \in WorkflowState, wf.action # "none"
  PROVE  /\ Proceed \in WorkflowState
         /\ Proceed.pc \in {"guard", "strategy", "closed"}
         /\ Proceed.pc = "guard" => Proceed.attempt >= 1
         /\ Proceed.cost = wf.cost
<1>1. CASE wf.action # "retry"
  <2>1. OutcomeOf[wf.action] \in Outcomes
    BY <1>1 DEF WorkflowState, Actions, OutcomeOf, Outcomes
  <2>2. Proceed = Close(wf, OutcomeOf[wf.action])
    BY <1>1 DEF Proceed
  <2> QED BY <2>1, <2>2, CloseTyped
<1>2. CASE wf.action = "retry" /\ Adaptive
  BY <1>2, GoToTyped DEF Proceed
<1>3. CASE wf.action = "retry" /\ ~Adaptive
  BY <1>3, LoopBackTyped DEF Proceed
<1> QED BY <1>1, <1>2, <1>3

-----------------------------------------------------------------------------
\* A try that moves on with a new local value.
LEMMA BecomesTyped ==
  ASSUME TypeOK, NEW x \in execs, NEW y \in Try, Becomes(x, y),
         y.act = x.act, y.attempt = x.attempt, y.action = x.action
  PROVE  execs' \subseteq Try /\ SameTries
BY DEF TypeOK, Becomes, SameTries

\* The steps of running tries keep the shape of everything they write.
LEMMA TryStepTyped ==
  ASSUME TypeOK, InStep, RowIsDue, NEW x \in execs,
         PlanStep(x) \/ WorkStep(x) \/ VerifyStep(x) \/ RecordStep(x)
  PROVE  TypeOK' /\ InStep' /\ wf' = wf
<1> DEFINE Rest == /\ wf' = wf /\ late' = late
                   /\ row' \in {"active", "completed", "needs_human_review", "halted", "failed"}
<1>0. /\ x \in Try /\ x.attempt \in 0..(MaxRetries + 1)
      /\ x.action \in Actions \cup {"none"}
  BY DEF TypeOK, Try
<1> SUFFICES Rest /\ /\ execs' \subseteq Try /\ SameTries
                     /\ recorded' \subseteq Event /\ folded' \in FoldedState
                     /\ workspace' \in [good : BOOLEAN, applied : [Attempts -> Nat]]
                     /\ spent' \in Nat
  BY InStepKept DEF TypeOK
<1> USE DEF At
<1>1. CASE RequestPlan(x)
  <2>1. Append(Ev("PlanRequested", 0)) /\ Step(x, "call")
    BY <1>1 DEF RequestPlan
  <2>2. recorded' \subseteq Event /\ folded' \in FoldedState
    BY <2>1, AppendTyped, RetriesAssumption DEF Kinds, StatusAfter
  <2> QED BY <1>1, <2>1, <2>2, StepTyped DEF RequestPlan, Steps, TypeOK
<1>2. CASE CallPlanner(x)
  <2>1. PICK c \in Prices :
          /\ Charge(c)
          /\ \/ Becomes(x, [x EXCEPT !.pc = "record", !.cost = c])
             \/ Becomes(x, [x EXCEPT !.pc = "invalid", !.cost = c])
    BY <1>2 DEF CallPlanner
  <2>2. spent' \in Nat
    BY <2>1, PriceIsNumber DEF Charge, TypeOK
  <2>3. execs' \subseteq Try /\ SameTries
    BY <1>0, <2>1, BecomesTyped DEF Try, Steps
  <2> QED BY <1>2, <2>2, <2>3 DEF CallPlanner, TypeOK
<1>3. CASE RecordInvalidPlan(x)
  <2>1. Append(Ev("PlanFailed", 0)) /\ execs' = execs \ {x}
    BY <1>3 DEF RecordInvalidPlan
  <2>2. recorded' \subseteq Event /\ folded' \in FoldedState
    BY <2>1, AppendTyped, RetriesAssumption DEF Kinds, StatusAfter
  <2> QED BY <1>3, <2>1, <2>2, EndTyped DEF RecordInvalidPlan, TypeOK
<1>4. CASE RecordPlan(x)
  <2>1. Append(Ev("PlanGenerated", 0)) /\ Step(x, "return")
    BY <1>4 DEF RecordPlan
  <2>2. recorded' \subseteq Event /\ folded' \in FoldedState
    BY <2>1, AppendTyped, RetriesAssumption DEF Kinds, StatusAfter
  <2> QED BY <1>4, <2>1, <2>2, StepTyped DEF RecordPlan, Steps, TypeOK
<1>5. CASE FailToPrice(x)
  BY <1>5, EndTyped DEF FailToPrice, TypeOK
<1>6. CASE CallWorker(x)
  <2>1. PICK c \in Prices :
          /\ Charge(c)
          /\ \/ Becomes(x, [x EXCEPT !.pc = "start", !.cost = c])
             \/ Becomes(x, [x EXCEPT !.pc = "complete", !.cost = c])
             \/ execs' = execs \ {x}
    BY <1>6 DEF CallWorker
  <2>2. spent' \in Nat
    BY <2>1, PriceIsNumber DEF Charge, TypeOK
  <2>3. execs' \subseteq Try /\ SameTries
    BY <1>0, <2>1, BecomesTyped, EndTyped DEF Try, Steps
  <2> QED BY <1>6, <2>2, <2>3 DEF CallWorker, TypeOK
<1>7. CASE StartApply(x)
  <2>1. Append(Ev("ApplyStarted", x.attempt)) /\ Step(x, "lookback")
    BY <1>7 DEF StartApply
  <2>2. x.attempt >= 1
    BY <1>7 DEF StartApply, InStep
  <2>3. recorded' \subseteq Event /\ folded' \in FoldedState
    BY <1>0, <2>1, <2>2, AppendTyped DEF Kinds
  <2> QED BY <1>7, <2>1, <2>3, StepTyped DEF StartApply, Steps, TypeOK
<1>8. CASE LookBack(x)
  <2>1. Step(x, "complete") \/ Step(x, "apply")
    BY <1>8 DEF LookBack
  <2> QED BY <1>8, <2>1, StepTyped DEF LookBack, Steps, TypeOK
<1>9. CASE ApplyDiff(x)
  <2>1. PICK good \in BOOLEAN :
          workspace' = [good |-> good,
                        applied |-> [workspace.applied EXCEPT ![x.attempt] = @ + 1]]
    BY <1>9 DEF ApplyDiff
  <2>2. ASSUME NEW f \in [Attempts -> Nat], NEW n \in 0..(MaxRetries + 1)
        PROVE  [f EXCEPT ![n] = @ + 1] \in [Attempts -> Nat]
    <3>1. CASE n \in Attempts
      <4>1. f[n] + 1 \in Nat
        BY <3>1
      <4> QED BY <4>1
    <3>2. CASE n \notin Attempts
      <4>1. [f EXCEPT ![n] = @ + 1] = f
        BY <3>2, Zenon
      <4> QED BY <4>1
    <3> QED BY <3>1, <3>2
  <2> DEFINE applied == [workspace.applied EXCEPT ![x.attempt] = @ + 1]
  <2>3. workspace.applied \in [Attempts -> Nat]
    BY DEF TypeOK
  <2>4. applied \in [Attempts -> Nat]
    BY <1>0, <2>2, <2>3
  <2>5. workspace' = [good |-> good, applied |-> applied]
    BY <2>1
  <2> HIDE DEF applied
  <2>6. workspace' \in [good : BOOLEAN, applied : [Attempts -> Nat]]
    BY <2>4, <2>5
  <2> QED BY <1>9, <2>6, StepTyped DEF ApplyDiff, Steps, TypeOK
<1>10. CASE RecordApply(x)
  <2>1. Append(Ev("ApplyCompleted", x.attempt)) /\ Step(x, "complete")
    BY <1>10 DEF RecordApply
  <2>2. recorded' \subseteq Event /\ folded' \in FoldedState
    BY <1>0, <2>1, AppendTyped DEF Kinds
  <2> QED BY <1>10, <2>1, <2>2, StepTyped DEF RecordApply, Steps, TypeOK
<1>11. CASE RecordWork(x)
  <2>1. Append(Ev("WorkerCompleted", x.attempt)) /\ Step(x, "return")
    BY <1>11 DEF RecordWork
  <2>2. recorded' \subseteq Event /\ folded' \in FoldedState
    BY <1>0, <2>1, AppendTyped DEF Kinds, StatusAfter
  <2> QED BY <1>11, <2>1, <2>2, StepTyped DEF RecordWork, Steps, TypeOK
<1>12. CASE RequestVerification(x)
  <2>1. Append(Ev("VerifyRequested", x.attempt)) /\ Step(x, "run")
    BY <1>12 DEF RequestVerification
  <2>2. recorded' \subseteq Event /\ folded' \in FoldedState
    BY <1>0, <2>1, AppendTyped DEF Kinds, StatusAfter
  <2> QED BY <1>12, <2>1, <2>2, StepTyped DEF RequestVerification, Steps, TypeOK
<1>13. CASE RunVerifier(x)
  <2>1. PICK passed \in BOOLEAN :
          Becomes(x, [x EXCEPT !.pc = "record", !.passed = passed,
                               !.seen = workspace.applied])
    BY <1>13 DEF RunVerifier
  <2> DEFINE y == [x EXCEPT !.pc = "record", !.passed = passed,
                            !.seen = workspace.applied]
  <2>2. /\ y \in Try
        /\ y.act = x.act /\ y.attempt = x.attempt /\ y.action = x.action
    BY <1>0 DEF Try, Steps, TypeOK
  <2>3. Becomes(x, y)
    BY <2>1
  <2> HIDE DEF y
  <2> QED BY <1>13, <2>2, <2>3, BecomesTyped DEF RunVerifier, TypeOK
<1>14. CASE RecordVerdict(x)
  <2> DEFINE k == VerdictKey(x)
  <2>1. Append(Ev(k, x.attempt)) /\ Step(x, "return")
    BY <1>14 DEF RecordVerdict
  <2>2. k \in Kinds /\ k # "ApplyStarted"
    BY DEF Kinds, StatusAfter, VerdictKey
  <2> HIDE DEF k
  <2>3. recorded' \subseteq Event /\ folded' \in FoldedState
    BY <1>0, <2>1, <2>2, AppendTyped
  <2> QED BY <1>14, <2>1, <2>3, StepTyped DEF RecordVerdict, Steps, TypeOK
<1>15. CASE RecordDecision(x)
  <2> DEFINE k == DecisionKind[x.action]
             pc == IF x.action = "retry" THEN "return" ELSE "row"
  <2>1. Append(Ev(k, x.attempt)) /\ Step(x, pc)
    BY <1>15 DEF RecordDecision
  <2>2. x.action \in Actions
    BY <1>0, <1>15 DEF RecordDecision, InStep
  <2>3. k \in Kinds /\ k # "ApplyStarted" /\ pc \in Steps
    BY <2>2 DEF DecisionKind, Actions, Kinds, StatusAfter, Steps
  <2> HIDE DEF k, pc
  <2>4. recorded' \subseteq Event /\ folded' \in FoldedState
    BY <1>0, <2>1, <2>3, AppendTyped
  <2> QED BY <1>15, <2>1, <2>3, <2>4, StepTyped DEF RecordDecision, TypeOK
<1>16. CASE UpdateRow(x)
  <2>1. x.action \in Actions \ {"retry"}
    BY <1>0, <1>16 DEF UpdateRow, InStep, RowIsDue
  <2>2. row' \in {"completed", "needs_human_review", "halted"}
    BY <1>16, <2>1 DEF UpdateRow, Actions, RowAfter
  <2> QED BY <1>16, <2>2, StepTyped DEF UpdateRow, Steps, TypeOK
<1>17. CASE RecordFailure(x)
  <2>1. Append(Ev("Failed", x.attempt)) /\ Step(x, "row")
    BY <1>17 DEF RecordFailure
  <2>2. recorded' \subseteq Event /\ folded' \in FoldedState
    BY <1>0, <2>1, AppendTyped DEF Kinds, StatusAfter
  <2> QED BY <1>17, <2>1, <2>2, StepTyped DEF RecordFailure, Steps, TypeOK
<1>18. CASE UpdateFailedRow(x)
  BY <1>18, StepTyped DEF UpdateFailedRow, Steps, TypeOK
<1> QED
  BY <1>1, <1>2, <1>3, <1>4, <1>5, <1>6, <1>7, <1>8, <1>9, <1>10, <1>11, <1>12, <1>13,
     <1>14, <1>15, <1>16, <1>17, <1>18 DEF PlanStep, WorkStep, VerifyStep, RecordStep

\* What the workflow does with an answer, with the last error of an activity, and
\* on its own.
LEMMA WorkflowTyped ==
  ASSUME TypeOK, InStep,
         (\E x \in execs : AnswerStep(x)) \/ WorkflowStep \/ ProcessDies
  PROVE  TypeOK' /\ InStep'
<1>0. wf \in WorkflowState
  BY DEF TypeOK
<1> DEFINE Safe == /\ wf' \in WorkflowState
                   /\ wf'.pc # "plan"
                   /\ wf'.pc \in {"guard", "work"} => wf'.attempt >= 1
                   /\ wf'.pc = "decide" => wf'.action # "none"
           Frame == UNCHANGED <<recorded, folded, row, workspace, spent, late>>
<1>1. ASSUME Safe, Frame, execs' \subseteq Try, SameTries PROVE TypeOK' /\ InStep'
  BY <1>1 DEF TypeOK, InStep, SameTries
<1>2. ASSUME UNCHANGED <<wf, recorded, folded, row, workspace, spent, late>>,
             execs' \subseteq Try, SameTries
      PROVE  TypeOK' /\ InStep'
  BY <1>2, InStepKept DEF TypeOK
<1> HIDE DEF Safe, Frame
<1>3. ASSUME NEW x \in execs, AnswerStep(x) PROVE TypeOK' /\ InStep'
  <2>0. x \in Try /\ x.seen \in [Attempts -> Nat] /\ x.passed \in BOOLEAN
    BY DEF TypeOK, Try
  <2>1. execs' = execs \ {x}
    BY <1>3 DEF AnswerStep, OnPlan, OnWork, OnVerdict, OnDecision, OnFailureRecorded,
                IgnoreAnswer, Answer
  <2>2. execs' \subseteq Try /\ SameTries
    BY <2>1, EndTyped
  <2>3. CASE OnPlan(x)
    <3> DEFINE w == Account(wf, x)
    <3>1. /\ wf' = NextAttempt(w) /\ wf.pc = "plan"
          /\ UNCHANGED <<recorded, folded, row, workspace, spent, late>>
      BY <2>3 DEF OnPlan, Answer, Current
    <3>2. w \in WorkflowState /\ w.attempt = 0
      BY <1>0, <2>0, <3>1, AccountTyped DEF InStep
    <3> HIDE DEF w
    <3>3. Safe
      BY <3>1, <3>2, RetriesAssumption, NextAttemptTyped DEF Safe
    <3> QED BY <1>1, <2>2, <3>1, <3>3 DEF Frame
  <2>4. CASE OnWork(x)
    <3> DEFINE w == Account(wf, x)
    <3>1. /\ wf' = GoTo(w, "verify")
          /\ UNCHANGED <<recorded, folded, row, workspace, spent, late>>
      BY <2>4 DEF OnWork, Answer
    <3>2. w \in WorkflowState
      BY <1>0, <2>0, AccountTyped
    <3> HIDE DEF w
    <3>3. Safe
      BY <3>1, <3>2, GoToTyped DEF Safe, Activities
    <3> QED BY <1>1, <2>2, <3>1, <3>3 DEF Frame
  <2>5. CASE OnVerdict(x)
    <3> DEFINE w == GoTo(wf, "policy")
               v == IF x.passed THEN "pass" ELSE "fail"
    <3>1. /\ wf' = [w EXCEPT !.verdict = v, !.seen = x.seen]
          /\ UNCHANGED <<recorded, folded, row, workspace, spent, late>>
      BY <2>5 DEF OnVerdict, Answer
    <3>2. w \in WorkflowState /\ w.pc = "policy"
      BY <1>0, GoToTyped
    <3>3. v \in {"pass", "fail"}
      OBVIOUS
    <3> HIDE DEF w, v
    <3>4. wf' \in WorkflowState /\ wf'.pc = "policy"
      BY <2>0, <3>1, <3>2, <3>3 DEF WorkflowState
    <3>5. Safe
      BY <3>4 DEF Safe
    <3> QED BY <1>1, <2>2, <3>1, <3>5 DEF Frame
  <2>6. CASE OnDecision(x)
    <3>1. /\ wf' = Proceed /\ wf.pc = "decide"
          /\ UNCHANGED <<recorded, folded, row, workspace, spent, late>>
      BY <2>6 DEF OnDecision, Answer, Current
    <3>2. wf.action # "none"
      BY <3>1 DEF InStep
    <3>3. Safe
      BY <1>0, <3>1, <3>2, ProceedTyped DEF Safe
    <3> QED BY <1>1, <2>2, <3>1, <3>3 DEF Frame
  <2>7. CASE OnFailureRecorded(x)
    <3>1. /\ wf' = Close(wf, "failed")
          /\ UNCHANGED <<recorded, folded, row, workspace, spent, late>>
      BY <2>7 DEF OnFailureRecorded, Answer
    <3>2. Safe
      BY <1>0, <3>1, CloseTyped DEF Safe, Outcomes
    <3> QED BY <1>1, <2>2, <3>1, <3>2 DEF Frame
  <2>8. CASE IgnoreAnswer(x)
    BY <1>2, <2>2, <2>8 DEF IgnoreAnswer
  <2> QED BY <1>3, <2>3, <2>4, <2>5, <2>6, <2>7, <2>8 DEF AnswerStep
<1>4. CASE NextTry
  <2>1. /\ wf.pc \in Activities /\ wf.try < MaxTries
        /\ wf' = [wf EXCEPT !.try = @ + 1] /\ execs' = execs \cup {NewTry}
        /\ UNCHANGED <<recorded, folded, row, workspace, spent, late>>
    BY <1>4 DEF NextTry
  <2>2. wf.try + 1 \in 0..MaxTries /\ wf.try + 1 \in 1..MaxTries
    BY <1>0, <2>1, RetriesAssumption DEF WorkflowState
  <2>3. /\ wf' \in WorkflowState
        /\ wf'.pc = wf.pc /\ wf'.attempt = wf.attempt
        /\ wf'.cost = wf.cost /\ wf'.action = wf.action
    BY <1>0, <2>1, <2>2 DEF WorkflowState
  <2>4. FirstStep[wf.pc] \in Steps
    BY <2>1 DEF FirstStep, Activities, Steps
  <2>5. workspace.applied \in [Attempts -> Nat]
    BY DEF TypeOK
  <2>6. /\ NewTry \in Try
        /\ NewTry.act = wf.pc /\ NewTry.attempt = wf.attempt /\ NewTry.action = wf.action
    BY <1>0, <2>1, <2>2, <2>4, <2>5 DEF NewTry, Try, WorkflowState
  <2>7. TypeOK'
    BY <2>1, <2>3, <2>6 DEF TypeOK
  <2>8. InStep'
    BY <2>1, <2>3, <2>6 DEF InStep
  <2> QED BY <2>7, <2>8
<1>5. ASSUME ActivityError \/ PreSpend \/ EvaluatePolicy \/ ChooseStrategy
      PROVE  TypeOK' /\ InStep'
  <2>1. execs' = execs /\ UNCHANGED <<recorded, folded, row, workspace, spent, late>>
    BY <1>5 DEF ActivityError, PreSpend, EvaluatePolicy, ChooseStrategy
  <2>2. execs' \subseteq Try /\ SameTries
    BY <2>1 DEF TypeOK, SameTries
  <2>3. CASE ActivityError
    <3>1. CASE wf.pc \in {"plan", "work", "verify"}
      <4>1. wf' = GoTo(wf, "fail")
        BY <2>3, <3>1 DEF ActivityError, AfterActivityError
      <4> QED BY <1>0, <1>1, <2>1, <2>2, <4>1, GoToTyped DEF Safe, Frame, Activities
    <3>2. CASE wf.pc = "fail"
      <4>1. wf' = Close(wf, "failed")
        BY <2>3, <3>2 DEF ActivityError, AfterActivityError
      <4> QED BY <1>0, <1>1, <2>1, <2>2, <4>1, CloseTyped DEF Safe, Frame, Outcomes
    <3>3. CASE wf.pc = "decide" /\ Lite
      <4>1. wf' = Proceed /\ wf.action # "none"
        BY <2>3, <3>3 DEF ActivityError, AfterActivityError, InStep
      <4>2. Safe
        BY <1>0, <4>1, ProceedTyped DEF Safe
      <4> QED BY <1>1, <2>1, <2>2, <4>2 DEF Frame
    <3>4. CASE wf.pc = "decide" /\ ~Lite
      <4>1. wf' = Close(wf, "crashed")
        BY <2>3, <3>4 DEF ActivityError, AfterActivityError
      <4> QED BY <1>0, <1>1, <2>1, <2>2, <4>1, CloseTyped DEF Safe, Frame, Outcomes
    <3> QED BY <2>3, <3>1, <3>2, <3>3, <3>4 DEF ActivityError, Activities
  <2>4. CASE PreSpend
    <3>1. /\ wf.pc = "guard"
          /\ wf' = Decide(wf, "halt") \/ wf' = GoTo(wf, "work")
      BY <2>4 DEF PreSpend
    <3>2. wf.attempt >= 1
      BY <3>1 DEF InStep
    <3>3. Safe
      <4>1. CASE wf' = Decide(wf, "halt")
        BY <1>0, <4>1, DecideTyped DEF Safe, Actions
      <4>2. CASE wf' = GoTo(wf, "work")
        BY <1>0, <3>2, <4>2, GoToTyped DEF Safe, Activities
      <4> QED BY <3>1, <4>1, <4>2
    <3> QED BY <1>1, <2>1, <2>2, <3>3 DEF Frame
  <2>5. CASE EvaluatePolicy
    <3>1. Decision \in Actions
      BY DEF Decision, Actions
    <3>2. Safe
      <4>1. CASE wf' = Decide(wf, Decision)
        BY <1>0, <3>1, <4>1, DecideTyped DEF Safe, Actions
      <4>2. CASE wf' = Close(wf, "crashed")
        BY <1>0, <4>2, CloseTyped DEF Safe, Outcomes
      <4> QED BY <2>5, <4>1, <4>2 DEF EvaluatePolicy
    <3> QED BY <1>1, <2>1, <2>2, <3>2 DEF Frame
  <2>6. CASE ChooseStrategy
    <3>1. Safe
      <4>1. CASE wf' = Decide(wf, "halt")
        BY <1>0, <4>1, DecideTyped DEF Safe, Actions
      <4>2. CASE wf' = LoopBack
        BY <1>0, <4>2, LoopBackTyped DEF Safe
      <4>3. CASE wf' = Close(wf, "crashed")
        BY <1>0, <4>3, CloseTyped DEF Safe, Outcomes
      <4> QED BY <2>6, <4>1, <4>2, <4>3 DEF ChooseStrategy
    <3> QED BY <1>1, <2>1, <2>2, <3>1 DEF Frame
  <2> QED BY <1>5, <2>3, <2>4, <2>5, <2>6
<1>6. CASE ProcessDies
  <2>1. /\ wf' = Close(wf, "crashed") /\ execs' = {}
        /\ UNCHANGED <<recorded, folded, row, workspace, spent, late>>
    BY <1>6 DEF ProcessDies
  <2>2. Safe
    BY <1>0, <2>1, CloseTyped DEF Safe, Outcomes
  <2> QED BY <1>1, <2>1, <2>2 DEF Frame, SameTries
<1> QED BY <1>3, <1>4, <1>5, <1>6 DEF WorkflowStep

-----------------------------------------------------------------------------
(* The row and the stream *)

\* No running try has come to the point where it writes the row.
NoneDue == \A y \in execs' : y \in execs \/ y.pc # "row"

\* A longer stream and an unwritten row keep what the row says.
LEMMA RowUntouched ==
  ASSUME RowFollowsStream, RowIsDue, recorded \subseteq recorded', row' = row, NoneDue
  PROVE  RowFollowsStream' /\ RowIsDue'
<1>1. ASSUME NEW key, Has(key) PROVE Has(key)'
  BY <1>1 DEF Has
<1>2. RowFollowsStream'
  BY <1>1 DEF RowFollowsStream
<1>3. RowIsDue'
  BY <1>1 DEF RowIsDue, NoneDue
<1> QED BY <1>2, <1>3

LEMMA StepNotDue ==
  ASSUME TypeOK, NEW x \in execs, NEW pc, pc # "row", Step(x, pc)
  PROVE  NoneDue
<1>1. [x EXCEPT !.pc = pc].pc = pc
  BY DEF TypeOK, Try
<1> QED BY <1>1 DEF Step, Becomes, NoneDue

\* A try that has appended its event may write the row.
LEMMA RowDue ==
  ASSUME TypeOK, RowFollowsStream, RowIsDue, NEW x \in execs,
         NEW key, Append(Ev(key, x.attempt)), Step(x, "row"), row' = row,
         x.act = "decide" => x.action # "retry" /\ key = DecisionKind[x.action],
         x.act = "fail" => key = "Failed"
  PROVE  RowFollowsStream' /\ RowIsDue'
<1> DEFINE y == [x EXCEPT !.pc = "row"]
<1>1. y.act = x.act /\ y.action = x.action
  BY DEF TypeOK, Try
<1>2. execs' = (execs \ {x}) \cup {y}
  BY DEF Step, Becomes
<1> HIDE DEF y
<1>3. recorded \subseteq recorded' /\ Ev(key, x.attempt) \in recorded'
      /\ Ev(key, x.attempt).key = key
  BY DEF Append, Ev
<1>4. Has(key)'
  BY <1>3 DEF Has
<1>5. ASSUME NEW k, Has(k) PROVE Has(k)'
  BY <1>3, <1>5 DEF Has
<1>6. RowFollowsStream'
  BY <1>5 DEF RowFollowsStream
<1>7. RowIsDue'
  BY <1>1, <1>2, <1>4, <1>5 DEF RowIsDue
<1> QED BY <1>6, <1>7

\* Every step keeps the row behind the stream.
LEMMA RowStep ==
  ASSUME TypeOK, InStep, RowFollowsStream, RowIsDue, Next
  PROVE  RowFollowsStream' /\ RowIsDue'
<1>1. ASSUME NEW x \in execs, TryStep(x) \/ LoseTry(x)
      PROVE  RowFollowsStream' /\ RowIsDue'
  <2>0. x \in Try
    BY DEF TypeOK
  <2>1. CASE RecordDecision(x) /\ x.action # "retry"
    <3>1. /\ Append(Ev(DecisionKind[x.action], x.attempt)) /\ Step(x, "row") /\ row' = row
          /\ x.act = "decide"
      BY <2>1 DEF RecordDecision, At
    <3> QED BY <2>1, <3>1, RowDue
  <2>2. CASE RecordFailure(x)
    <3>1. /\ Append(Ev("Failed", x.attempt)) /\ Step(x, "row") /\ row' = row
          /\ x.act = "fail"
      BY <2>2 DEF RecordFailure, At
    <3> QED BY <3>1, RowDue
  <2>3. CASE UpdateRow(x)
    <3>1. /\ x.act = "decide" /\ x.pc = "row" /\ row' = RowAfter[x.action]
          /\ Step(x, "return") /\ recorded' = recorded
      BY <2>3 DEF UpdateRow, At
    <3>2. x.action \in {"complete", "escalate", "halt"} /\ Has(DecisionKind[x.action])
      BY <2>0, <3>1 DEF InStep, RowIsDue, Try, Actions
    <3>3. RowFollowsStream'
      BY <3>1, <3>2 DEF RowFollowsStream, Has, RowAfter, DecisionKind
    <3>4. NoneDue
      BY <3>1, StepNotDue
    <3>5. RowIsDue'
      BY <3>1, <3>4 DEF RowIsDue, NoneDue, Has
    <3> QED BY <3>3, <3>5
  <2>4. CASE UpdateFailedRow(x)
    <3>1. /\ x.act = "fail" /\ x.pc = "row" /\ row' = "failed"
          /\ Step(x, "return") /\ recorded' = recorded
      BY <2>4 DEF UpdateFailedRow, At
    <3>2. Has("Failed")
      BY <3>1 DEF RowIsDue
    <3>3. RowFollowsStream'
      BY <3>1, <3>2 DEF RowFollowsStream, Has
    <3>4. NoneDue
      BY <3>1, StepNotDue
    <3>5. RowIsDue'
      BY <3>1, <3>4 DEF RowIsDue, NoneDue, Has
    <3> QED BY <3>3, <3>5
  <2>5. CASE PlanStep(x)
    <3>1. recorded \subseteq recorded' /\ row' = row
      BY <2>5 DEF PlanStep, RequestPlan, CallPlanner, RecordInvalidPlan, RecordPlan,
                  FailToPrice, Append
    <3>2. NoneDue
      <4>1. CASE CallPlanner(x)
        <5>1. PICK c \in Prices, pc \in {"record", "invalid"} :
                Becomes(x, [x EXCEPT !.pc = pc, !.cost = c])
          BY <4>1 DEF CallPlanner
        <5>2. [x EXCEPT !.pc = pc, !.cost = c].pc = pc
          BY <2>0 DEF Try
        <5> QED BY <5>1, <5>2 DEF Becomes, NoneDue
      <4>2. CASE RequestPlan(x) \/ RecordPlan(x)
        BY <4>2, StepNotDue DEF RequestPlan, RecordPlan
      <4>3. CASE RecordInvalidPlan(x) \/ FailToPrice(x)
        BY <4>3 DEF RecordInvalidPlan, FailToPrice, NoneDue
      <4> QED BY <2>5, <4>1, <4>2, <4>3 DEF PlanStep
    <3> QED BY <3>1, <3>2, RowUntouched
  <2>6. CASE WorkStep(x)
    <3>1. recorded \subseteq recorded' /\ row' = row
      BY <2>6 DEF WorkStep, CallWorker, StartApply, LookBack, ApplyDiff, RecordApply,
                  RecordWork, Append
    <3>2. NoneDue
      <4>1. CASE CallWorker(x)
        <5>1. \/ execs' = execs \ {x}
              \/ \E c \in Prices, pc \in {"start", "complete"} :
                   Becomes(x, [x EXCEPT !.pc = pc, !.cost = c])
          BY <4>1 DEF CallWorker
        <5>2. ASSUME NEW c \in Prices, NEW pc \in {"start", "complete"},
                     Becomes(x, [x EXCEPT !.pc = pc, !.cost = c])
              PROVE  NoneDue
          <6>1. [x EXCEPT !.pc = pc, !.cost = c].pc = pc
            BY <2>0 DEF Try
          <6> QED BY <5>2, <6>1 DEF Becomes, NoneDue
        <5>3. CASE execs' = execs \ {x}
          BY <5>3 DEF NoneDue
        <5> QED BY <5>1, <5>2, <5>3
      <4>2. CASE StartApply(x) \/ LookBack(x) \/ ApplyDiff(x)
        BY <4>2, StepNotDue DEF StartApply, LookBack, ApplyDiff
      <4>3. CASE RecordApply(x) \/ RecordWork(x)
        BY <4>3, StepNotDue DEF RecordApply, RecordWork
      <4> QED BY <2>6, <4>1, <4>2, <4>3 DEF WorkStep
    <3> QED BY <3>1, <3>2, RowUntouched
  <2>7. CASE VerifyStep(x)
    <3>1. recorded \subseteq recorded' /\ row' = row
      BY <2>7 DEF VerifyStep, RequestVerification, RunVerifier, RecordVerdict, Append
    <3>2. NoneDue
      <4>1. CASE RunVerifier(x)
        <5>1. PICK passed \in BOOLEAN :
                Becomes(x, [x EXCEPT !.pc = "record", !.passed = passed,
                                     !.seen = workspace.applied])
          BY <4>1 DEF RunVerifier
        <5> QED BY <2>0, <5>1 DEF Becomes, NoneDue, Try
      <4>2. CASE RequestVerification(x) \/ RecordVerdict(x)
        BY <4>2, StepNotDue DEF RequestVerification, RecordVerdict
      <4> QED BY <2>7, <4>1, <4>2 DEF VerifyStep
    <3> QED BY <3>1, <3>2, RowUntouched
  <2>8. CASE RecordDecision(x) /\ x.action = "retry"
    <3>1. recorded \subseteq recorded' /\ row' = row /\ Step(x, "return")
      BY <2>8 DEF RecordDecision, Append
    <3> QED BY <3>1, StepNotDue, RowUntouched
  <2>9. CASE AnswerStep(x) \/ LoseTry(x)
    <3>1. recorded' = recorded /\ row' = row /\ execs' = execs \ {x}
      BY <2>9 DEF AnswerStep, OnPlan, OnWork, OnVerdict, OnDecision, OnFailureRecorded,
                  IgnoreAnswer, LoseTry, Answer
    <3> QED BY <3>1, RowUntouched DEF NoneDue
  <2> QED BY <1>1, <2>1, <2>2, <2>3, <2>4, <2>5, <2>6, <2>7, <2>8, <2>9
          DEF TryStep, RecordStep
<1>2. CASE NextTry
  <2>1. recorded' = recorded /\ row' = row /\ execs' = execs \cup {NewTry}
        /\ wf.pc \in Activities
    BY <1>2 DEF NextTry
  <2>2. NewTry.pc # "row"
    BY <2>1 DEF NewTry, FirstStep, Activities
  <2> QED BY <2>1, <2>2, RowUntouched DEF NoneDue
<1>3. CASE ActivityError \/ PreSpend \/ EvaluatePolicy \/ ChooseStrategy \/ ProcessDies
           \/ DeadlinePasses
  <2>1. recorded' = recorded /\ row' = row /\ (execs' = execs \/ execs' = {})
    BY <1>3 DEF ActivityError, PreSpend, EvaluatePolicy, ChooseStrategy, ProcessDies,
                DeadlinePasses
  <2> QED BY <2>1, RowUntouched DEF NoneDue
<1> QED BY <1>1, <1>2, <1>3 DEF Next, WorkflowStep

-----------------------------------------------------------------------------
(* The inductive invariant *)

RowInv == TypeOK /\ InStep /\ RowIsDue /\ RowFollowsStream

LEMMA RowInvInit == Init => RowInv
<1> SUFFICES ASSUME Init PROVE RowInv
  OBVIOUS
<1>1. wf \in WorkflowState
  BY RetriesAssumption DEF Init, WorkflowState, Activities, Outcomes, Actions
<1>2. workspace \in [good : BOOLEAN, applied : [Attempts -> Nat]]
  BY DEF Init
<1>3. TypeOK
  BY <1>1, <1>2 DEF Init, TypeOK, FoldedState, Statuses
<1>4. InStep /\ RowIsDue /\ RowFollowsStream
  BY DEF Init, InStep, RowIsDue, RowFollowsStream
<1> QED BY <1>3, <1>4 DEF RowInv

LEMMA RowInvStep == RowInv /\ [Next]_vars => RowInv'
<1> SUFFICES ASSUME RowInv, [Next]_vars PROVE RowInv'
  OBVIOUS
<1> USE DEF RowInv
<1>1. CASE UNCHANGED vars
  BY <1>1 DEF vars, TypeOK, InStep, RowIsDue, RowFollowsStream, Has
<1>2. CASE Next
  <2>1. RowFollowsStream' /\ RowIsDue'
    BY <1>2, RowStep
  <2>2. TypeOK' /\ InStep'
    <3>1. ASSUME NEW x \in execs, TryStep(x) PROVE TypeOK' /\ InStep'
      BY <3>1, TryStepTyped, WorkflowTyped DEF TryStep
    <3>2. ASSUME NEW x \in execs, LoseTry(x) PROVE TypeOK' /\ InStep'
      <4>1. execs' = execs \ {x} /\ wf' = wf
            /\ UNCHANGED <<recorded, folded, row, workspace, spent, late>>
        BY <3>2 DEF LoseTry
      <4> QED BY <4>1, EndTyped, InStepKept DEF TypeOK
    <3>3. CASE WorkflowStep \/ ProcessDies
      BY <3>3, WorkflowTyped
    <3>4. CASE DeadlinePasses
      BY <3>4 DEF DeadlinePasses, TypeOK, InStep
    <3> QED BY <1>2, <3>1, <3>2, <3>3, <3>4 DEF Next
  <2> QED BY <2>1, <2>2
<1> QED BY <1>1, <1>2

\* Whatever tries die, raise, time out or overlap, the workflow, its tries, the
\* stream and its fold, the row and the files keep to the values of TypeOK: no
\* attempt or try beyond the limits, no status the code does not know.
THEOREM CodeTaskTyping == Spec => []TypeOK
<1>1. RowInv => TypeOK
  BY DEF RowInv
<1> QED BY <1>1, RowInvInit, RowInvStep, PTL DEF Spec

\* tasks.status never runs ahead of the stream: an outcome is in the row only
\* after the event that decides it, even when record_decision dies between its
\* two writes, or two tries of it run at once.
THEOREM RowNeverAhead == Spec => []RowFollowsStream
<1>1. RowInv => RowFollowsStream
  BY DEF RowInv
<1> QED BY <1>1, RowInvInit, RowInvStep, PTL DEF Spec

-----------------------------------------------------------------------------
(* The accounted cost *)

Within == IF Estimate <= Budget THEN Budget - Estimate ELSE 0

LEMMA MaxPriceIsHighest == MaxPrice \in Nat /\ \A c \in Prices \cap Nat : c <= MaxPrice
<1>1. \E c \in Prices \cap Nat : \A d \in Prices \cap Nat : d <= c
  BY SomePriceIsHighest
<1>2. MaxPrice \in Prices \cap Nat /\ \A d \in Prices \cap Nat : d <= MaxPrice
  BY <1>1 DEF MaxPrice
<1> QED BY <1>2

\* A step that leaves the cost alone, and starts no work that does not fit.
LEMMA CostKept ==
  ASSUME OverrunBounded, WorkFits, wf'.cost = wf.cost,
         wf'.pc = "work" => wf.pc = "work" \/ (HasBudget => wf.cost + Estimate <= Budget)
  PROVE  OverrunBounded' /\ WorkFits'
BY DEF OverrunBounded, WorkFits, HasBudget, MaxPrice

\* An answer whose activity was started with a cost that fits.
LEMMA AnswerCost ==
  ASSUME wf \in WorkflowState, NEW x \in Try,
         HasBudget => wf.cost = 0 \/ wf.cost + Estimate <= Budget
  PROVE  HasBudget => Account(wf, x).cost <= MaxPrice + Within
<1> SUFFICES ASSUME HasBudget
             PROVE  Account(wf, x).cost <= MaxPrice + Within
  OBVIOUS
<1> DEFINE c == IF x.cost = Unpriced THEN 0 ELSE x.cost
<1>1. c \in Nat /\ c <= MaxPrice
  <2>1. x.cost \in Prices \cup {0}
    BY DEF Try
  <2>2. CASE x.cost = Unpriced
    BY <2>2, MaxPriceIsHighest
  <2>3. CASE x.cost # Unpriced
    <3>1. x.cost \in Nat
      BY <2>1, <2>3, PriceIsNumber
    <3>2. CASE x.cost \in Prices
      BY <2>3, <3>1, <3>2, MaxPriceIsHighest
    <3>3. CASE x.cost = 0
      BY <3>3, MaxPriceIsHighest
    <3> QED BY <2>1, <3>2, <3>3
  <2> QED BY <2>2, <2>3
<1>2. Account(wf, x).cost = wf.cost + c
  BY AccountTyped
<1> HIDE DEF c
<1>3. wf.cost \in Nat /\ Budget \in Nat /\ Estimate \in Nat
  BY BudgetAssumption, PriceAssumption DEF WorkflowState, HasBudget
<1>4. wf.cost <= Within
  BY <1>3 DEF Within
<1> QED BY <1>1, <1>2, <1>3, <1>4, MaxPriceIsHighest DEF Within

LEMMA CostStep ==
  ASSUME TypeOK, InStep, OverrunBounded, WorkFits, Next
  PROVE  OverrunBounded' /\ WorkFits'
<1>0. wf \in WorkflowState
  BY DEF TypeOK
<1>1. ASSUME wf' = wf PROVE OverrunBounded' /\ WorkFits'
  BY <1>1, CostKept
<1>2. ASSUME NEW x \in execs, AnswerStep(x) PROVE OverrunBounded' /\ WorkFits'
  <2>0. x \in Try /\ x.seen \in [Attempts -> Nat]
    BY DEF TypeOK, Try
  <2>1. CASE OnPlan(x)
    <3> DEFINE w == Account(wf, x)
    <3>1. wf' = NextAttempt(w) /\ wf.pc = "plan"
      BY <2>1 DEF OnPlan, Answer, Current
    <3>2. w \in WorkflowState /\ w.attempt <= MaxRetries
      BY <1>0, <2>0, <3>1, AccountTyped, RetriesAssumption DEF InStep
    <3>3. HasBudget => w.cost <= MaxPrice + Within
      BY <1>0, <2>0, <3>1, AnswerCost DEF InStep
    <3> HIDE DEF w
    <3>4. wf'.cost = w.cost /\ wf'.pc = "guard"
      BY <3>1, <3>2, NextAttemptTyped
    <3> QED BY <3>3, <3>4 DEF OverrunBounded, WorkFits, Within, HasBudget, MaxPrice
  <2>2. CASE OnWork(x)
    <3> DEFINE w == Account(wf, x)
    <3>1. wf' = GoTo(w, "verify") /\ wf.pc = "work"
      BY <2>2 DEF OnWork, Answer, Current
    <3>2. w \in WorkflowState
      BY <1>0, <2>0, AccountTyped
    <3>3. HasBudget => w.cost <= MaxPrice + Within
      BY <1>0, <2>0, <3>1, AnswerCost DEF WorkFits
    <3> HIDE DEF w
    <3>4. wf'.cost = w.cost /\ wf'.pc = "verify"
      BY <3>1, <3>2, GoToTyped DEF Activities
    <3> QED BY <3>3, <3>4 DEF OverrunBounded, WorkFits, Within, HasBudget, MaxPrice
  <2>3. CASE OnVerdict(x)
    <3> DEFINE w == GoTo(wf, "policy")
               v == IF x.passed THEN "pass" ELSE "fail"
    <3>1. wf' = [w EXCEPT !.verdict = v, !.seen = x.seen]
      BY <2>3 DEF OnVerdict, Answer
    <3>2. w \in WorkflowState /\ w.pc = "policy" /\ w.cost = wf.cost
      BY <1>0, GoToTyped
    <3> HIDE DEF w, v
    <3>3. wf'.cost = wf.cost /\ wf'.pc = "policy"
      BY <3>1, <3>2 DEF WorkflowState
    <3> QED BY <3>3, CostKept
  <2>4. CASE OnDecision(x)
    <3>1. wf' = Proceed /\ wf.action # "none"
      BY <2>4 DEF OnDecision, Answer, Current, InStep
    <3>2. wf'.cost = wf.cost /\ wf'.pc # "work"
      BY <1>0, <3>1, ProceedTyped
    <3> QED BY <3>2, CostKept
  <2>5. CASE OnFailureRecorded(x)
    <3>1. wf'.cost = wf.cost /\ wf'.pc = "closed"
      BY <1>0, <2>5, CloseTyped DEF OnFailureRecorded, Answer, Outcomes
    <3> QED BY <3>1, CostKept
  <2>6. CASE IgnoreAnswer(x)
    BY <1>1, <2>6 DEF IgnoreAnswer
  <2> QED BY <1>2, <2>1, <2>2, <2>3, <2>4, <2>5, <2>6 DEF AnswerStep
<1>3. CASE NextTry
  <2>1. wf'.cost = wf.cost /\ wf'.pc = wf.pc
    BY <1>0, <1>3 DEF NextTry, WorkflowState
  <2> QED BY <2>1, CostKept
<1>4. CASE ActivityError
  <2>1. wf' = AfterActivityError /\ (wf.pc = "decide" => wf.action # "none")
    BY <1>4 DEF ActivityError, InStep
  <2>2. wf'.cost = wf.cost /\ wf'.pc # "work"
    <3>1. CASE wf.pc \in {"plan", "work", "verify"}
      <4>1. wf' = GoTo(wf, "fail")
        BY <2>1, <3>1 DEF AfterActivityError
      <4> QED BY <1>0, <4>1, GoToTyped DEF Activities
    <3>2. CASE wf.pc = "decide" /\ Lite
      <4>1. wf' = Proceed
        BY <2>1, <3>2 DEF AfterActivityError
      <4> QED BY <1>0, <2>1, <3>2, <4>1, ProceedTyped
    <3>3. CASE wf.pc \notin {"plan", "work", "verify"} /\ ~(wf.pc = "decide" /\ Lite)
      <4>1. wf' = Close(wf, "failed") \/ wf' = Close(wf, "crashed")
        BY <2>1, <3>3 DEF AfterActivityError
      <4> QED BY <1>0, <4>1, CloseTyped DEF Outcomes
    <3> QED BY <3>1, <3>2, <3>3
  <2> QED BY <2>2, CostKept
<1>5. CASE PreSpend
  <2>1. CASE MustHalt
    <3>1. wf' = Decide(wf, "halt")
      BY <1>5, <2>1 DEF PreSpend
    <3>2. wf'.cost = wf.cost /\ wf'.pc = "decide"
      BY <1>0, <3>1, DecideTyped DEF Actions
    <3> QED BY <3>2, CostKept
  <2>2. CASE ~MustHalt
    <3>1. wf' = GoTo(wf, "work")
      BY <1>5, <2>2 DEF PreSpend
    <3>2. wf'.cost = wf.cost
      BY <1>0, <3>1, GoToTyped DEF Activities
    <3>3. HasBudget => wf.cost + Estimate <= Budget
      <4> SUFFICES ASSUME HasBudget PROVE wf.cost + Estimate <= Budget
        OBVIOUS
      <4>1. wf.cost \in Nat /\ Estimate \in Nat /\ Budget \in Nat
        BY <1>0, BudgetAssumption, PriceAssumption DEF WorkflowState, HasBudget
      <4>2. ~(wf.cost + Estimate > Budget)
        BY <2>2 DEF MustHalt
      <4> QED BY <4>1, <4>2
    <3> QED BY <3>2, <3>3, CostKept
  <2> QED BY <2>1, <2>2
<1>6. CASE EvaluatePolicy
  <2>1. Decision \in Actions
    BY DEF Decision, Actions
  <2>2. wf'.cost = wf.cost /\ wf'.pc # "work"
    BY <1>0, <1>6, <2>1, DecideTyped, CloseTyped DEF EvaluatePolicy, Outcomes
  <2> QED BY <2>2, CostKept
<1>7. CASE ChooseStrategy
  <2>1. wf'.cost = wf.cost /\ wf'.pc # "work"
    BY <1>0, <1>7, DecideTyped, LoopBackTyped, CloseTyped
       DEF ChooseStrategy, Outcomes, Actions
  <2> QED BY <2>1, CostKept
<1>8. CASE ProcessDies
  <2>1. wf'.cost = wf.cost /\ wf'.pc = "closed"
    BY <1>0, <1>8, CloseTyped DEF ProcessDies, Outcomes
  <2> QED BY <2>1, CostKept
<1>9. ASSUME NEW x \in execs,
             PlanStep(x) \/ WorkStep(x) \/ VerifyStep(x) \/ RecordStep(x) \/ LoseTry(x)
      PROVE  wf' = wf
  <2>1. PlanStep(x) => wf' = wf
    BY DEF PlanStep, RequestPlan, CallPlanner, RecordInvalidPlan, RecordPlan, FailToPrice
  <2>2. WorkStep(x) => wf' = wf
    BY DEF WorkStep, CallWorker, StartApply, LookBack, ApplyDiff, RecordApply, RecordWork
  <2>3. VerifyStep(x) => wf' = wf
    BY DEF VerifyStep, RequestVerification, RunVerifier, RecordVerdict
  <2>4. RecordStep(x) => wf' = wf
    BY DEF RecordStep, RecordDecision, UpdateRow, RecordFailure, UpdateFailedRow
  <2>5. LoseTry(x) => wf' = wf
    BY DEF LoseTry
  <2> QED BY <1>9, <2>1, <2>2, <2>3, <2>4, <2>5
<1>10. CASE DeadlinePasses
  BY <1>1, <1>10 DEF DeadlinePasses
<1> QED BY <1>1, <1>2, <1>3, <1>4, <1>5, <1>6, <1>7, <1>8, <1>9, <1>10
        DEF Next, WorkflowStep, TryStep

LEMMA CostInit == Init => OverrunBounded /\ WorkFits
<1> SUFFICES ASSUME Init PROVE OverrunBounded /\ WorkFits
  OBVIOUS
<1>1. wf.cost = 0 /\ wf.pc = "plan"
  BY DEF Init
<1>2. HasBudget => 0 <= MaxPrice + Within
  BY MaxPriceIsHighest, BudgetAssumption, PriceAssumption DEF Within, HasBudget
<1> QED BY <1>1, <1>2 DEF OverrunBounded, WorkFits, Within

\* The guard before each step keeps the accounted cost within the budget less the
\* step's estimate, plus what one activity costs, for every price list, budget,
\* estimate and number of retries.
THEOREM CostBounded == Spec => []OverrunBounded
<1> DEFINE Inv == RowInv /\ OverrunBounded /\ WorkFits
<1>1. Init => Inv
  BY RowInvInit, CostInit
<1>2. Inv /\ [Next]_vars => Inv'
  <2> SUFFICES ASSUME Inv, [Next]_vars PROVE Inv'
    OBVIOUS
  <2>1. RowInv'
    BY RowInvStep
  <2>2. CASE UNCHANGED vars
    <3>1. wf' = wf
      BY <2>2 DEF vars
    <3> QED BY <2>1, <3>1, CostKept
  <2>3. CASE Next
    BY <2>1, <2>3, CostStep DEF RowInv
  <2> QED BY <2>2, <2>3
<1>3. Inv => OverrunBounded
  OBVIOUS
<1> HIDE DEF Inv
<1> QED BY <1>1, <1>2, <1>3, PTL DEF Spec
=============================================================================
