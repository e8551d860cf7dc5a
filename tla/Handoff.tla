------------------------------- MODULE Handoff --------------------------------
(***************************************************************************)
(* core/handoff.py: what another model is told when it takes over a task   *)
(* in the middle, read off the event stream alone.  The stream is written  *)
(* by the worker and verifier activities (activities/pipeline.py), which   *)
(* crash and are run again; their appends are keyed and happen once.       *)
(***************************************************************************)
EXTENDS Integers, Sequences, FiniteSets

CONSTANTS HandoffAttempts, \* attempts of the task
          HandoffCrashes   \* crashes of its activities: a bound

ASSUME HandoffAssumption == HandoffAttempts \in Nat \ {0} /\ HandoffCrashes \in Nat

VARIABLES
  log,      \* the stream: [type, attempt]
  turn,     \* the attempt
  doing,    \* the next thing its activities do
  hasDiff,  \* the worker's reply changes files
  touched,  \* files were changed by a worker and not verified since
  verdicts, \* the verdicts that the verifier gave on each attempt
  heard,    \* the last one, which the workflow hears
  crashes

handoffVars == <<log, turn, doing, hasDiff, touched, verdicts, heard, crashes>>

HandoffInit ==
  /\ log = <<>> /\ turn = 1 /\ doing = "model" /\ hasDiff = FALSE /\ touched = FALSE
  /\ verdicts = [a \in 1 .. HandoffAttempts |-> {}] /\ heard = "none" /\ crashes = 0

-----------------------------------------------------------------------------
Entry(type, a) == [type |-> type, attempt |-> a]
InLog(e) == \E i \in DOMAIN log : log[i] = e
Once(type) ==
  log' = IF InLog(Entry(type, turn)) THEN log ELSE Append(log, Entry(type, turn))

\* The model answers, with a diff or without one.
WorkerReplies ==
  /\ doing = "model" /\ hasDiff' \in BOOLEAN
  /\ doing' = IF hasDiff' THEN "announce" ELSE "calls"
  /\ UNCHANGED <<log, turn, touched, verdicts, heard, crashes>>

\* _pre_apply: the start is recorded before the side effect; a result recorded by an
\* earlier try is taken for this one's.
AnnouncesTool ==
  /\ doing = "announce" /\ Once("ToolCallStarted")
  /\ doing' = IF InLog(Entry("ToolCallCompleted", turn)) THEN "calls" ELSE "apply"
  /\ UNCHANGED <<turn, hasDiff, touched, verdicts, heard, crashes>>

AppliesDiff ==
  /\ doing = "apply" /\ touched' = TRUE /\ doing' = "calls"
  /\ UNCHANGED <<log, turn, hasDiff, verdicts, heard, crashes>>

RecordsCalls ==
  /\ doing = "calls" /\ Once("ModelCallCompleted")
  /\ doing' = IF hasDiff THEN "tooldone" ELSE "result"
  /\ UNCHANGED <<turn, hasDiff, touched, verdicts, heard, crashes>>

RecordsTool ==
  /\ doing = "tooldone" /\ Once("ToolCallCompleted") /\ doing' = "result"
  /\ UNCHANGED <<turn, hasDiff, touched, verdicts, heard, crashes>>

RecordsResult ==
  /\ doing = "result" /\ Once("WorkerCompleted") /\ doing' = "request"
  /\ UNCHANGED <<turn, hasDiff, touched, verdicts, heard, crashes>>

\* run_verifier. A second run of flaky tests, on the same files, may give the other verdict,
\* which has a key of its own.
RequestsVerdict ==
  /\ doing = "request" /\ Once("VerificationRequested") /\ doing' = "verify"
  /\ UNCHANGED <<turn, hasDiff, touched, verdicts, heard, crashes>>

RecordsVerdict ==
  /\ doing = "verify" /\ doing' = "decide" /\ touched' = FALSE
  /\ \E v \in {"passed", "failed"} :
       /\ heard' = v /\ verdicts' = [verdicts EXCEPT ![turn] = @ \cup {v}]
       /\ Once(IF v = "passed" THEN "VerificationPassed" ELSE "VerificationFailed")
  /\ UNCHANGED <<turn, hasDiff, crashes>>

\* record_decision: a failed attempt is tried again, given up or out of budget.
RecordsDecision ==
  /\ doing = "decide"
  /\ IF heard = "passed" THEN Once("TaskCompleted") /\ doing' = "over" /\ turn' = turn
     ELSE \/ /\ turn < HandoffAttempts /\ Once("RetryScheduled")
             /\ turn' = turn + 1 /\ doing' = "model"
          \/ \E end \in {"NeedsHumanReview", "BudgetExceeded"} :
                Once(end) /\ doing' = "over" /\ turn' = turn
  /\ UNCHANGED <<hasDiff, touched, verdicts, heard, crashes>>

\* The process dies, at the latest before Temporal has heard the verdict; the activity is
\* run again from its beginning.
Dies ==
  /\ crashes < HandoffCrashes /\ crashes' = crashes + 1
  /\ \/ doing \in {"announce", "apply", "calls", "tooldone", "result"} /\ doing' = "model"
     \/ doing \in {"verify", "decide"} /\ doing' = "request"
  /\ UNCHANGED <<log, turn, hasDiff, touched, verdicts, heard>>

HandoffNext ==
  \/ WorkerReplies \/ AnnouncesTool \/ AppliesDiff \/ RecordsCalls \/ RecordsTool \/ RecordsResult
  \/ RequestsVerdict \/ RecordsVerdict \/ RecordsDecision \/ Dies

HandoffSpec == HandoffInit /\ [][HandoffNext]_handoffVars

-----------------------------------------------------------------------------
\* The last of some places, 0 if there is none; that of the latest event of some types.
LastOf(at) == IF at = {} THEN 0 ELSE CHOOSE i \in at : \A j \in at : j <= i
Latest(types) == LastOf({i \in DOMAIN log : log[i].type \in types})

Judgments == {"VerificationPassed", "VerificationFailed"}
LatestVerdict == Latest(Judgments)
VerdictAt(i) == IF i = 0 THEN "none"
                ELSE IF log[i].type = "VerificationPassed" THEN "passed" ELSE "failed"

Pending(pending, state) == [kind |-> pending, status |-> state]

\* Mutant: a tool whose start is on record counts as done once calls are recorded after it.
IgnoreEarlierStart ==
  Latest({"ToolCallStarted"}) > Latest({"ToolCallCompleted", "ModelCallCompleted"})

\* The latest tool start has no result.
ToolOpen == Latest({"ToolCallStarted"}) > Latest({"ToolCallCompleted"})

\* classify_interruption: the checks in their order, the first that holds.
Interruption ==
  LET done    == Latest({"ToolCallCompleted"})
      worker  == Latest({"WorkerCompleted"})
      request == Latest({"VerificationRequested"})
      retry   == Latest({"RetryScheduled", "BudgetExceeded", "DeadlineExceeded"})
      verdict == LatestVerdict
  IN CASE ToolOpen -> Pending("tool", "in-flight")
       [] ~ToolOpen /\ request > verdict ->
            Pending("verification", IF worker > verdict THEN "completed-unconfirmed" ELSE "in-flight")
       [] ~ToolOpen /\ request <= verdict /\ done > worker /\ done > verdict ->
            Pending("tool", "completed-unconfirmed")
       [] ~ToolOpen /\ request <= verdict /\ ~(done > worker /\ done > verdict) /\ worker > verdict ->
            Pending("model", "completed-unconfirmed")
       [] OTHER -> IF retry > Latest({"ModelCallCompleted"}) /\ retry > verdict
                   THEN Pending("model", "never-started") ELSE Pending("none", "never-started")

\* advise_switch: may another model take over now, and how.
Advice(p) ==
  CASE p.kind = "none" -> "next-turn-anywhere"
    [] p.kind # "none" /\ p.status = "never-started" -> "retry-same-request-on-B"
    [] OTHER -> "discard-partial-retry-whole-turn"
Safe == Advice(Interruption) # "discard-partial-retry-whole-turn"

\* _attempts_from_events: the attempts whose worker has answered, each with its latest
\* verdict.
Attempted ==
  [a \in {log[i].attempt : i \in {j \in DOMAIN log : log[j].type = "WorkerCompleted"}} |->
     VerdictAt(LastOf({i \in DOMAIN log : log[i].attempt = a /\ log[i].type \in Judgments}))]

\* build_handoff: what the next model is given.
Handed ==
  [attempts |-> Attempted,
   last_verdict |-> VerdictAt(LatestVerdict),
   next |-> Advice(Interruption)]

-----------------------------------------------------------------------------
\* A model that is told it may take over finds no file changed by an unverified turn:
\* crashes between the announcement, the change and its record included
\* (handoff.py:26-33).
SafeMeansUntouched == Safe => ~touched

\* v is a verdict on attempt a, or a has none.
Given(v, a) == IF verdicts[a] = {} THEN v = "none" ELSE v \in verdicts[a]

\* The digest is the history: each attempt that answered has a verdict it got, and the last
\* verdict is one on the last attempt that has any.
HandedIsTrue ==
  /\ \A a \in DOMAIN Handed.attempts : Given(Handed.attempts[a], a)
  /\ \E a \in 1 .. turn :
       /\ Given(Handed.last_verdict, a)
       /\ \A b \in 1 .. turn : (b > a \/ verdicts[a] = {}) => verdicts[b] = {}

\* What core/handoff.py hands over is so, wherever the activities died: both of the above.
HandoffIsSound == SafeMeansUntouched /\ HandedIsTrue

\* handoff.py:188 "Turn boundary (nothing half-finished)".
SafeIsBetweenTurns ==
  Safe => \A a \in 1 .. turn :
            InLog(Entry("ModelCallCompleted", a)) => InLog(Entry("WorkerCompleted", a))

\* handoff.py:30 "at a completed turn boundary (verdict recorded) -> next turn anywhere".
BoundariesAreSafe == (doing = "over" \/ doing = "decide") => Safe

\* handoff.py:265 "LAST VERDICT": the verdict handed over as the last is the one that the
\* attempt was decided by.
DecidedByTheLast == doing = "over" => Handed.last_verdict = heard
===============================================================================
