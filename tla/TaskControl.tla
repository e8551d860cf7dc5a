---------------------------- MODULE TaskControl ----------------------------
(***************************************************************************)
(* Everybody who acts on one task besides the workflow that runs it:       *)
(* create_task, reconcile_pending and review_task of core/tasks.py,        *)
(* halt_task of core/sweep.py and cancel_task of api/app.py.  They share   *)
(* tasks.status (the row) and the event stream, take no lock, and write    *)
(* the two one after the other.                                            *)
(*                                                                         *)
(* The workflow is reduced to what the others see of it: it runs, records  *)
(* a verdict in the stream, then in the row, and closes (CodeTask has the  *)
(* rest).  Temporal refuses to start a workflow whose id is running and    *)
(* accepts one whose last run is closed.                                   *)
(***************************************************************************)
EXTENDS Naturals, FiniteSets

CONSTANTS Paths,      \* ways a run of the workflow may go: which attempts fail
          Reviewers,  \* humans acting through review_task
          Sweepers,   \* processes running run_sweep with halt_stale
          Cancels,    \* somebody may cancel the task
          Reconciles, \* somebody runs reconcile_pending now and then
          Crashes     \* the processes of the others may die between two writes

ASSUME PathsAssumption == 0 \notin Paths
ASSUME ReviewersAssumption == IsFiniteSet(Reviewers)
ASSUME FlagsAssumption == {Cancels, Reconciles, Crashes} \subseteq BOOLEAN

VARIABLES row,         \* tasks.status
          recorded,    \* events of the stream: kind, and path of the run it is keyed by
          status,      \* the status rebuild_state gives
          runner,      \* the task's Temporal workflow
          starts,      \* ghost: how often the workflow has been started (2: more than once)
          creator,     \* the create_task call
          reconciler,  \* one reconcile_pending loop
          sweeper,     \* what each sweeper is about to do
          reviewer     \* what each reviewer is about to do

vars == <<row, recorded, status, runner, starts, creator, reconciler, sweeper, reviewer>>

Verdicts == {"completed", "needs_human_review", "halted", "failed"}
HumanVerdicts == {"human_approved", "human_rejected"}
Rows == {"none", "pending", "schedule_failed"} \cup Verdicts \cup HumanVerdicts

\* Status after each kind of event.
StatusOf(kind) ==
  CASE kind = "created" -> "pending"
    [] kind = "progress" -> "in_progress"
    [] kind = "swept" -> "failed"
    [] OTHER -> kind

\* EventStore.append and the fold.  The workflow's keys hold the attempt, so a
\* second run records again what goes another way than in the first, and only
\* that.  reconcile_pending makes a fresh key for every ScheduleFailed.
RecordEvent(kind, path) ==
  /\ recorded' = recorded \cup {<<kind, path>>}
  /\ status' = IF <<kind, path>> \in recorded /\ kind # "schedule_failed" THEN status
               ELSE StatusOf(kind)

Outside == 0   \* the path of events no run has written
Has(kind) == \E e \in recorded : e[1] = kind

Live == runner.pc \in {"running", "recorded"}

-----------------------------------------------------------------------------
(* create_task *)

InsertRow ==
  /\ creator = "insert"
  /\ row' = "pending"
  /\ creator' = "event"
  /\ UNCHANGED <<recorded, status, runner, starts, reconciler, sweeper, reviewer>>

AppendCreated ==
  /\ creator = "event"
  /\ RecordEvent("created", Outside)
  /\ creator' = "start"
  /\ UNCHANGED <<row, runner, starts, reconciler, sweeper, reviewer>>

StartRunner ==
  /\ ~Live
  /\ \E p \in Paths : runner' = [pc |-> "running", verdict |-> "none", path |-> p]
  /\ starts' = IF starts = 0 THEN 1 ELSE 2

\* start_task_workflow: the reply of a start that took effect may be lost.
StartTask ==
  /\ creator = "start"
  /\ \/ StartRunner /\ creator' \in {"done", "record"}
     \/ UNCHANGED <<runner, starts>> /\ creator' = "record"
  /\ UNCHANGED <<row, recorded, status, reconciler, sweeper, reviewer>>

RecordScheduleFailed ==
  /\ creator = "record"
  /\ RecordEvent("schedule_failed", Outside)
  /\ creator' = "row"
  /\ UNCHANGED <<row, runner, starts, reconciler, sweeper, reviewer>>

MarkScheduleFailed ==
  /\ creator = "row"
  /\ row' = "schedule_failed"
  /\ creator' = "done"
  /\ UNCHANGED <<recorded, status, runner, starts, reconciler, sweeper, reviewer>>

CreatorDies ==
  /\ Crashes
  /\ creator \in {"event", "start", "record", "row"}
  /\ creator' = "dead"
  /\ UNCHANGED <<row, recorded, status, runner, starts, reconciler, sweeper, reviewer>>

-----------------------------------------------------------------------------
(* The workflow *)

Work ==
  /\ runner.pc = "running"
  /\ RecordEvent("progress", runner.path)
  /\ UNCHANGED <<row, runner, starts, creator, reconciler, sweeper, reviewer>>

\* Mutant: the verdict reaches the row and not the stream.
RecordNothing ==
  /\ runner.pc = "running"
  /\ \E v \in Verdicts : runner' = [runner EXCEPT !.pc = "recorded", !.verdict = v]
  /\ UNCHANGED <<row, recorded, status, starts, creator, reconciler, sweeper, reviewer>>

RecordVerdict ==
  /\ runner.pc = "running"
  /\ <<"progress", runner.path>> \in recorded
  /\ \E v \in Verdicts :
        /\ RecordEvent(v, runner.path)
        /\ runner' = [runner EXCEPT !.pc = "recorded", !.verdict = v]
  /\ UNCHANGED <<row, starts, creator, reconciler, sweeper, reviewer>>

UpdateRow ==
  /\ runner.pc = "recorded"
  /\ row' = runner.verdict
  /\ runner' = [runner EXCEPT !.pc = "closed"]
  /\ UNCHANGED <<recorded, status, starts, creator, reconciler, sweeper, reviewer>>

\* The run ends and nothing more is written: the process that should write the row
\* dies or raises for good, and what _fail or the in-process runner cannot
\* record is dropped.
RunFails ==
  /\ Live
  /\ runner' = [runner EXCEPT !.pc = "failed"]
  /\ UNCHANGED <<row, recorded, status, starts, creator, reconciler, sweeper, reviewer>>

-----------------------------------------------------------------------------
(* reconcile_pending *)

\* created_at < NOW() - max_age_minutes: registration is over by then.
OldEnough == creator \in {"done", "dead"}

\* Mutant: the reconciler looks for schedule_failed rows only.
SelectFailedOnly ==
  /\ Reconciles /\ reconciler = "idle"
  /\ row = "schedule_failed" /\ OldEnough
  /\ reconciler' = "start"
  /\ UNCHANGED <<row, recorded, status, runner, starts, creator, sweeper, reviewer>>

SelectPending ==
  /\ Reconciles /\ reconciler = "idle"
  /\ row \in {"pending", "schedule_failed"} /\ OldEnough
  /\ reconciler' = "start"
  /\ UNCHANGED <<row, recorded, status, runner, starts, creator, sweeper, reviewer>>

Restart ==
  /\ reconciler = "start"
  /\ StartRunner
  /\ reconciler' = "idle"
  /\ UNCHANGED <<row, recorded, status, creator, sweeper, reviewer>>

\* Temporal is down, or says that the workflow is already running.
RestartFails ==
  /\ reconciler = "start"
  /\ reconciler' = "record"
  /\ UNCHANGED <<row, recorded, status, runner, starts, creator, sweeper, reviewer>>

RecordRestartFailed ==
  /\ reconciler = "record"
  /\ RecordEvent("schedule_failed", Outside)
  /\ reconciler' = "idle"
  /\ UNCHANGED <<row, runner, starts, creator, sweeper, reviewer>>

-----------------------------------------------------------------------------
(* run_sweep, halt_task *)

\* find_stale_tasks: ACTIVE_STATUSES and an old created_at.
SelectStale(s) ==
  /\ sweeper[s] = "idle"
  /\ row \in {"pending", "schedule_failed"} /\ OldEnough
  /\ sweeper' = [sweeper EXCEPT ![s] = "event"]
  /\ UNCHANGED <<row, recorded, status, runner, starts, creator, reconciler, reviewer>>

HaltEvent(s) ==
  /\ sweeper[s] = "event"
  /\ RecordEvent("swept", Outside)
  /\ sweeper' = [sweeper EXCEPT ![s] = "row"]
  /\ UNCHANGED <<row, runner, starts, creator, reconciler, reviewer>>

HaltRow(s) ==
  /\ sweeper[s] = "row"
  /\ row' = "failed"
  /\ sweeper' = [sweeper EXCEPT ![s] = "idle"]
  /\ UNCHANGED <<recorded, status, runner, starts, creator, reconciler, reviewer>>

-----------------------------------------------------------------------------
(* review_task: the status is checked, then the row, then the stream *)

\* Mutant: any verdict may be reviewed.
CheckAnyVerdict(r) ==
  /\ reviewer[r].pc = "idle"
  /\ row \in Verdicts
  /\ \E v \in HumanVerdicts : reviewer' = [reviewer EXCEPT ![r] = [pc |-> "row", verdict |-> v]]
  /\ UNCHANGED <<row, recorded, status, runner, starts, creator, reconciler, sweeper>>

CheckEscalated(r) ==
  /\ reviewer[r].pc = "idle"
  /\ row = "needs_human_review"
  /\ \E v \in HumanVerdicts : reviewer' = [reviewer EXCEPT ![r] = [pc |-> "row", verdict |-> v]]
  /\ UNCHANGED <<row, recorded, status, runner, starts, creator, reconciler, sweeper>>

ReviewRow(r) ==
  /\ reviewer[r].pc = "row"
  /\ row' = reviewer[r].verdict
  /\ reviewer' = [reviewer EXCEPT ![r].pc = "event"]
  /\ UNCHANGED <<recorded, status, runner, starts, creator, reconciler, sweeper>>

ReviewEvent(r) ==
  /\ reviewer[r].pc = "event"
  /\ RecordEvent(reviewer[r].verdict, Outside)
  /\ reviewer' = [reviewer EXCEPT ![r].pc = "done"]
  /\ UNCHANGED <<row, runner, starts, creator, reconciler, sweeper>>

ReviewerDies(r) ==
  /\ Crashes
  /\ reviewer[r].pc \in {"row", "event"}
  /\ reviewer' = [reviewer EXCEPT ![r].pc = "dead"]
  /\ UNCHANGED <<row, recorded, status, runner, starts, creator, reconciler, sweeper>>

-----------------------------------------------------------------------------
(* cancel_task: the workflow is terminated, which runs none of its code *)

Cancel ==
  /\ Cancels
  /\ Live
  /\ runner' = [runner EXCEPT !.pc = "terminated"]
  /\ UNCHANGED <<row, recorded, status, starts, creator, reconciler, sweeper, reviewer>>

-----------------------------------------------------------------------------
Init ==
  /\ row = "none"
  /\ recorded = {}
  /\ status = "unknown"
  /\ runner = [pc |-> "none", verdict |-> "none", path |-> Outside]
  /\ starts = 0
  /\ creator = "insert"
  /\ reconciler = "idle"
  /\ sweeper = [s \in Sweepers |-> "idle"]
  /\ reviewer = [r \in Reviewers |-> [pc |-> "idle", verdict |-> "none"]]

Create ==
  InsertRow \/ AppendCreated \/ StartTask \/ RecordScheduleFailed \/ MarkScheduleFailed
Run == Work \/ RecordVerdict \/ UpdateRow \/ RunFails
Reconcile == SelectPending \/ Restart \/ RestartFails \/ RecordRestartFailed
Sweep(s) == SelectStale(s) \/ HaltEvent(s) \/ HaltRow(s)
Review(r) == CheckEscalated(r) \/ ReviewRow(r) \/ ReviewEvent(r)

Next ==
  \/ Create \/ CreatorDies
  \/ Run
  \/ Reconcile
  \/ \E s \in Sweepers : Sweep(s)
  \/ \E r \in Reviewers : Review(r) \/ ReviewerDies(r)
  \/ Cancel

Spec == Init /\ [][Next]_vars

\* Calls and workflows that are not killed go on; reconcile runs again and again
\* and Temporal is up often enough for one of its starts to succeed.
FairSpec ==
  /\ Spec
  /\ WF_vars(Create)
  /\ WF_vars(Work) /\ WF_vars(RecordVerdict) /\ WF_vars(UpdateRow)
  /\ WF_vars(SelectPending) /\ WF_vars(RecordRestartFailed) /\ SF_vars(Restart)
  /\ WF_vars(RestartFails)

-----------------------------------------------------------------------------
(* Properties *)

\* Every variable stays within the values the code can give it.
TypeOK ==
  /\ row \in Rows /\ (row = "none" => creator = "insert")
  /\ recorded \subseteq ({"created", "progress", "swept", "schedule_failed"}
                            \cup Verdicts \cup HumanVerdicts) \X (Paths \cup {Outside})
  /\ status \in {"unknown", "in_progress"} \cup (Rows \ {"none"})
  /\ runner \in [pc : {"none", "running", "recorded", "closed", "failed",
                       "terminated"},
                 verdict : Verdicts \cup {"none"}, path : Paths \cup {Outside}]
  /\ starts \in 0..2
  /\ creator \in {"insert", "event", "start", "record", "row", "done", "dead"}
  /\ reconciler \in {"idle", "start", "record"}
  /\ sweeper \in [Sweepers -> {"idle", "event", "row"}]
  /\ reviewer \in [Reviewers -> [pc : {"idle", "row", "event", "done", "dead"},
                                 verdict : HumanVerdicts \cup {"none"}]]

\* A human verdict is only ever given on an escalated task: whatever the others
\* do to the row meanwhile, the stream has the escalation.
HumanJudgesEscalated ==
  row \in HumanVerdicts \/ (\E v \in HumanVerdicts : Has(v)) => Has("needs_human_review")

\* The row shows no machine verdict that the stream cannot account for, whoever
\* wrote it and whoever died.
RowIsBacked ==
  row \in Verdicts => Has(row) \/ (row = "failed" /\ Has("swept"))

Quiet ==
  /\ ~Live /\ creator \in {"done", "dead"} /\ reconciler = "idle"
  /\ \A r \in Reviewers : reviewer[r].pc \in {"idle", "done"}
  /\ \A s \in Sweepers : sweeper[s] = "idle"

\* When everybody has finished, the row and the stream agree on the verdict, but
\* for the races named here: the task was run twice, swept while it ran, reviewed
\* by two humans at once, or a start whose reply was lost was put down as one that
\* failed.  A run that failed or was terminated may leave a row behind the stream,
\* never one that is ahead of it or beside it: the row is then still pending.
CacheAgrees ==
  /\ Quiet /\ starts = 1 /\ ~Has("swept") /\ "schedule_failed" \notin {row, status}
  /\ Cardinality({r \in Reviewers : reviewer[r].pc = "done"}) < 2
  => row = status \/ (runner.pc # "closed" /\ row = "pending")

\* tasks.status is what the stream says of the task, as far as several writers without
\* a lock can keep it so.
RowIsHonest == RowIsBacked /\ CacheAgrees

\* A registered task never stays without a workflow.
EventuallyStarted == (row \in {"pending", "schedule_failed"} /\ starts = 0) ~> starts > 0

(* Statements of the sources that the code does not keep *)

\* core/sweep.py: a verdict already recorded must never be swept.
SweepsOnlyActive ==
  [][\A s \in Sweepers : sweeper[s] = "event" /\ sweeper'[s] = "row"
        => row \notin Verdicts \cup HumanVerdicts]_vars

\* activities/pipeline.py: the API never shows a dead task as active for ever.
RowKeepsUp == Quiet /\ starts = 1 /\ ~Has("swept") /\ row = "pending" => status = "pending"

\* core/state.py: ScheduleFailed means registered but never ran.
ScheduleFailedNeverRan == status = "schedule_failed" => starts = 0

\* core/tasks.py: reconcile re-schedules tasks whose workflow never started.
RestartsOnlyUnstarted ==
  [][reconciler = "start" /\ runner'.pc = "running" /\ ~Live => starts = 0]_vars

\* core/tasks.py: the audit trail can never confuse two verdicts; a review's
\* status is the verdict its event records.
ReviewAgrees == Quiet /\ row \in HumanVerdicts => status = row

\* api/app.py: a cancelled task's own machinery records the terminal state.
CancelIsRecorded ==
  runner.pc = "terminated" ~> \E v \in Verdicts \cup {"swept"} : Has(v)

=============================================================================
