-------------------------------- MODULE Doors ---------------------------------
(***************************************************************************)
(* The doors of one installation: the HTTP API (api/app.py, and the SDK    *)
(* that posts to it), the command line (cli.py) and the MCP server         *)
(* (mcp/server.py).  Each starts, cancels, judges and re-runs tasks and    *)
(* keeps schedules, on the full stack through Temporal, in lite mode       *)
(* inside the process; each has an answer of its own for what came of it.  *)
(***************************************************************************)
EXTENDS Naturals, FiniteSets

CONSTANTS DoorTasks,     \* task ids, in the order they are given out
          DoorSchedules  \* schedule ids

ASSUME DoorAssumption == DoorTasks \in SUBSET Nat /\ IsFiniteSet(DoorTasks)

VARIABLES
  mode,      \* "full" or "lite": the DSN tells
  temporal,  \* Temporal can be reached
  doorRow,   \* tasks.status of each id, "none" before it is registered
  said,      \* the last event of each id: "none", "created", "schedule_failed", "judged", "ended"
  flow,      \* its workflow or in-process runner: "none", "running" or "over"
  opened,    \* the door that is creating the task, "none" before,
             \* "closed" after it on the shared path, "left" on the command's own
  schedules, \* "none", "active" or "paused"
  answer     \* [op, of: the id it was about, gave] of the call that just ended

doorVars == <<mode, temporal, doorRow, said, flow, opened, schedules, answer>>

NobodyAsked == [op |-> "none", of |-> 0, gave |-> "none"]
Answers(op, id, gave) == answer' = [op |-> op, of |-> id, gave |-> gave]

DoorInit ==
  /\ mode \in {"full", "lite"} /\ temporal = (mode = "full")
  /\ doorRow = [t \in DoorTasks |-> "none"] /\ said = [t \in DoorTasks |-> "none"]
  /\ flow = [t \in DoorTasks |-> "none"] /\ opened = [t \in DoorTasks |-> "none"]
  /\ schedules = [s \in DoorSchedules |-> "none"] /\ answer = NobodyAsked

TasksKept == UNCHANGED <<doorRow, said, flow, opened>>

-----------------------------------------------------------------------------
\* External: Temporal goes and comes back.
TemporalFlips ==
  /\ mode = "full" /\ temporal' = ~temporal /\ answer' = NobodyAsked
  /\ TasksKept /\ UNCHANGED <<mode, schedules>>

\* A run comes to its end.
RunEnds(t) ==
  /\ flow[t] = "running"
  /\ flow' = [flow EXCEPT ![t] = "over"] /\ said' = [said EXCEPT ![t] = "ended"]
  /\ \E s \in {"completed", "needs_human_review"} : doorRow' = [doorRow EXCEPT ![t] = s]
  /\ answer' = NobodyAsked /\ UNCHANGED <<mode, temporal, opened, schedules>>

\* Registered: a row and a TaskCreated event.
Registers(door, t) ==
  /\ doorRow' = [doorRow EXCEPT ![t] = "pending"] /\ said' = [said EXCEPT ![t] = "created"]
  /\ opened' = [opened EXCEPT ![t] = door] /\ answer' = NobodyAsked
  /\ UNCHANGED <<mode, temporal, flow, schedules>>

NextId(t) == doorRow[t] = "none" /\ \A u \in DoorTasks : doorRow[u] = "none" => t <= u

\* The parameters are checked first: an unknown verifier, a graph that cannot run.
RefusesTask(t) ==
  /\ NextId(t) /\ Answers("create", t, "refused")
  /\ TasksKept /\ UNCHANGED <<mode, temporal, schedules>>

\* POST /tasks, POST /graphs and the SDK's create_task.
PostTask(t) == NextId(t) /\ Registers("api", t)

McpTask(t) == NextId(t) /\ Registers("mcp", t)

\* POST /tasks/{id}/rerun: a new task, whatever the old one does.
RerunTask(t) ==
  /\ NextId(t)
  /\ \E old \in DoorTasks \cup {0} :
       IF old # 0 /\ doorRow[old] # "none" THEN Registers("api", t)
       ELSE /\ Answers("rerun", t, "missing") /\ TasksKept /\ UNCHANGED <<mode, temporal, schedules>>

\* `bucker start' needs the full stack and has a path of its own.
StartCommand(t) ==
  /\ NextId(t)
  /\ IF mode = "full" THEN Registers("cli", t)
     ELSE /\ Answers("create", t, "hint") /\ TasksKept /\ UNCHANGED <<mode, temporal, schedules>>

\* Mutant: a task that cannot be scheduled is only told to the caller.
LeaveUnscheduled(t) == UNCHANGED <<doorRow, said>>

\* create_task's last resort: the failure is recorded, in the stream and in the row.
RecordUnscheduled(t) ==
  /\ doorRow' = [doorRow EXCEPT ![t] = "schedule_failed"]
  /\ said' = [said EXCEPT ![t] = "schedule_failed"]

\* The shared path goes on: the runner, or the workflow, is started.
StartShared(t) ==
  /\ opened[t] \in {"api", "mcp"} /\ opened' = [opened EXCEPT ![t] = "closed"]
  /\ IF mode = "lite" \/ temporal
     THEN /\ flow' = [flow EXCEPT ![t] = "running"] /\ Answers("create", t, "done")
          /\ UNCHANGED <<doorRow, said>>
     ELSE /\ RecordUnscheduled(t) /\ Answers("create", t, "not scheduled") /\ UNCHANGED flow
  /\ UNCHANGED <<mode, temporal, schedules>>

\* The command's: without Temporal it ends in a traceback.
StartFromCommand(t) ==
  /\ opened[t] = "cli" /\ opened' = [opened EXCEPT ![t] = "left"]
  /\ IF temporal THEN flow' = [flow EXCEPT ![t] = "running"] /\ Answers("create", t, "done")
     ELSE UNCHANGED flow /\ Answers("create", t, "raised")
  /\ UNCHANGED <<mode, temporal, doorRow, said, schedules>>

\* `bucker reconcile': what is registered and seems not to have started is started; one
\* that runs already cannot be, and that is recorded as a failure too.
ReconcileCommand(t) ==
  /\ mode = "full" /\ doorRow[t] \in {"pending", "schedule_failed"} /\ opened[t] \in {"closed", "left"}
  /\ IF temporal /\ flow[t] # "running"
     THEN flow' = [flow EXCEPT ![t] = "running"] /\ UNCHANGED said
     ELSE said' = [said EXCEPT ![t] = "schedule_failed"] /\ UNCHANGED flow
  /\ Answers("reconcile", t, IF temporal /\ flow[t] # "running" THEN "done" ELSE "failed")
  /\ UNCHANGED <<mode, temporal, doorRow, opened, schedules>>

-----------------------------------------------------------------------------
\* Terminating a workflow, from either door that does it; the ten seconds it is given
\* may pass after Temporal has done it.
TerminateFlow(t) ==
  \/ /\ temporal /\ flow[t] = "running"
     /\ flow' = [flow EXCEPT ![t] = "over"] /\ \E gave \in {"done", "failed"} : Answers("cancel", t, gave)
  \/ temporal /\ flow[t] # "running" /\ UNCHANGED flow /\ Answers("cancel", t, "missing")
  \/ ~temporal /\ UNCHANGED flow /\ Answers("cancel", t, "failed")

\* POST /tasks/{id}/cancel.  In lite mode awaiting the cancelled runner raises.
CancelTask(t) ==
  /\ IF mode = "full" THEN TerminateFlow(t)
     ELSE IF flow[t] = "running"
     THEN flow' = [flow EXCEPT ![t] = "over"] /\ Answers("cancel", t, "raised")
     ELSE UNCHANGED flow /\ Answers("cancel", t, "missing")
  /\ UNCHANGED <<mode, temporal, doorRow, said, opened, schedules>>

\* cancel_task_tool asks Temporal in either mode and tells a missing workflow from
\* other failures no more.
McpCancel(t) ==
  /\ \/ /\ temporal /\ flow[t] = "running"
        /\ flow' = [flow EXCEPT ![t] = "over"]
        /\ \E gave \in {"done", "failed"} : Answers("cancel", t, gave)
     \/ ~(temporal /\ flow[t] = "running") /\ UNCHANGED flow /\ Answers("cancel", t, "failed")
  /\ UNCHANGED <<mode, temporal, doorRow, said, opened, schedules>>

\* POST /tasks/{id}/approve and /reject.
JudgeTask(t) ==
  /\ IF doorRow[t] = "needs_human_review"
     THEN /\ \E s \in {"human_approved", "human_rejected"} : doorRow' = [doorRow EXCEPT ![t] = s]
          /\ said' = [said EXCEPT ![t] = "judged"] /\ Answers("judge", t, "done")
     ELSE /\ UNCHANGED <<doorRow, said>>
          /\ Answers("judge", t, IF doorRow[t] = "none" THEN "missing" ELSE "failed")
  /\ UNCHANGED <<mode, temporal, flow, opened, schedules>>

-----------------------------------------------------------------------------
\* Where a schedule is kept can be reached.
Keeper == mode = "lite" \/ temporal

\* create_schedule behind every door; an id that exists is replaced, and is active then.
PutsSchedule(s) ==
  schedules' = [schedules EXCEPT ![s] = "active"] /\ Answers("schedule", s, "done")

\* POST /schedules: an unknown template is refused; a bad cron expression in lite mode
\* too, on the full stack Temporal refuses it and the answer is that of any failure.
PostSchedule(s) ==
  /\ \/ Keeper /\ PutsSchedule(s)
     \/ UNCHANGED schedules /\ \/ Answers("schedule", s, "refused")
                               \/ mode = "full" /\ Answers("schedule", s, "failed")
  /\ TasksKept /\ UNCHANGED <<mode, temporal>>

\* `bucker schedules create': everything but an unknown template reads as Temporal's absence.
CreateCommand(s) ==
  /\ \/ Keeper /\ PutsSchedule(s)
     \/ UNCHANGED schedules /\ \/ Answers("schedule", s, "refused")
                               \/ mode = "full" /\ Answers("schedule", s, "unreachable")
  /\ TasksKept /\ UNCHANGED <<mode, temporal>>

\* create_schedule_tool.
McpSchedule(s) ==
  /\ \/ Keeper /\ PutsSchedule(s)
     \/ UNCHANGED schedules /\ \E gave \in {"refused", "failed"} : Answers("schedule", s, gave)
  /\ TasksKept /\ UNCHANGED <<mode, temporal>>

\* delete_schedule of either keeper: what was not there is told apart.
Removes(s) ==
  /\ schedules' = [schedules EXCEPT ![s] = "none"]
  /\ Answers("delete", s, IF schedules[s] = "none" THEN "missing" ELSE "done")

DeleteSchedule(s) ==
  /\ IF Keeper THEN Removes(s) ELSE UNCHANGED schedules /\ Answers("delete", s, "unreachable")
  /\ TasksKept /\ UNCHANGED <<mode, temporal>>

DeleteCommand(s) == DeleteSchedule(s)

\* delete_schedule_tool lets an exception through.
McpDelete(s) ==
  /\ IF Keeper THEN Removes(s) ELSE UNCHANGED schedules /\ Answers("delete", s, "raised")
  /\ TasksKept /\ UNCHANGED <<mode, temporal>>

\* Mutant: a pause is taken for done, whatever it found.
PauseBlindly(s, to) ==
  /\ schedules' = [schedules EXCEPT ![s] = IF @ = "none" THEN @ ELSE to]
  /\ Answers("pause", s, "done")

\* Lite mode tells what it did not find; Temporal's NOT_FOUND passes for its absence.
Pauses(s, to) ==
  IF schedules[s] # "none" /\ Keeper
  THEN schedules' = [schedules EXCEPT ![s] = to] /\ Answers("pause", s, "done")
  ELSE /\ UNCHANGED schedules
       /\ Answers("pause", s, IF mode = "lite" THEN "missing" ELSE "unreachable")

PauseSchedule(s) ==
  /\ \E to \in {"paused", "active"} : Pauses(s, to)
  /\ TasksKept /\ UNCHANGED <<mode, temporal>>

PauseCommand(s) == PauseSchedule(s)

-----------------------------------------------------------------------------
DoorNext ==
  \/ TemporalFlips
  \/ \E t \in DoorTasks :
       \/ RunEnds(t) \/ RefusesTask(t) \/ PostTask(t) \/ McpTask(t) \/ RerunTask(t)
       \/ StartCommand(t) \/ StartShared(t) \/ StartFromCommand(t) \/ ReconcileCommand(t)
       \/ CancelTask(t) \/ McpCancel(t) \/ JudgeTask(t)
  \/ \E s \in DoorSchedules :
       \/ PostSchedule(s) \/ CreateCommand(s) \/ McpSchedule(s)
       \/ DeleteSchedule(s) \/ DeleteCommand(s) \/ McpDelete(s)
       \/ PauseSchedule(s) \/ PauseCommand(s)

DoorSpec == DoorInit /\ [][DoorNext]_doorVars

-----------------------------------------------------------------------------
\* What a door says was done has been done, and what it says is missing is not there.
DoneIsDone ==
  /\ answer.gave = "done" =>
       CASE answer.op \in {"create", "reconcile"} -> flow[answer.of] # "none"
         [] answer.op = "cancel" -> flow[answer.of] = "over"
         [] answer.op = "judge" -> said[answer.of] = "judged"
         [] answer.op = "delete" -> schedules[answer.of] = "none"
         [] answer.op \in {"schedule", "pause"} -> schedules[answer.of] # "none"
         [] OTHER -> TRUE
  /\ answer.gave = "missing" =>
       CASE answer.op = "cancel" -> flow[answer.of] # "running"
         [] answer.op = "judge" -> doorRow[answer.of] = "none"
         [] answer.op \in {"delete", "pause"} -> schedules[answer.of] = "none"
         [] OTHER -> TRUE

\* A task that went through the shared path and does not run says so, in its stream and
\* in its row: it is found there and by the reconciler (core/tasks.py:236-240).
NoneIsLost ==
  \A t \in DoorTasks :
    opened[t] = "closed" /\ flow[t] = "none" =>
      doorRow[t] = "schedule_failed" /\ said[t] = "schedule_failed"

\* Both of the above, whichever door was used and whenever Temporal came or went.
DoorsAreHonest == DoneIsDone /\ NoneIsLost

\* app.py:322-324 "so the HTTP API, CLI, MCP server and scheduler all create tasks
\* identically -- one code path, one audit trail".
OneAuditTrail ==
  \A t \in DoorTasks :
    opened[t] \in {"closed", "left"} /\ flow[t] = "none" => said[t] = "schedule_failed"

\* "Temporal unreachable" is said only when it is.
UnreachableIsUnreachable == answer.gave = "unreachable" => ~temporal

\* What did not succeed changed nothing.
FailedMeansUndone ==
  answer.op = "cancel" /\ answer.gave \in {"failed", "raised"} => flow[answer.of] # "over"
===============================================================================
