--------------------------- MODULE RemoteSchedule ---------------------------
(***************************************************************************)
(* A recurring task on the full stack: core/schedules.py keeps it as a     *)
(* Temporal schedule, whose runs are ScheduledTaskWorkflow.  Temporal's    *)
(* own schedule (when it fires, that it skips a run that would overlap)    *)
(* is external.                                                            *)
(***************************************************************************)
EXTENDS Naturals

CONSTANT RemoteTries  \* RetryPolicy.maximum_attempts of register_scheduled_task

ASSUME RemoteTriesAssumption == RemoteTries \in Nat \ {0}

VARIABLES remote,     \* the Temporal schedule
          remoteRun   \* its current run: the tries of its registration, the tasks made

remoteVars == <<remote, remoteRun>>

NoRun == [pc |-> "none", tries |-> 0, tasks |-> 0]

RemoteInit == remote = "none" /\ remoteRun = NoRun

\* create_schedule: an id that exists is replaced, its paused flag included.
CreateRemote == remote' = "active" /\ UNCHANGED remoteRun

\* pause_schedule, and a run that is under way goes on.
PauseRemote ==
  /\ remote # "none"
  /\ remote' \in {"active", "paused"}
  /\ UNCHANGED remoteRun

DeleteRemote == remote # "none" /\ remote' = "none" /\ UNCHANGED remoteRun

FireRemote ==
  /\ remote = "active" /\ remoteRun.pc = "none"
  /\ remoteRun' = [NoRun EXCEPT !.pc = "register"]
  /\ UNCHANGED remote

\* register_scheduled_task: a new row in every try.
RegisterScheduled ==
  /\ remoteRun.pc = "register"
  /\ remoteRun' = [remoteRun EXCEPT !.pc = "child", !.tries = @ + 1, !.tasks = @ + 1]
  /\ UNCHANGED remote

\* Mutant: Temporal's default, which tries without end.
TryScheduledForever ==
  /\ remoteRun.pc = "register"
  /\ \E made \in {0, 1} :
        remoteRun' = [remoteRun EXCEPT !.tries = @ + 1, !.tasks = @ + made]
  /\ UNCHANGED remote

\* A try that fails may have made its row.  After the last one the run fails.
FailScheduled ==
  /\ remoteRun.pc = "register"
  /\ \E made \in {0, 1} :
        remoteRun' = IF remoteRun.tries + 1 = RemoteTries
                     THEN [remoteRun EXCEPT !.pc = "failed", !.tries = @ + 1, !.tasks = @ + made]
                     ELSE [remoteRun EXCEPT !.tries = @ + 1, !.tasks = @ + made]
  /\ UNCHANGED remote

\* The child closes, or raises and fails the run; the notification is best effort.
CloseScheduled ==
  /\ remoteRun.pc \in {"child", "failed"}
  /\ remoteRun' = NoRun
  /\ UNCHANGED remote

RemoteNext ==
  \/ CreateRemote \/ PauseRemote \/ DeleteRemote \/ FireRemote
  \/ RegisterScheduled \/ FailScheduled \/ CloseScheduled

RemoteSpec == RemoteInit /\ [][RemoteNext]_remoteVars

\* A scheduled run leaves at most as many tasks behind as its registration has tries,
\* and works on one of them only.
ScheduledTasksBounded ==
  /\ remoteRun.tasks <= RemoteTries
  /\ remoteRun.pc = "child" => remoteRun.tasks >= 1
=============================================================================
