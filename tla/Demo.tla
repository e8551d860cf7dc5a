--------------------------------- MODULE Demo ---------------------------------
(***************************************************************************)
(* The demo workflow: TaskWorkflow (workflows/task_workflow.py) and its    *)
(* activities (activities/demo.py).  Each activity is tried again when it  *)
(* fails or does not answer in time; a try that was given up may go on in  *)
(* its worker, beside its successors.  One step can be told to kill its    *)
(* process, between its effect and its record.                             *)
(***************************************************************************)
EXTENDS Naturals, Sequences

CONSTANTS DemoSteps,  \* how many steps the workflow has
          DemoTries,  \* maximum_attempts of its retry policy
          DemoFaults  \* deaths and timeouts other than the injected one: a bound

ASSUME DemoAssumption == DemoSteps \in Nat \ {0} /\ DemoTries \in Nat \ {0} /\ DemoFaults \in Nat

VARIABLES
  demo,    \* the workflow: [job |-> ., tries |-> ., awaits |-> ., over |-> .]
  inside,  \* the tries that run in a worker, awaited or not: [job, try, pc]
  events,  \* the stream
  demoRow, \* tasks.status
  marked,  \* steps whose .done file exists
  crashAt, \* StepInput.crash_at, 0 for None
  crashed, \* the .crashed file exists
  faults

demoVars == <<demo, inside, events, demoRow, marked, crashAt, crashed, faults>>

Job == 0 .. DemoSteps + 1  \* record_task_started, the steps, record_task_completed
DemoEvent(type, job) == [type |-> type, job |-> job]

DemoInit ==
  /\ demo = [job |-> 0, tries |-> 0, awaits |-> FALSE, over |-> "no"]
  /\ inside = {} /\ events = <<>> /\ demoRow = "pending" /\ marked = {} /\ crashed = FALSE /\ faults = 0
  /\ crashAt \in 0 .. DemoSteps

\* append is keyed on the task, the step and the kind: a second one changes nothing.
Says(e) == events' = IF \E i \in DOMAIN events : events[i] = e THEN events ELSE Append(events, e)
Awaited(r) == demo.awaits /\ r.job = demo.job /\ r.try = demo.tries
MovesOn(r, pc) == inside' = (inside \ {r}) \cup {[r EXCEPT !.pc = pc]}

-----------------------------------------------------------------------------
\* The workflow schedules the next try of its activity, or fails once they are used up.
Schedule ==
  /\ demo.over = "no" /\ ~demo.awaits /\ demo.tries < DemoTries
  /\ demo' = [demo EXCEPT !.tries = @ + 1, !.awaits = TRUE]
  /\ inside' = inside \cup {[job |-> demo.job, try |-> demo.tries + 1, pc |-> "begin"]}
  /\ UNCHANGED <<events, demoRow, marked, crashAt, crashed, faults>>

Exhausted ==
  /\ demo.over = "no" /\ ~demo.awaits /\ demo.tries = DemoTries
  /\ demo' = [demo EXCEPT !.over = "failed"]
  /\ UNCHANGED <<inside, events, demoRow, marked, crashAt, crashed, faults>>

\* The answer of a try; the workflow waits for the last one only.
Return(r) ==
  /\ inside' = inside \ {r}
  /\ demo' = IF ~Awaited(r) THEN demo
             ELSE IF r.job = DemoSteps + 1 THEN [demo EXCEPT !.awaits = FALSE, !.over = "completed"]
             ELSE [demo EXCEPT !.job = @ + 1, !.tries = 0, !.awaits = FALSE]

\* record_task_started is one append; record_task_completed goes on to the row.
RecordStart(r) ==
  /\ r.pc = "begin" /\ r.job = 0
  /\ Says(DemoEvent("TaskStarted", 0)) /\ Return(r)
  /\ UNCHANGED <<demoRow, marked, crashAt, crashed, faults>>

RecordEnd(r) ==
  /\ r.pc = "begin" /\ r.job = DemoSteps + 1
  /\ Says(DemoEvent("TaskCompleted", r.job)) /\ MovesOn(r, "row")
  /\ UNCHANGED <<demo, demoRow, marked, crashAt, crashed, faults>>

\* An error of the update is swallowed.
RecordRow(r) ==
  /\ r.pc = "row" /\ Return(r)
  /\ \/ demoRow' = "completed" /\ UNCHANGED faults
     \/ faults < DemoFaults /\ faults' = faults + 1 /\ UNCHANGED demoRow
  /\ UNCHANGED <<events, marked, crashAt, crashed>>

\* run_step, from one await to the next.
BeginStep(r) ==
  /\ r.pc = "begin" /\ r.job \in 1 .. DemoSteps
  /\ Says(DemoEvent("StepStarted", r.job)) /\ MovesOn(r, "look")
  /\ UNCHANGED <<demo, demoRow, marked, crashAt, crashed, faults>>

\* The effect is done once its marker exists, and is not done again.
LookForMarker(r) ==
  /\ r.pc = "look" /\ MovesOn(r, IF r.job \in marked THEN "crash?" ELSE "work")
  /\ UNCHANGED <<demo, events, demoRow, marked, crashAt, crashed, faults>>

WriteMarker(r) ==
  /\ r.pc = "work" /\ marked' = marked \cup {r.job} /\ MovesOn(r, "crash?")
  /\ UNCHANGED <<demo, events, demoRow, crashAt, crashed, faults>>

\* Mutant: the injection remembers nothing of an earlier crash.
InjectAlways(r) == crashAt = r.job

\* should_inject_crash: once, as the .crashed file outlives the process.
Injects(r) == crashAt = r.job /\ ~crashed

\* os._exit takes every try in the process with it.
CrashOrNot(r) ==
  /\ r.pc = "crash?"
  /\ IF Injects(r) THEN crashed' = TRUE /\ inside' = {} ELSE MovesOn(r, "record") /\ UNCHANGED crashed
  /\ UNCHANGED <<demo, events, demoRow, marked, crashAt, faults>>

RecordStep(r) ==
  /\ r.pc = "record" /\ Says(DemoEvent("StepCompleted", r.job)) /\ Return(r)
  /\ UNCHANGED <<demoRow, marked, crashAt, crashed, faults>>

-----------------------------------------------------------------------------
\* Mutant: a process that is gone is waited for.
TimesOutWhileItRuns ==
  /\ demo.awaits /\ demo' = [demo EXCEPT !.awaits = FALSE]
  /\ (\E r \in inside : Awaited(r)) /\ faults < DemoFaults /\ faults' = faults + 1
  /\ UNCHANGED <<inside, events, demoRow, marked, crashAt, crashed>>

\* start_to_close_timeout: the try is given up, in whatever state it is; one whose
\* process is gone can end in no other way.
TimesOut ==
  /\ demo.awaits /\ demo' = [demo EXCEPT !.awaits = FALSE]
  /\ IF \E r \in inside : Awaited(r) THEN faults < DemoFaults /\ faults' = faults + 1 ELSE UNCHANGED faults
  /\ UNCHANGED <<inside, events, demoRow, marked, crashAt, crashed>>

\* kill -9, and an exception: the database that does not answer.
WorkerDies ==
  /\ faults < DemoFaults /\ faults' = faults + 1 /\ inside # {} /\ inside' = {}
  /\ UNCHANGED <<demo, events, demoRow, marked, crashAt, crashed>>

Raises(r) ==
  /\ faults < DemoFaults /\ faults' = faults + 1
  /\ r.pc \in {"begin", "record"} /\ inside' = inside \ {r}
  /\ demo' = IF Awaited(r) THEN [demo EXCEPT !.awaits = FALSE] ELSE demo
  /\ UNCHANGED <<events, demoRow, marked, crashAt, crashed>>

RunsOn(r) ==
  \/ RecordStart(r) \/ RecordEnd(r) \/ RecordRow(r)
  \/ BeginStep(r) \/ LookForMarker(r) \/ WriteMarker(r) \/ CrashOrNot(r) \/ RecordStep(r)

DemoNext ==
  \/ Schedule \/ Exhausted \/ TimesOut \/ WorkerDies
  \/ \E r \in inside : RunsOn(r) \/ Raises(r)

DemoSpec == DemoInit /\ [][DemoNext]_demoVars

\* Temporal schedules and times out; a worker that lives runs its activities.
DemoProgress == Schedule \/ Exhausted \/ TimesOut \/ \E r \in inside : RunsOn(r)
DemoFairness == WF_demoVars(DemoProgress)

-----------------------------------------------------------------------------
Place(type, job) ==
  LET at == {i \in DOMAIN events : events[i] = DemoEvent(type, job)}
  IN IF at = {} THEN 0 ELSE CHOOSE i \in at : \A j \in at : i <= j

\* tests/crash_test.py:6-11, for tries that overlap and processes that die anywhere: a
\* step is recorded after its effect, each event once, each step after the one before,
\* and a completed task has them all.
DemoIsExact ==
  /\ \A i, j \in DOMAIN events : events[i] = events[j] => i = j
  /\ \A s \in 1 .. DemoSteps :
       LET done == Place("StepCompleted", s)
       IN /\ done # 0 => s \in marked /\ Place("StepStarted", s) \in 1 .. done - 1
          /\ Place("StepStarted", s) # 0 =>
               /\ s > 1 => Place("StepCompleted", s - 1) \in 1 .. Place("StepStarted", s) - 1
               /\ s = 1 => Place("TaskStarted", 0) = 1
          /\ Place("TaskCompleted", DemoSteps + 1) # 0 => done # 0

\* The injected crash costs its step one try (demo.py:92-99): a task that fails has lost
\* all the others to something else.
OneCrashIsSurvived == demo.over = "failed" => faults + 1 >= DemoTries

\* The row says completed of a completed task only, and does unless something failed.
DemoRowFollows ==
  /\ demoRow = "completed" => Place("TaskCompleted", DemoSteps + 1) # 0
  /\ demo.over = "completed" /\ faults = 0 => demoRow = "completed"

DemoIsDurable == DemoIsExact /\ OneCrashIsSurvived /\ DemoRowFollows

\* A task that was begun ends, whatever dies (crash_test.py:6).
DemoEnds == demo.tries > 0 ~> demo.over # "no"

\* demo.py:18: "one logical effect" -- but a failure is nowhere in the stream.
DemoFailureIsSaid == demo.over = "failed" => \E i \in DOMAIN events : events[i].type = "TaskFailed"
===============================================================================
