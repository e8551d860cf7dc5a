------------------------------- MODULE Graph -------------------------------
(***************************************************************************)
(* Graph tasks: POST /graphs and `bucker graph run`, validate_graph and    *)
(* topological_waves of contracts/graph.py, GraphWorkflow with its         *)
(* activities, run_graph_task of lite/runner.py, and what                  *)
(* reconcile_pending makes of the rows a graph leaves pending.             *)
(*                                                                         *)
(* A graph is one task; every step of it is a task of its own, worked on   *)
(* by a child workflow that is reduced to its verdict (CodeTask has the    *)
(* rest).  Neither the graph's row nor a step's row leaves 'pending'       *)
(* before a verdict, which is all the reconciler looks at.                 *)
(***************************************************************************)
EXTENDS Integers, FiniteSets

CONSTANTS GraphSteps,      \* step ids, numbered in the order sorted() gives them
          GraphVerdicts,   \* verdicts a step's child may end with
          GraphReconciles  \* somebody runs `bucker reconcile` now and then

ASSUME GraphAssumption ==
  /\ GraphSteps \subseteq Nat \ {0} /\ IsFiniteSet(GraphSteps)
  /\ GraphVerdicts \subseteq {"completed", "failed", "halted", "needs_human_review"}
  /\ GraphReconciles \in BOOLEAN

VARIABLES graph,       \* the spec, how it is run, and the workflow's own variables
          step,        \* each step: its child, and other tasks and runs of it
          marks,       \* GraphStepCompleted events: <<step, status>> is the key
          graphStatus, \* the status rebuild_state gives the graph task
          graphRow     \* its tasks.status

graphVars == <<graph, step, marks, graphStatus, graphRow>>

Unknown == 0    \* a dependency no step has
Bookend == -1   \* "__graph__"

-----------------------------------------------------------------------------
(* contracts/graph.py *)

\* Kahn's algorithm: an entry of ready is taken and its children lose a dependency.
TakeReady(deps, k) ==
  LET node == CHOOSE s \in k.ready : TRUE
      left == [s \in GraphSteps |-> k.indegree[s] - IF node \in deps[s] THEN 1 ELSE 0]
      freed == {s \in GraphSteps : node \in deps[s] /\ left[s] = 0}
  IN  [order |-> k.order \cup {node}, ready |-> (k.ready \ {node}) \cup freed, indegree |-> left]

\* The algorithm after so many turns; none is left when every step has been taken.
Kahn(deps) ==
  LET after[n \in 0..Cardinality(GraphSteps)] ==
        IF n = 0
        THEN [order |-> {}, ready |-> {s \in GraphSteps : deps[s] = {}},
              indegree |-> [s \in GraphSteps |-> Cardinality(deps[s])]]
        ELSE IF after[n - 1].ready = {} THEN after[n - 1]
        ELSE TakeReady(deps, after[n - 1])
  IN  after

Ordered(deps) == Kahn(deps)[Cardinality(GraphSteps)].order

\* Mutant: the search for cycles is left out.
KnownOnly(spec) ==
  /\ spec.numbersFit
  /\ \A s \in GraphSteps : Unknown \notin spec.deps[s]

\* validate_graph finds no errors.  numbersFit: unique ids, budgets, deadlines and
\* retries in range.
IsRunnable(spec) ==
  /\ spec.numbersFit
  /\ \A s \in GraphSteps : Unknown \notin spec.deps[s]
  /\ Ordered(spec.deps) = GraphSteps

\* Mutant: a step is ready when some of its dependencies are done.
EagerWave(deps, done) ==
  {s \in GraphSteps \ done : deps[s] = {} \/ deps[s] \cap done # {}}

\* The next list of topological_waves; the lowest id breaks a cycle.
NextWave(deps, done) ==
  LET ready == {s \in GraphSteps \ done : deps[s] \subseteq done}
  IN  IF ready # {} THEN ready
      ELSE {s \in GraphSteps \ done : \A t \in GraphSteps \ done : s <= t}

-----------------------------------------------------------------------------
(* create_graph, cmd_graph_run: no task is made of a spec with errors *)

NoStep == [pc |-> "idle", wave |-> 0, verdict |-> "none", others |-> "none"]

GraphInit ==
  /\ graph = [pc |-> "submit", creator |-> "none", deps |-> [s \in GraphSteps |-> {}],
              failFast |-> FALSE, durable |-> FALSE, wave |-> 0, now |-> {},
              done |-> {}, failed |-> {}, plain |-> "none"]
  /\ step = [s \in GraphSteps |-> NoStep]
  /\ marks = {}
  /\ graphStatus = "none"
  /\ graphRow = "none"

GraphSpecs == [deps : [GraphSteps -> SUBSET (GraphSteps \cup {Unknown})],
               numbersFit : BOOLEAN]

RefuseGraph ==
  /\ graph.pc = "submit"
  /\ \E spec \in GraphSpecs : ~IsRunnable(spec)
  /\ graph' = [graph EXCEPT !.pc = "refused"]
  /\ UNCHANGED <<step, marks, graphStatus, graphRow>>

\* register_task; the in-process runner is started without more ado.
CreateGraph ==
  /\ graph.pc = "submit"
  /\ \E spec \in GraphSpecs, failFast, durable \in BOOLEAN :
        /\ IsRunnable(spec)
        /\ graph' = [graph EXCEPT !.pc = IF durable THEN "unstarted" ELSE "begin",
                                  !.creator = IF durable THEN "start" ELSE "done",
                                  !.deps = spec.deps,
                                  !.failFast = failFast,
                                  !.durable = durable]
  /\ graphStatus' = "pending"
  /\ graphRow' = "pending"
  /\ UNCHANGED <<step, marks>>

\* start_task_workflow with the spec; it may start and the answer get lost.
StartGraph ==
  /\ graph.creator = "start"
  /\ \/ \E c \in {"done", "record"} : graph' = [graph EXCEPT !.pc = "begin", !.creator = c]
     \/ graph' = [graph EXCEPT !.creator = "record"]
  /\ UNCHANGED <<step, marks, graphStatus, graphRow>>

RecordUnscheduled ==
  /\ graph.creator = "record"
  /\ graph' = [graph EXCEPT !.creator = "done"]
  /\ graphStatus' = "schedule_failed"
  /\ graphRow' = "schedule_failed"
  /\ UNCHANGED <<step, marks>>

-----------------------------------------------------------------------------
(* record_graph_step, _safe_graph_step *)

\* The in-process runner suppresses an error of the recording.
MayGoUnrecorded == ~graph.durable

Mark(s, verdict) ==
  /\ marks' = marks \cup {<<s, verdict>>}
  /\ graphStatus' =
       IF s # Bookend \/ <<s, verdict>> \in marks THEN graphStatus
       ELSE IF verdict = "started" THEN "in_progress"
       ELSE IF graph.failed # {} THEN "failed" ELSE "completed"

Unmarked == MayGoUnrecorded /\ UNCHANGED <<marks, graphStatus>>

-----------------------------------------------------------------------------
(* GraphWorkflow.run, run_graph_task *)

BeginGraph ==
  /\ graph.pc = "begin"
  /\ Mark(Bookend, "started") \/ Unmarked
  /\ graph' = [graph EXCEPT !.pc = "wave"]
  /\ UNCHANGED <<step, graphRow>>

Halts == graph.failFast /\ graph.failed # {}

\* Mutant: fail_fast is looked at in the first wave only.
StartAnyWave ==
  /\ graph.pc = "wave" /\ graph.done # GraphSteps
  /\ LET wave == NextWave(graph.deps, graph.done)
     IN  /\ graph' = [graph EXCEPT !.pc = "gather", !.now = wave, !.wave = @ + 1]
         /\ step' = [s \in GraphSteps |->
                       IF s \in wave
                       THEN [step[s] EXCEPT !.pc = "register", !.wave = graph.wave + 1]
                       ELSE step[s]]
  /\ UNCHANGED <<marks, graphStatus, graphRow>>

StartWave ==
  /\ graph.pc = "wave" /\ graph.done # GraphSteps
  /\ ~Halts
  /\ LET wave == NextWave(graph.deps, graph.done)
     IN  /\ graph' = [graph EXCEPT !.pc = "gather", !.now = wave, !.wave = @ + 1]
         /\ step' = [s \in GraphSteps |->
                       IF s \in wave
                       THEN [step[s] EXCEPT !.pc = "register", !.wave = graph.wave + 1]
                       ELSE step[s]]
  /\ UNCHANGED <<marks, graphStatus, graphRow>>

\* register_graph_step: a fresh row in every try, the last one is worked on.
RegisterStep(s) ==
  /\ step[s].pc = "register"
  /\ step' = [step EXCEPT ![s].pc = "run"]
  /\ UNCHANGED <<graph, marks, graphStatus, graphRow>>

\* A worker that dies after the INSERT leaves an orphan, and Temporal tries again.
LoseRegistration(s) ==
  /\ step[s].pc = "register"
  /\ graph.durable
  /\ step' = [step EXCEPT ![s].others = "orphan"]
  /\ UNCHANGED <<graph, marks, graphStatus, graphRow>>

\* Temporal tries without end; in process the first error is the step's outcome.
FailRegistration(s) ==
  /\ step[s].pc = "register"
  /\ ~graph.durable
  /\ step' = [step EXCEPT ![s].pc = "ended", ![s].verdict = "registration_failed"]
  /\ UNCHANGED <<graph, marks, graphStatus, graphRow>>

EndStep(s) ==
  /\ step[s].pc = "run"
  /\ \E v \in GraphVerdicts :
        step' = [step EXCEPT ![s].pc = "ended", ![s].verdict = v]
  /\ UNCHANGED <<graph, marks, graphStatus, graphRow>>

\* Mutant: the workflow survives its child, as a step without a verdict.
SurviveChild(s) ==
  /\ step[s].pc = "run"
  /\ step' = [step EXCEPT ![s].pc = "died"]
  /\ UNCHANGED <<graph, marks, graphStatus, graphRow>>

\* A child that raises fails the gather and the graph: nobody writes the bookend.
\* Temporal terminates the siblings with their parent; in process they go on.
StepRaises(s) ==
  /\ step[s].pc = "run"
  /\ graph' = IF graph.pc = "gather" THEN [graph EXCEPT !.pc = "crashed"] ELSE graph
  /\ step' = [t \in GraphSteps |->
                IF t = s \/ (graph.durable /\ step[t].pc \in {"register", "run"})
                THEN [step[t] EXCEPT !.pc = "died"] ELSE step[t]]
  /\ UNCHANGED <<marks, graphStatus, graphRow>>

\* gather returns when the whole wave has ended.
GatherWave ==
  /\ graph.pc = "gather"
  /\ \A s \in graph.now : step[s].pc = "ended"
  /\ graph' = [graph EXCEPT !.pc = "outcomes"]
  /\ UNCHANGED <<step, marks, graphStatus, graphRow>>

\* Mutant: only the verdict "failed" counts as a failure.
FailedExactly(v) == v = "failed"

\* "failed" in str(verdict): a halted or escalated step is no failure.
IsFailure(v) == v \in {"failed", "registration_failed"}

RecordOutcome(s) ==
  /\ graph.pc = "outcomes"
  /\ s \in graph.now /\ \A t \in graph.now : s <= t
  /\ graph' = [graph EXCEPT !.now = @ \ {s}, !.done = @ \cup {s},
                            !.pc = IF graph.now = {s} THEN "wave" ELSE @,
                            !.failed = IF IsFailure(step[s].verdict)
                                       THEN @ \cup {s} ELSE @]
  /\ Mark(s, step[s].verdict) \/ Unmarked
  /\ UNCHANGED <<step, graphRow>>

\* The bookend, and then the row; an error of the UPDATE is dropped.
FinishGraph ==
  /\ graph.pc = "wave"
  /\ graph.done = GraphSteps \/ Halts
  /\ Mark(Bookend, "completed") \/ Unmarked
  /\ graph' = [graph EXCEPT !.pc = IF <<Bookend, "completed">> \in marks'
                                   THEN "row" ELSE "closed"]
  /\ UNCHANGED <<step, graphRow>>

UpdateGraphRow ==
  /\ graph.pc = "row"
  /\ graphRow' \in {graphRow, IF graph.failed # {} THEN "failed" ELSE "completed"}
  /\ graph' = [graph EXCEPT !.pc = "closed"]
  /\ UNCHANGED <<step, marks, graphStatus>>

\* The process of the in-process runner dies with everything it runs.
GraphProcessDies ==
  /\ ~graph.durable
  /\ graph.pc \notin {"submit", "refused", "dead"}
  /\ graph' = [graph EXCEPT !.pc = "dead"]
  /\ step' = [s \in GraphSteps |->
                IF step[s].pc \in {"register", "run"} THEN [step[s] EXCEPT !.pc = "died"]
                ELSE step[s]]
  /\ UNCHANGED <<marks, graphStatus, graphRow>>

-----------------------------------------------------------------------------
(* reconcile_pending meets the rows of a graph; Temporal only *)

GraphWorks == graph.pc \in {"begin", "wave", "gather", "outcomes", "row"}
Reconcilable(row) ==
  GraphReconciles /\ graph.durable /\ row \in {"pending", "schedule_failed"}

\* The id task-<id> is running: another ScheduleFailed event.
ReconcileRefused ==
  /\ Reconcilable(graphRow) /\ graph.creator = "done"
  /\ GraphWorks \/ graph.plain = "running"
  /\ graphStatus' = "schedule_failed"
  /\ UNCHANGED <<graph, step, marks, graphRow>>

\* A closed or never started graph is started without its spec: as a code task.
ReconcileGraph ==
  /\ Reconcilable(graphRow) /\ graph.creator = "done"
  /\ ~GraphWorks /\ graph.plain # "running"
  /\ graph' = [graph EXCEPT !.plain = "running"]
  /\ UNCHANGED <<step, marks, graphStatus, graphRow>>

EndPlain ==
  /\ graph.plain = "running"
  /\ graph' = [graph EXCEPT !.plain = "ended"]
  /\ \E v \in GraphVerdicts : graphStatus' = v /\ graphRow' = v
  /\ UNCHANGED <<step, marks>>

\* A step's row is pending until its verdict, its child is graph-<id>-step-<step>
\* and so the id task-<step's task> is free: the step gets a second run.  So does an
\* orphan, which is pending for good.
ReconcileStep(s) ==
  /\ GraphReconciles /\ graph.durable
  /\ step[s].others = "orphan" \/ (step[s].others = "none" /\ step[s].pc \in {"run", "died"})
  /\ step' = [step EXCEPT ![s].others = "run"]
  /\ UNCHANGED <<graph, marks, graphStatus, graphRow>>

-----------------------------------------------------------------------------

GraphProgress ==
  \/ BeginGraph \/ StartWave \/ GatherWave \/ FinishGraph \/ UpdateGraphRow
  \/ \E s \in GraphSteps : RecordOutcome(s)

StepProgress(s) == RegisterStep(s) \/ FailRegistration(s) \/ EndStep(s)

GraphNext ==
  \/ RefuseGraph \/ CreateGraph \/ StartGraph \/ RecordUnscheduled
  \/ GraphProgress \/ GraphProcessDies
  \/ ReconcileRefused \/ ReconcileGraph \/ EndPlain
  \/ \E s \in GraphSteps :
        \/ StepProgress(s) \/ LoseRegistration(s) \/ StepRaises(s)
        \/ ReconcileStep(s)

\* A worker is up and every child ends, which CodeTask shows of the children.
GraphFairness ==
  /\ WF_graphVars(GraphProgress)
  /\ \A s \in GraphSteps : WF_graphVars(StepProgress(s))

GraphSpec == GraphInit /\ [][GraphNext]_graphVars /\ GraphFairness

-----------------------------------------------------------------------------

\* A step begins when everything it depends on has ended, with a verdict that a
\* durable graph has already written to its stream; and nothing of a later wave
\* begins after a failure if the spec asks to fail fast.
GraphOrder ==
  \A s \in GraphSteps : step[s].pc # "idle" =>
     /\ \A d \in graph.deps[s] :
           /\ step[d].pc = "ended"
           /\ graph.durable => <<d, step[d].verdict>> \in marks
     /\ graph.failFast =>
           \A f \in GraphSteps :
              step[f].pc = "ended" /\ IsFailure(step[f].verdict) => step[s].wave <= step[f].wave

\* The row a graph workflow leaves tells how its steps went: completed means that
\* all have ended without failing, and a durable graph's stream has their verdicts;
\* failed means that one of them did fail, and the last status the stream folds to
\* then differs at most by a scheduling failure added from outside.
GraphVerdictHonest ==
  graph.plain = "none" /\ graph.pc = "closed" =>
     /\ graphRow = "completed" =>
           \A s \in GraphSteps :
              /\ step[s].pc = "ended" /\ step[s].verdict # "failed"
              /\ step[s].verdict # "registration_failed"
              /\ graph.durable => <<s, step[s].verdict>> \in marks
     /\ graphRow = "failed" =>
           \E s \in GraphSteps : step[s].verdict \in {"failed", "registration_failed"}
     /\ graphRow \in {"completed", "failed"} =>
           graphStatus \in {graphRow, "schedule_failed"}

\* A graph keeps its order while it runs, and the row it leaves is true of its steps.
GraphIsSound == GraphOrder /\ GraphVerdictHonest

\* A graph whose workflow has begun comes to an end: with a bookend, or because a
\* child raised or its process died.
GraphConcludes ==
  (graph.pc = "begin") ~> (graph.pc \in {"closed", "crashed", "dead"})

\* "Re-schedule tasks whose workflow never started" (core/tasks.py:264): a graph task
\* is only completed by working on its steps.
CompletedGraphRanSteps ==
  graphRow = "completed" => \A s \in GraphSteps : step[s].pc = "ended"
=============================================================================
