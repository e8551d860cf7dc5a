----------------------------- MODULE Benchmark -----------------------------
(***************************************************************************)
(* The paired benchmark: run_paired_benchmark of bench/runner.py with the  *)
(* single-agent loop of bench/baseline.py, the workspace clone_instance of *)
(* bench/swebench.py prepares for both, and what scripts/m2_gate.py makes  *)
(* of the results with bench/stats.py.                                     *)
(*                                                                         *)
(* One process, one instance after the other.  Models, tests, git and the  *)
(* official harness are external: each call may give every outcome.        *)
(***************************************************************************)
EXTENDS Integers, Sequences, SequencesExt

CONSTANTS BenchInstances,  \* how many instances the run has
          MaxIterations,   \* of the baseline's loop
          FewInstances,    \* below it the decision is inconclusive (5)
          ManyDiscordant,  \* from here on cost may decide (25)
          StatSpan         \* mcnemar_test is compared with the exact test up to here

ASSUME BenchAssumption ==
  /\ {BenchInstances, MaxIterations, FewInstances, ManyDiscordant, StatSpan} \subseteq Nat \ {0}

VARIABLES bench,    \* the step, and the instance it is at
          tree,     \* the diffs in the workspace: BuckerDiff, or of an iteration
          loop,     \* the baseline's variables
          results,  \* run.bucker_results and run.baseline_results
          verdict   \* what is written down: the log, the report, the decision

benchVars == <<bench, tree, loop, results, verdict>>

NoLoop == [iteration |-> 0, last |-> 0]
NoDiff == 0
BuckerDiff == -1

BenchInit ==
  /\ bench = [pc |-> "clone", at |-> 1]
  /\ tree = {}
  /\ loop = NoLoop
  /\ results = [bucker |-> <<>>, baseline |-> <<>>]
  /\ verdict = [logged |-> FALSE, harness |-> "none", decision |-> "none"]

\* TaskResult.  passedOn: the workspace its tests were green in, a ghost.
Result(success, error, diff, passedOn) ==
  [instance |-> bench.at, success |-> success, error |-> error, diff |-> diff,
   passedOn |-> passedOn]
Errored == Result(FALSE, TRUE, NoDiff, {})

NextInstance ==
  bench' = IF bench.at = BenchInstances THEN [bench EXCEPT !.pc = "evaluate"]
           ELSE [pc |-> "clone", at |-> bench.at + 1]

-----------------------------------------------------------------------------

\* Mutant: a failure before the model is called is noted for one side.
NoteFailureOnce ==
  /\ bench.pc \in {"clone", "row"}
  /\ results' = [results EXCEPT !.bucker = Append(@, Errored)]
  /\ NextInstance
  /\ UNCHANGED <<tree, loop, verdict>>

\* _record_failure: clone_instance, the INSERT or the TaskCreated event failed.
RecordFailure ==
  /\ bench.pc \in {"clone", "row"}
  /\ results' = [bucker |-> Append(results.bucker, Errored),
                 baseline |-> Append(results.baseline, Errored)]
  /\ NextInstance
  /\ UNCHANGED <<tree, loop, verdict>>

\* A workspace of its own for the run and the instance.
CloneInstance ==
  /\ bench.pc = "clone"
  /\ bench' = [bench EXCEPT !.pc = "row"]
  /\ tree' = {}
  /\ UNCHANGED <<loop, results, verdict>>

CreateTask ==
  /\ bench.pc = "row"
  /\ bench' = [bench EXCEPT !.pc = "bucker"]
  /\ UNCHANGED <<tree, loop, results, verdict>>

\* _run_bucker: execute_task applies the diff to the mounted workspace, even partly, and
\* anything after that may still raise; PlanningFailed and WorkFailed come before.
RunBucker ==
  /\ bench.pc = "bucker"
  /\ \E diff \in {NoDiff, BuckerDiff}, lands \in BOOLEAN, end \in {"passed", "failed", "raised"} :
        /\ lands => diff # NoDiff
        /\ tree' = IF lands THEN {BuckerDiff} ELSE {}
        /\ results' = [results EXCEPT !.bucker = Append(@,
             IF end = "raised" THEN Errored
             ELSE Result(end = "passed", FALSE, diff, IF end = "passed" THEN tree' ELSE {}))]
  /\ bench' = [bench EXCEPT !.pc = "reclone"]
  /\ UNCHANGED <<loop, verdict>>

\* clone_instance once more: HEAD is at the base commit, so it returns at once.
Reclone ==
  /\ bench.pc = "reclone"
  /\ bench' = [bench EXCEPT !.pc = "baseline"]
  /\ loop' = [NoLoop EXCEPT !.iteration = 1]
  /\ UNCHANGED <<tree, results, verdict>>

\* git fails, as cloning into the directory then does.
RecloneFails ==
  /\ bench.pc = "reclone"
  /\ results' = [results EXCEPT !.baseline = Append(@, Errored)]
  /\ NextInstance
  /\ UNCHANGED <<tree, loop, verdict>>

-----------------------------------------------------------------------------
(* run_baseline *)

EndBaseline(result) ==
  /\ results' = [results EXCEPT !.baseline = Append(@, result)]
  /\ loop' = NoLoop
  /\ NextInstance
  /\ UNCHANGED verdict

\* The next iteration, or status max_iterations with the last diff.
NextIteration(last) ==
  IF loop.iteration = MaxIterations
  THEN EndBaseline(Result(FALSE, FALSE, last, {}))
  ELSE /\ loop' = [loop EXCEPT !.iteration = @ + 1, !.last = last]
       /\ UNCHANGED <<bench, results, verdict>>

InBaseline == bench.pc = "baseline"

\* The sandbox does not start, the model cannot be reached, a price is unknown.
BaselineRaises ==
  /\ InBaseline
  /\ EndBaseline(Errored)
  /\ UNCHANGED tree

\* The budget is looked at before a call.  Status error, but no error is noted.
BudgetGone ==
  /\ InBaseline /\ loop.iteration > 1
  /\ EndBaseline(Result(FALSE, FALSE, NoDiff, {}))
  /\ UNCHANGED tree

\* Not JSON, or neither done nor a diff.
NothingUsable ==
  /\ InBaseline
  /\ NextIteration(loop.last)
  /\ UNCHANGED tree

\* Apply and test.  What does not apply may still land in part (patch -p0).
TryDiff ==
  /\ InBaseline
  /\ \E applies, lands, green \in BOOLEAN :
        /\ applies => lands
        /\ green => applies
        /\ tree' = IF lands THEN tree \cup {loop.iteration} ELSE tree
        /\ IF green THEN EndBaseline(Result(TRUE, FALSE, loop.iteration, tree'))
           ELSE NextIteration(loop.iteration)

\* Mutant: a model that says it is done is believed.
TakeItsWord ==
  /\ InBaseline
  /\ EndBaseline(Result(TRUE, FALSE, loop.last, {}))
  /\ UNCHANGED tree

\* done: the last diff, good or not, is applied again, its outcome ignored, and tested.
DeclareDone ==
  /\ InBaseline
  /\ IF loop.last = NoDiff
     THEN EndBaseline(Result(FALSE, FALSE, NoDiff, {})) /\ UNCHANGED tree
     ELSE \E lands, green \in BOOLEAN :
            /\ tree' = IF lands THEN tree \cup {loop.last} ELSE tree
            /\ EndBaseline(Result(green, FALSE, loop.last, IF green THEN tree' ELSE {}))

-----------------------------------------------------------------------------
(* The end of run_paired_benchmark, and the gate *)

Diffs(list) == {i \in 1..Len(list) : list[i].diff # NoDiff}

\* The harness fails on an empty file, so it is not called with one.
Evaluate ==
  /\ bench.pc = "evaluate"
  /\ LET predictions == Diffs(results.bucker) \cup Diffs(results.baseline)
     IN  verdict' = [verdict EXCEPT !.harness =
                       IF predictions = {} THEN "skipped" ELSE "called"]
  /\ bench' = [bench EXCEPT !.pc = "log"]
  /\ UNCHANGED <<tree, loop, results>>

WriteLog ==
  /\ bench.pc = "log"
  /\ verdict' = [verdict EXCEPT !.logged = TRUE]
  /\ bench' = [bench EXCEPT !.pc = "stats"]
  /\ UNCHANGED <<tree, loop, results>>

\* An exception outside of the handlers, a signal: the pool is closed and nothing kept.
LoseRun ==
  /\ bench.pc \in {"clone", "row", "bucker", "reclone", "baseline", "evaluate"}
  /\ bench' = [bench EXCEPT !.pc = "lost"]
  /\ UNCHANGED <<tree, loop, results, verdict>>

Distance(b, c) == IF b > c THEN b - c ELSE c - b

\* Mutant: without the correction for continuity.
Uncorrected(b, c) == b + c # 0 /\ 1000000 * Distance(b, c) * Distance(b, c) > 3841459 * (b + c)

\* mcnemar_test: p < 0.05 is a statistic above 3.841459.
Significant(b, c) ==
  LET k == Distance(b, c) - 1
  IN  b + c # 0 /\ 1000000 * k * k > 3841459 * (b + c)

\* decision.  cheaper: bucker's cost per success is not above the baseline's.
Decision(n, b, c, cheaper) ==
  IF n < FewInstances THEN "INCONCLUSIVE"
  ELSE IF Significant(b, c) /\ b > c THEN "PROCEED"
  ELSE IF b > c /\ b + c >= ManyDiscordant /\ cheaper THEN "PROCEED"
  ELSE IF b <= c THEN "STOP" ELSE "INCONCLUSIVE"

\* m2_gate leaves the errors out of each list by itself.
Resolved(list) == SelectSeq(list, LAMBDA r : ~r.error)

\* from_results and bootstrap_delta_ci raise on lists of different or no length.
Analyze ==
  /\ bench.pc = "stats"
  /\ LET mine == Resolved(results.bucker)
         theirs == Resolved(results.baseline)
         Count(p, q) == Len(SelectSeq(Zip(mine, theirs), LAMBDA r : r[1].success = p
                                                               /\ r[2].success = q))
     IN  \E cheaper \in BOOLEAN :
           verdict' = [verdict EXCEPT !.decision =
              IF Len(mine) < FewInstances THEN "too few"
              ELSE IF Len(mine) # Len(theirs) \/ Len(mine) < 2 THEN "raised"
              ELSE Decision(Len(mine), Count(TRUE, FALSE), Count(FALSE, TRUE), cheaper)]
  /\ bench' = [bench EXCEPT !.pc = "over"]
  /\ UNCHANGED <<tree, loop, results>>

BenchNext ==
  \/ RecordFailure \/ CloneInstance \/ CreateTask \/ RunBucker \/ Reclone \/ RecloneFails
  \/ BaselineRaises \/ BudgetGone \/ NothingUsable \/ TryDiff \/ DeclareDone
  \/ Evaluate \/ WriteLog \/ LoseRun \/ Analyze

BenchSpec == BenchInit /\ [][BenchNext]_benchVars

-----------------------------------------------------------------------------

\* Between two instances and in the log, the two lists hold the same instances in the same
\* order, each once; an errored result is no success, a success of the baseline names a
\* diff that was tested, and the harness is called just when there is a diff to judge.
ResultsArePaired ==
  bench.pc \in {"clone", "evaluate", "log", "stats", "over"} =>
     /\ Len(results.bucker) = Len(results.baseline)
     /\ Len(results.bucker) = IF bench.pc = "clone" THEN bench.at - 1 ELSE BenchInstances
     /\ \A i \in 1..Len(results.bucker) :
           /\ results.bucker[i].instance = i /\ results.baseline[i].instance = i
           /\ results.bucker[i].success => ~results.bucker[i].error
           /\ results.baseline[i].success => results.baseline[i].diff # NoDiff
     /\ verdict.harness = "called" =>
           \E i \in 1..BenchInstances :
              results.bucker[i].diff # NoDiff \/ results.baseline[i].diff # NoDiff

Choose(n) == LET row[k \in 0..n, i \in 0..n] ==
                   IF i = 0 \/ i = k THEN 1
                   ELSE IF i > k THEN 0 ELSE row[k - 1, i - 1] + row[k - 1, i]
             IN  [i \in 0..n |-> row[n, i]]

\* The exact two-sided test on n discordant pairs, k of them for one side: p < 0.05.
ExactlySignificant(b, c) ==
  LET n == b + c
      most == IF b > c THEN b ELSE c
      tail == FoldLeft(LAMBDA sum, i : sum + Choose(n)[i], 0, [i \in 1..(n - most + 1) |-> most + i - 1])
  IN  40 * tail < 2 ^ n

ApproximationIsConservative ==
  \A b, c \in 0..StatSpan : b + c <= StatSpan /\ Significant(b, c) => ExactlySignificant(b, c)

\* A PROCEED by success rate is one that the exact test gives too, whatever the numbers of
\* discordant pairs: the approximation by chi-squared never decides too early.
ProceedIsEarned ==
  verdict.decision = "PROCEED" \/ bench.pc = "stats" => ApproximationIsConservative

\* "Reset workspace to base commit for a clean comparison." (bench/runner.py)
BaselineStartsClean == bench.pc = "baseline" /\ loop.iteration = 1 => tree = {}

\* "index i is the same instance in both lists" (bench/stats.py)
PairsAreAligned ==
  verdict.decision \in {"PROCEED", "STOP", "INCONCLUSIVE"} =>
    \A i \in 1..Len(Resolved(results.bucker)) :
       Resolved(results.bucker)[i].instance = Resolved(results.baseline)[i].instance

\* A diff that counts as a success is all there was in the workspace it passed in.
WinningDiffIsTheChange ==
  \A i \in 1..Len(results.baseline) :
     results.baseline[i].success => results.baseline[i].passedOn \subseteq {results.baseline[i].diff}
=============================================================================
