---------------------------- MODULE ServerProofs ----------------------------
(***************************************************************************)
(* Proofs about the parts of the server that MCServer puts beside each     *)
(* other: the control of a task, the doors a task comes in by, the sandbox *)
(* its edits are tried in, the archive of its recordings, the SQLite pool, *)
(* replay, handoff, the benchmark and the promotion of candidates.         *)
(*                                                                         *)
(* Task control first, for any humans, sweepers and paths of the workflow, *)
(* with or without crashes, cancels and a reconciler: the row and the      *)
(* stream are written one after the other by five kinds of actors.  What   *)
(* the row may show follows from what each of them has already put into    *)
(* the stream when it comes to the row (SourceInv); that the two agree in  *)
(* the end follows from where the only run of the workflow and the only    *)
(* review of it have got to (PhaseInv).                                    *)
(***************************************************************************)
EXTENDS MCServer, TLAPS, FiniteSetTheorems, SequenceTheorems, WellFoundedInduction

(* Events *)

Kinds == {"created", "progress", "swept", "schedule_failed"} \cup Verdicts \cup HumanVerdicts
Statuses == {"unknown", "in_progress"} \cup (Rows \ {"none"})

LEMMA StatusAfter ==
  ASSUME NEW kind \in Kinds
  PROVE  /\ StatusOf(kind) \in Statuses
         /\ kind \in Verdicts \cup HumanVerdicts \cup {"schedule_failed"} => StatusOf(kind) = kind
BY DEF Kinds, Statuses, StatusOf, Rows, Verdicts, HumanVerdicts

LEMMA HasAfter ==
  ASSUME NEW kind \in Kinds, NEW path \in Paths \cup {Outside}, TypeOK, RecordEvent(kind, path)
  PROVE  /\ recorded' \subseteq Kinds \X (Paths \cup {Outside})
         /\ status' \in Statuses
         /\ \A k : Has(k)' <=> Has(k) \/ k = kind
         /\ ~Has(kind) \/ kind = "schedule_failed" => status' = StatusOf(kind)
<1>1. status' \in Statuses
  BY StatusAfter DEF TypeOK, RecordEvent, Statuses
<1>2. recorded' \subseteq Kinds \X (Paths \cup {Outside})
  BY DEF TypeOK, RecordEvent, Kinds
<1>3. ASSUME NEW k  PROVE Has(k)' <=> Has(k) \/ k = kind
  <2>1. recorded' = recorded \cup {<<kind, path>>}
    BY DEF RecordEvent
  <2>2. <<kind, path>> \in recorded' /\ <<kind, path>>[1] = kind
    BY <2>1
  <2> QED BY <2>1, <2>2 DEF Has
<1>4. ~Has(kind) => <<kind, path>> \notin recorded
  BY DEF Has
<1> QED BY <1>1, <1>2, <1>3, <1>4 DEF RecordEvent

LEMMA SameEvents == UNCHANGED recorded => \A k : Has(k)' <=> Has(k)
BY DEF Has

(* Types *)

\* Whoever is about to write a verdict to the row has one.
Acted(r) == reviewer[r].pc # "idle"
HoldsVerdicts ==
  /\ runner.pc \in {"recorded", "closed"} => runner.verdict \in Verdicts
  /\ \A r \in Reviewers : Acted(r) => reviewer[r].verdict \in HumanVerdicts
Typing == TypeOK /\ HoldsVerdicts

LEMMA TypingInit == Init => Typing
BY DEF Init, Typing, TypeOK, HoldsVerdicts, Acted, Rows, Outside

\* The steps that leave the stream and the reviewers as they are.
LEMMA TypingQuietStep ==
  ASSUME Typing,
         \/ InsertRow \/ StartTask \/ MarkScheduleFailed \/ CreatorDies \/ UpdateRow
         \/ SelectPending \/ Restart \/ RestartFails \/ Cancel \/ RunFails
  PROVE  Typing'
<1> USE DEF Typing, TypeOK, HoldsVerdicts, Acted
<1>1. CASE InsertRow            BY <1>1 DEF InsertRow, Rows
<1>2. CASE StartTask            BY <1>2 DEF StartTask, StartRunner
<1>3. CASE MarkScheduleFailed   BY <1>3 DEF MarkScheduleFailed, Rows
<1>4. CASE CreatorDies          BY <1>4 DEF CreatorDies
<1>5. CASE UpdateRow            BY <1>5 DEF UpdateRow, Rows, Verdicts
<1>6. CASE SelectPending        BY <1>6 DEF SelectPending
<1>7. CASE Restart              BY <1>7 DEF Restart, StartRunner
<1>8. CASE RestartFails         BY <1>8 DEF RestartFails
<1>9. CASE Cancel               BY <1>9 DEF Cancel
<1>10. CASE RunFails            BY <1>10 DEF RunFails
<1> QED BY <1>1, <1>2, <1>3, <1>4, <1>5, <1>6, <1>7, <1>8, <1>9, <1>10

\* The steps that record an event, and nothing but the turn of their own actor.
LEMMA TypingEventStep ==
  ASSUME Typing,
         \/ AppendCreated \/ RecordScheduleFailed \/ Work \/ RecordVerdict
         \/ RecordRestartFailed \/ \E s \in Sweepers : HaltEvent(s)
         \/ \E r \in Reviewers : ReviewEvent(r)
  PROVE  Typing'
<1> DEFINE Typed == /\ recorded' \subseteq Kinds \X (Paths \cup {Outside})
                    /\ status' \in Statuses
<1>1. ASSUME NEW kind \in Kinds, NEW path \in Paths \cup {Outside}, RecordEvent(kind, path)
      PROVE  Typed
  BY <1>1, HasAfter DEF Typing
<1>2. SUFFICES ASSUME Typed  PROVE Typing'
  <2>1. CASE AppendCreated         BY <1>1, <2>1 DEF AppendCreated, Kinds, Outside
  <2>2. CASE RecordScheduleFailed  BY <1>1, <2>2 DEF RecordScheduleFailed, Kinds, Outside
  <2>3. CASE RecordRestartFailed   BY <1>1, <2>3 DEF RecordRestartFailed, Kinds, Outside
  <2>4. CASE Work                  BY <1>1, <2>4 DEF Work, Kinds, Typing, TypeOK
  <2>5. CASE RecordVerdict         BY <1>1, <2>5 DEF RecordVerdict, Kinds, Typing, TypeOK
  <2>6. CASE \E s \in Sweepers : HaltEvent(s)
    BY <1>1, <2>6 DEF HaltEvent, Kinds, Outside
  <2>7. CASE \E r \in Reviewers : ReviewEvent(r)
    BY <1>1, <2>7 DEF ReviewEvent, Kinds, Outside, Typing, HoldsVerdicts, Acted
  <2> QED BY <2>1, <2>2, <2>3, <2>4, <2>5, <2>6, <2>7
<1> HIDE DEF Typed
<1>3. recorded' \subseteq ({"created", "progress", "swept", "schedule_failed"}
                              \cup Verdicts \cup HumanVerdicts) \X (Paths \cup {Outside})
      /\ status' \in {"unknown", "in_progress"} \cup (Rows \ {"none"})
  BY <1>2 DEF Typed, Kinds, Statuses
<1> USE DEF Typing, TypeOK, HoldsVerdicts, Acted
<1>4. CASE AppendCreated         BY <1>3, <1>4 DEF AppendCreated
<1>5. CASE RecordScheduleFailed  BY <1>3, <1>5 DEF RecordScheduleFailed
<1>6. CASE RecordRestartFailed   BY <1>3, <1>6 DEF RecordRestartFailed
<1>7. CASE Work                  BY <1>3, <1>7 DEF Work
<1>8. CASE RecordVerdict         BY <1>3, <1>8 DEF RecordVerdict
<1>9. CASE \E s \in Sweepers : HaltEvent(s)
  BY <1>3, <1>9 DEF HaltEvent
<1>10. CASE \E r \in Reviewers : ReviewEvent(r)
  BY <1>3, <1>10 DEF ReviewEvent
<1> QED BY <1>4, <1>5, <1>6, <1>7, <1>8, <1>9, <1>10

\* The other steps of a sweeper and of a reviewer.
LEMMA TypingActorStep ==
  ASSUME Typing,
         \/ \E s \in Sweepers : SelectStale(s) \/ HaltRow(s)
         \/ \E r \in Reviewers : CheckEscalated(r) \/ ReviewRow(r) \/ ReviewerDies(r)
  PROVE  Typing'
<1> USE DEF Typing, TypeOK, HoldsVerdicts, Acted
<1>1. CASE \E s \in Sweepers : SelectStale(s)     BY <1>1 DEF SelectStale
<1>2. CASE \E s \in Sweepers : HaltRow(s)         BY <1>2 DEF HaltRow, Rows, Verdicts
<1>3. CASE \E r \in Reviewers : CheckEscalated(r) BY <1>3 DEF CheckEscalated
<1>4. CASE \E r \in Reviewers : ReviewRow(r)      BY <1>4 DEF ReviewRow, Rows, HumanVerdicts
<1>5. CASE \E r \in Reviewers : ReviewerDies(r)   BY <1>5 DEF ReviewerDies
<1> QED BY <1>1, <1>2, <1>3, <1>4, <1>5

LEMMA TypingStep == Typing /\ [Next]_vars => Typing'
<1>1. ASSUME Typing, UNCHANGED vars  PROVE Typing'
  BY <1>1 DEF vars, Typing, TypeOK, HoldsVerdicts, Acted
<1> QED
  BY <1>1, TypingQuietStep, TypingEventStep, TypingActorStep
  DEF Next, Create, Run, Reconcile, Sweep, Review

LEMMA TypingInvariant == Spec => []Typing
BY TypingInit, TypingStep, PTL DEF Spec

\* Every variable of the task's control stays within the values the code gives it.
THEOREM ControlTyping == Spec => []TypeOK
<1>1. Typing => TypeOK
  BY DEF Typing
<1> QED BY <1>1, TypingInvariant, PTL

-----------------------------------------------------------------------------
(* What is in the row comes from the stream *)

\* An actor that is about to write the row has recorded what it will write, and a
\* reviewer has seen an escalation that was recorded.
SourceInv ==
  /\ RowIsBacked
  /\ HumanJudgesEscalated
  /\ runner.pc = "recorded" => Has(runner.verdict)
  /\ \A s \in Sweepers : sweeper[s] = "row" => Has("swept")
  /\ \A r \in Reviewers : Acted(r) => Has("needs_human_review")

LEMMA SourceInvInit == Init => SourceInv
BY DEF Init, SourceInv, RowIsBacked, HumanJudgesEscalated, Has, Acted, Verdicts, HumanVerdicts

\* Events are never lost: what holds of the stream goes on holding.
LEMMA SourceInvEvent ==
  ASSUME Typing, SourceInv, NEW kind \in Kinds, NEW path \in Paths \cup {Outside},
         RecordEvent(kind, path), UNCHANGED row,
         kind \in HumanVerdicts => Has("needs_human_review"),
         UNCHANGED runner \/ (runner'.pc = "recorded" /\ runner'.verdict = kind),
         \A s \in Sweepers : sweeper'[s] = "row" => sweeper[s] = "row" \/ kind = "swept",
         \A r \in Reviewers : Acted(r)' => Acted(r)
  PROVE  SourceInv'
<1>1. \A k : Has(k)' <=> Has(k) \/ k = kind
  BY HasAfter DEF Typing
<1>2. RowIsBacked'
  BY <1>1 DEF SourceInv, RowIsBacked
<1>3. HumanJudgesEscalated'
  BY <1>1 DEF SourceInv, HumanJudgesEscalated
<1>4. (runner.pc = "recorded" => Has(runner.verdict))'
  BY <1>1 DEF SourceInv
<1>5. \A s \in Sweepers : sweeper'[s] = "row" => Has("swept")'
  BY <1>1 DEF SourceInv
<1>6. \A r \in Reviewers : Acted(r)' => Has("needs_human_review")'
  BY <1>1 DEF SourceInv
<1> QED BY <1>2, <1>3, <1>4, <1>5, <1>6 DEF SourceInv

\* A step that records nothing may write what is accounted for.
LEMMA SourceInvRow ==
  ASSUME Typing, SourceInv, UNCHANGED recorded,
         row' = row \/ row' \notin Verdicts \/ Has(row') \/ (row' = "failed" /\ Has("swept")),
         row' \in HumanVerdicts => row' = row \/ Has("needs_human_review"),
         UNCHANGED runner \/ runner'.pc # "recorded",
         \A s \in Sweepers : sweeper'[s] = "row" => sweeper[s] = "row",
         \A r \in Reviewers : Acted(r)' => Acted(r) \/ Has("needs_human_review")
  PROVE  SourceInv'
<1>1. \A k : Has(k)' <=> Has(k)
  BY SameEvents
<1>2. RowIsBacked'
  BY <1>1 DEF SourceInv, RowIsBacked
<1>3. HumanJudgesEscalated'
  BY <1>1 DEF SourceInv, HumanJudgesEscalated
<1>4. (runner.pc = "recorded" => Has(runner.verdict))'
  BY <1>1 DEF SourceInv
<1>5. \A s \in Sweepers : sweeper'[s] = "row" => Has("swept")'
  BY <1>1 DEF SourceInv
<1>6. \A r \in Reviewers : Acted(r)' => Has("needs_human_review")'
  BY <1>1 DEF SourceInv
<1> QED BY <1>2, <1>3, <1>4, <1>5, <1>6 DEF SourceInv

LEMMA SourceInvStep == Typing /\ SourceInv /\ [Next]_vars => SourceInv'
<1> SUFFICES ASSUME Typing, SourceInv, [Next]_vars  PROVE SourceInv'
  OBVIOUS
<1> USE DEF Acted
<1>1. Outside \in Paths \cup {Outside}
      /\ (runner.pc # "none" => runner.path \in Paths \cup {Outside})
  BY DEF Typing, TypeOK
<1>2. CASE AppendCreated
  BY <1>1, <1>2, SourceInvEvent DEF AppendCreated, Kinds, HumanVerdicts
<1>3. CASE RecordScheduleFailed
  BY <1>1, <1>3, SourceInvEvent DEF RecordScheduleFailed, Kinds, HumanVerdicts
<1>4. CASE RecordRestartFailed
  BY <1>1, <1>4, SourceInvEvent DEF RecordRestartFailed, Kinds, HumanVerdicts
<1>5. CASE Work
  BY <1>1, <1>5, SourceInvEvent DEF Work, Kinds, HumanVerdicts
<1>6. CASE RecordVerdict
  <2>1. PICK v \in Verdicts : /\ RecordEvent(v, runner.path)
                              /\ runner' = [runner EXCEPT !.pc = "recorded", !.verdict = v]
    BY <1>6 DEF RecordVerdict
  <2>2. runner'.pc = "recorded" /\ runner'.verdict = v
    BY <2>1 DEF Typing, TypeOK
  <2>3. v \in Kinds /\ v \notin HumanVerdicts
    BY DEF Kinds, Verdicts, HumanVerdicts
  <2>4. UNCHANGED <<row, sweeper, reviewer>> /\ runner.path \in Paths \cup {Outside}
    BY <1>1, <1>6 DEF RecordVerdict
  <2> QED BY <2>1, <2>2, <2>3, <2>4, SourceInvEvent
<1>7. CASE \E s \in Sweepers : HaltEvent(s)
  <2>1. PICK s \in Sweepers : HaltEvent(s)
    BY <1>7
  <2>2. \A t \in Sweepers : sweeper'[t] = "row" => sweeper[t] = "row" \/ "swept" = "swept"
    OBVIOUS
  <2>3. RecordEvent("swept", Outside) /\ UNCHANGED <<row, runner, reviewer>>
    BY <2>1 DEF HaltEvent
  <2> QED BY <1>1, <2>2, <2>3, SourceInvEvent DEF Kinds, HumanVerdicts
<1>8. CASE \E r \in Reviewers : ReviewEvent(r)
  <2>1. PICK r \in Reviewers : ReviewEvent(r)
    BY <1>8
  <2>2. RecordEvent(reviewer[r].verdict, Outside) /\ UNCHANGED <<row, runner, sweeper>>
    BY <2>1 DEF ReviewEvent
  <2>3. \A q \in Reviewers : Acted(q)' => Acted(q)
    BY <2>1 DEF ReviewEvent, Typing, TypeOK
  <2>4. Acted(r) /\ reviewer[r].verdict \in Kinds
    BY <2>1 DEF ReviewEvent, Typing, HoldsVerdicts, Kinds
  <2>5. Has("needs_human_review")
    BY <2>4 DEF SourceInv
  <2> HIDE DEF Acted
  <2> QED BY <1>1, <2>2, <2>3, <2>4, <2>5, SourceInvEvent
<1>9. CASE InsertRow
  BY <1>9, SourceInvRow DEF InsertRow, Verdicts, HumanVerdicts
<1>10. CASE StartTask
  BY <1>10, SourceInvRow DEF StartTask, StartRunner
<1>11. CASE MarkScheduleFailed
  BY <1>11, SourceInvRow DEF MarkScheduleFailed, Verdicts, HumanVerdicts
<1>12. CASE CreatorDies
  BY <1>12, SourceInvRow DEF CreatorDies
<1>13. CASE UpdateRow
  <2>1. Has(runner.verdict) /\ runner.verdict \in Verdicts
    BY <1>13 DEF UpdateRow, SourceInv, Typing, HoldsVerdicts
  <2>2. Has(row') /\ row' \in Verdicts
    BY <1>13, <2>1 DEF UpdateRow, Has
  <2>3. runner'.pc # "recorded" /\ UNCHANGED <<recorded, sweeper, reviewer>>
    BY <1>13 DEF UpdateRow, Typing, TypeOK
  <2>4. row' \notin HumanVerdicts
    BY <2>2 DEF Verdicts, HumanVerdicts
  <2> QED BY <2>2, <2>3, <2>4, SourceInvRow
<1>14. CASE SelectPending
  BY <1>14, SourceInvRow DEF SelectPending
<1>15. CASE Restart
  BY <1>15, SourceInvRow DEF Restart, StartRunner
<1>16. CASE RestartFails
  BY <1>16, SourceInvRow DEF RestartFails
<1>17. CASE Cancel \/ RunFails
  BY <1>17, SourceInvRow DEF Cancel, RunFails, Typing, TypeOK
<1>18. CASE \E s \in Sweepers : SelectStale(s)
  BY <1>18, SourceInvRow DEF SelectStale, Typing, TypeOK
<1>19. CASE \E s \in Sweepers : HaltRow(s)
  <2>1. PICK s \in Sweepers : HaltRow(s)
    BY <1>19
  <2>2. Has("swept")
    BY <2>1 DEF HaltRow, SourceInv
  <2>3. \A t \in Sweepers : sweeper'[t] = "row" => sweeper[t] = "row"
    BY <2>1 DEF HaltRow, Typing, TypeOK
  <2> QED BY <2>1, <2>2, <2>3, SourceInvRow DEF HaltRow, HumanVerdicts
<1>20. CASE \E r \in Reviewers : CheckEscalated(r) \/ ReviewRow(r) \/ ReviewerDies(r)
  <2>1. PICK r \in Reviewers : CheckEscalated(r) \/ ReviewRow(r) \/ ReviewerDies(r)
    BY <1>20
  <2>2. Has("needs_human_review")
    <3>1. CASE CheckEscalated(r)
      <4>1. Has(row) /\ row = "needs_human_review"
        BY <3>1 DEF CheckEscalated, SourceInv, RowIsBacked, Verdicts
      <4> QED BY <4>1
    <3>2. CASE ReviewRow(r) \/ ReviewerDies(r)
      BY <3>2 DEF ReviewRow, ReviewerDies, SourceInv
    <3> QED BY <2>1, <3>1, <3>2
  <2>3. row' = row \/ row' \notin Verdicts
    BY <2>1 DEF CheckEscalated, ReviewRow, ReviewerDies, Typing, HoldsVerdicts, Verdicts, HumanVerdicts
  <2>4. UNCHANGED <<recorded, runner, sweeper>>
    BY <2>1 DEF CheckEscalated, ReviewRow, ReviewerDies
  <2> QED BY <2>2, <2>3, <2>4, SourceInvRow
<1>21. CASE UNCHANGED vars
  BY <1>21, SourceInvRow DEF vars
<1> QED
  BY <1>2, <1>3, <1>4, <1>5, <1>6, <1>7, <1>8, <1>9, <1>10, <1>11, <1>12, <1>13, <1>14,
     <1>15, <1>16, <1>17, <1>18, <1>19, <1>20, <1>21
  DEF Next, Create, Run, Reconcile, Sweep, Review

LEMMA SourceInvariant == Spec => []SourceInv
BY TypingInvariant, SourceInvInit, SourceInvStep, PTL DEF Spec

\* A human verdict, in the row or in the stream, is on a task that was escalated: in any
\* order of the reviews, the sweeps, the restarts and the runs.
THEOREM HumansJudgeEscalations == Spec => []HumanJudgesEscalated
<1>1. SourceInv => HumanJudgesEscalated
  BY DEF SourceInv
<1> QED BY <1>1, SourceInvariant, PTL

-----------------------------------------------------------------------------
(* The row and the stream agree in the end *)

\* The workflow is there from its first start on, which follows the registration, and
\* nobody else acts on a task before it is registered.
StartInv ==
  /\ runner.pc = "none" <=> starts = 0
  /\ creator \in {"insert", "event"} => starts = 0 /\ reconciler = "idle"

LEMMA StartInvInit == Init => StartInv
BY DEF Init, StartInv

LEMMA StartInvStep == Typing /\ StartInv /\ [Next]_vars => StartInv'
<1> SUFFICES ASSUME Typing, StartInv, [Next]_vars  PROVE StartInv'
  OBVIOUS
<1> USE DEF StartInv, Typing, TypeOK
<1>1. CASE Create
  BY <1>1 DEF Create, InsertRow, AppendCreated, StartTask, StartRunner, RecordScheduleFailed,
              MarkScheduleFailed
<1>2. CASE CreatorDies
  BY <1>2 DEF CreatorDies
<1>3. CASE Run
  BY <1>3 DEF Run, Work, RecordVerdict, UpdateRow, RunFails, Live
<1>4. CASE Reconcile
  BY <1>4 DEF Reconcile, SelectPending, Restart, StartRunner, RestartFails,
              RecordRestartFailed, OldEnough
<1>5. CASE \E s \in Sweepers : Sweep(s)
  BY <1>5 DEF Sweep, SelectStale, HaltEvent, HaltRow
<1>6. CASE \E r \in Reviewers : Review(r) \/ ReviewerDies(r)
  BY <1>6 DEF Review, ReviewerDies, CheckEscalated, ReviewRow, ReviewEvent
<1>7. CASE Cancel
  BY <1>7 DEF Cancel, Live
<1>8. CASE UNCHANGED vars
  BY <1>8 DEF vars
<1> QED BY <1>1, <1>2, <1>3, <1>4, <1>5, <1>6, <1>7, <1>8 DEF Next

\* None of the races has happened that CacheAgrees excepts.
OneActs == \A r, q \in Reviewers : Acted(r) /\ Acted(q) => r = q
Calm ==
  /\ starts < 2 /\ ~Has("swept") /\ OneActs
  /\ \A r \in Reviewers : reviewer[r].pc # "dead"

NoneActs == \A r \in Reviewers : ~Acted(r)
Unwritten == {"none", "pending", "schedule_failed"}

\* Until the workflow has written its verdict to the row the others find nothing to do
\* there; then the verdict stands, until the one reviewer replaces it, and the status of
\* the stream follows.  A start put down as failed may be written over any of it.
Unjudged ==
  runner.pc \in {"none", "running"} =>
     row \in Unwritten /\ NoneActs /\ \A v \in Verdicts \cup HumanVerdicts : ~Has(v)
Reported ==
  runner.pc = "recorded" =>
     /\ row \in Unwritten /\ NoneActs
     /\ \A v \in HumanVerdicts : ~Has(v)
     /\ status \in {runner.verdict, "schedule_failed"}
Written ==
  runner.pc = "closed" =>
     /\ NoneActs => row \in {runner.verdict, "schedule_failed"}
                    /\ status \in {runner.verdict, "schedule_failed"}
     /\ (\A r \in Reviewers : reviewer[r].pc # "done") => \A v \in HumanVerdicts : ~Has(v)
     /\ \A r \in Reviewers : Acted(r) =>
           /\ row = "schedule_failed"
              \/ row = IF reviewer[r].pc = "row" THEN runner.verdict ELSE reviewer[r].verdict
           /\ status = "schedule_failed"
              \/ status = IF reviewer[r].pc = "done" THEN reviewer[r].verdict ELSE runner.verdict
Abandoned == runner.pc \in {"failed", "terminated"} => row \in Unwritten /\ NoneActs
PhaseInv == Calm => Unjudged /\ Reported /\ Written /\ Abandoned

LEMMA PhaseInvInit == Init => PhaseInv
BY DEF Init, PhaseInv, Unjudged, Reported, Written, Abandoned, Unwritten, NoneActs, Acted, Has

\* Nobody but the workflow and the reviewers changes the verdict.
LEMMA PhaseInvOthers ==
  ASSUME Calm, PhaseInv, UNCHANGED reviewer,
         UNCHANGED runner \/ (runner'.pc \in {"failed", "terminated"} /\ Live),
         \/ row' = row \/ row' = "schedule_failed"
         \/ row' = "pending" /\ runner.pc = "none",
         status' = status \/ status' = "schedule_failed" \/ runner.pc \in {"none", "running"},
         \A v \in Verdicts \cup HumanVerdicts : Has(v)' <=> Has(v)
  PROVE  PhaseInv'
<1> USE DEF PhaseInv, NoneActs, Acted
<1>1. Unjudged'  BY DEF Unjudged, Unwritten
<1>2. Reported'  BY DEF Reported, Unwritten
<1>3. Written'   BY DEF Written
<1>4. Abandoned'
  BY DEF Unjudged, Reported, Abandoned, Unwritten, Live
<1> QED BY <1>1, <1>2, <1>3, <1>4

LEMMA PhaseInvStart ==
  ASSUME Calm, StartInv, PhaseInv, StartRunner, starts' < 2,
         UNCHANGED <<row, recorded, status, reviewer>>
  PROVE  PhaseInv'
<1>1. starts = 0 /\ runner.pc = "none" /\ runner'.pc = "running"
  BY DEF StartInv, StartRunner
<1>2. \A k : Has(k)' <=> Has(k)
  BY SameEvents
<1> QED BY <1>1, <1>2 DEF PhaseInv, Unjudged, Reported, Written, Abandoned, NoneActs, Acted

LEMMA PhaseInvVerdict ==
  ASSUME Typing, Calm, PhaseInv, RecordVerdict
  PROVE  PhaseInv'
<1>1. PICK v \in Verdicts : /\ RecordEvent(v, runner.path)
                            /\ runner' = [runner EXCEPT !.pc = "recorded", !.verdict = v]
  BY DEF RecordVerdict
<1>2. runner.pc = "running" /\ runner'.pc = "recorded" /\ runner'.verdict = v
  BY <1>1 DEF Typing, TypeOK, RecordVerdict
<1>3. v \in Kinds /\ v \notin HumanVerdicts /\ runner.path \in Paths \cup {Outside}
  BY DEF Kinds, Verdicts, HumanVerdicts, Typing, TypeOK
<1>4. Unjudged
  BY DEF PhaseInv
<1>5. status' = v /\ \A k \in HumanVerdicts : ~Has(k)'
  BY <1>1, <1>2, <1>3, <1>4, HasAfter, StatusAfter DEF Typing, Unjudged
<1> QED
  BY <1>2, <1>4, <1>5
  DEF PhaseInv, Unjudged, Reported, Written, Abandoned, NoneActs, Acted, RecordVerdict

LEMMA PhaseInvUpdate ==
  ASSUME Typing, Calm, PhaseInv, UpdateRow
  PROVE  PhaseInv'
<1>1. runner.pc = "recorded" /\ runner'.pc = "closed" /\ runner'.verdict = runner.verdict
  BY DEF Typing, TypeOK, UpdateRow
<1>2. \A k : Has(k)' <=> Has(k)
  BY SameEvents DEF UpdateRow
<1> QED
  BY <1>1, <1>2 DEF PhaseInv, Unjudged, Reported, Written, Abandoned, NoneActs, Acted, UpdateRow

LEMMA PhaseInvReview ==
  ASSUME Typing, Calm, Calm', PhaseInv, NEW r \in Reviewers,
         CheckEscalated(r) \/ ReviewRow(r) \/ ReviewEvent(r)
  PROVE  PhaseInv'
<1>1. /\ UNCHANGED runner
      /\ \A q \in Reviewers : q # r => reviewer'[q] = reviewer[q]
      /\ Acted(r)'
  BY DEF CheckEscalated, ReviewRow, ReviewEvent, Typing, TypeOK, Acted
<1>2. \A q \in Reviewers : Acted(q)' => q = r
  BY <1>1 DEF Calm, OneActs
<1>3. \A q \in Reviewers : q # r => ~Acted(q)
  BY <1>1, <1>2 DEF Acted
<1>4. row \notin Unwritten \/ ~NoneActs
  BY DEF CheckEscalated, ReviewRow, ReviewEvent, Unwritten, NoneActs, Acted
<1>5. Unjudged' /\ Reported' /\ Abandoned'
  BY <1>1, <1>4 DEF PhaseInv, Unjudged, Reported, Abandoned
<1>6. CASE runner.pc # "closed"
  BY <1>1, <1>5, <1>6 DEF PhaseInv, Written
<1>7. CASE runner.pc = "closed"
  <2>1. Written
    BY DEF PhaseInv
  <2>2. ~NoneActs'
    BY <1>1 DEF NoneActs
  <2>3. CASE CheckEscalated(r)
    <3>1. NoneActs /\ reviewer'[r].pc = "row" /\ row = "needs_human_review"
      BY <1>3, <2>3 DEF CheckEscalated, NoneActs, Acted, Typing, TypeOK
    <3>2. \A k : Has(k)' <=> Has(k)
      BY <2>3, SameEvents DEF CheckEscalated
    <3>3. \A v \in HumanVerdicts : ~Has(v)'
      BY <1>7, <2>1, <3>1, <3>2 DEF Written, NoneActs, Acted
    <3> QED
      BY <1>1, <1>2, <1>5, <1>7, <2>1, <2>2, <2>3, <3>1, <3>3 DEF PhaseInv, Written, CheckEscalated
  <2>4. CASE ReviewRow(r)
    <3>1. reviewer[r].pc = "row" /\ reviewer'[r].pc = "event"
          /\ reviewer'[r].verdict = reviewer[r].verdict /\ row' = reviewer[r].verdict
      BY <2>4 DEF ReviewRow, Typing, TypeOK
    <3>2. \A k : Has(k)' <=> Has(k)
      BY <2>4, SameEvents DEF ReviewRow
    <3>3. \A v \in HumanVerdicts : ~Has(v)'
      BY <1>3, <1>7, <2>1, <3>1, <3>2 DEF Written, Acted
    <3>4. Acted(r) /\ status' = status
      BY <2>4, <3>1 DEF Acted, ReviewRow
    <3> QED
      BY <1>1, <1>2, <1>5, <1>7, <2>1, <2>2, <3>1, <3>3, <3>4 DEF PhaseInv, Written
  <2>5. CASE ReviewEvent(r)
    <3>1. reviewer[r].pc = "event" /\ reviewer'[r].pc = "done"
          /\ reviewer'[r].verdict = reviewer[r].verdict /\ row' = row
          /\ RecordEvent(reviewer[r].verdict, Outside)
      BY <2>5 DEF ReviewEvent, Typing, TypeOK
    <3>2. reviewer[r].verdict \in HumanVerdicts /\ Acted(r)
      BY <3>1 DEF Typing, HoldsVerdicts, Acted
    <3>3. ~Has(reviewer[r].verdict)
      BY <1>3, <1>7, <2>1, <3>1, <3>2 DEF Written, Acted
    <3>4. reviewer[r].verdict \in Kinds /\ Outside \in Paths \cup {Outside}
      BY <3>2 DEF Kinds
    <3>5. status' = reviewer[r].verdict
      BY <3>1, <3>2, <3>3, <3>4, HasAfter, StatusAfter DEF Typing
    <3> QED
      BY <1>1, <1>2, <1>5, <1>7, <2>1, <2>2, <3>1, <3>2, <3>5 DEF PhaseInv, Written
  <2> QED BY <2>3, <2>4, <2>5
<1> QED BY <1>6, <1>7

\* The excepted races cannot be undone.
LEMMA StepKeeps ==
  ASSUME Typing, [Next]_vars
  PROVE  /\ starts' = starts \/ StartRunner
         /\ recorded \subseteq recorded'
         /\ \A r \in Reviewers : /\ Acted(r) => Acted(r)'
                                 /\ reviewer[r].pc = "dead" => reviewer'[r].pc = "dead"
<1>1. CASE Create
  BY <1>1 DEF Create, InsertRow, AppendCreated, StartTask, RecordScheduleFailed,
              MarkScheduleFailed, RecordEvent, Acted
<1>2. CASE CreatorDies
  BY <1>2 DEF CreatorDies, Acted
<1>3. CASE Run
  BY <1>3 DEF Run, Work, RecordVerdict, UpdateRow, RunFails, RecordEvent, Acted
<1>4. CASE Reconcile
  BY <1>4 DEF Reconcile, SelectPending, Restart, RestartFails, RecordRestartFailed,
              RecordEvent, Acted
<1>5. CASE \E s \in Sweepers : Sweep(s)
  BY <1>5 DEF Sweep, SelectStale, HaltEvent, HaltRow, RecordEvent, Acted
<1>6. CASE \E r \in Reviewers : Review(r) \/ ReviewerDies(r)
  BY <1>6 DEF Review, ReviewerDies, CheckEscalated, ReviewRow, ReviewEvent, RecordEvent,
              Acted, Typing, TypeOK
<1>7. CASE Cancel
  BY <1>7 DEF Cancel, Acted
<1>8. CASE UNCHANGED vars
  BY <1>8 DEF vars, Acted
<1> QED BY <1>1, <1>2, <1>3, <1>4, <1>5, <1>6, <1>7, <1>8 DEF Next

LEMMA CalmBefore ==
  ASSUME Typing, [Next]_vars, Calm'
  PROVE  Calm
<1>1. starts < 2
  BY StepKeeps DEF Calm, StartRunner, Typing, TypeOK
<1>2. ~Has("swept")
  BY StepKeeps DEF Calm, Has
<1>3. OneActs /\ \A r \in Reviewers : reviewer[r].pc # "dead"
  BY StepKeeps DEF Calm, OneActs
<1> QED BY <1>1, <1>2, <1>3 DEF Calm

LEMMA PhaseInvStep == Typing /\ SourceInv /\ StartInv /\ PhaseInv /\ [Next]_vars => PhaseInv'
<1> SUFFICES ASSUME Typing, SourceInv, StartInv, PhaseInv, [Next]_vars, Calm'  PROVE PhaseInv'
  BY DEF PhaseInv
<1>1. Calm /\ starts' < 2
  BY CalmBefore DEF Calm
<1>2. Outside \in Paths \cup {Outside}
      /\ (runner.pc # "none" => runner.path \in Paths \cup {Outside})
  BY DEF Typing, TypeOK
<1>3. ASSUME NEW kind \in Kinds \ (Verdicts \cup HumanVerdicts),
             NEW path \in Paths \cup {Outside}, RecordEvent(kind, path)
      PROVE  /\ \A v \in Verdicts \cup HumanVerdicts : Has(v)' <=> Has(v)
             /\ status' = status \/ status' = StatusOf(kind)
  BY <1>3, HasAfter DEF Typing, RecordEvent
<1>4. {"created", "progress", "swept", "schedule_failed"}
        \subseteq Kinds \ (Verdicts \cup HumanVerdicts)
  BY DEF Kinds, Verdicts, HumanVerdicts
<1>5. UNCHANGED recorded => \A v \in Verdicts \cup HumanVerdicts : Has(v)' <=> Has(v)
  BY SameEvents
<1>6. StatusOf("schedule_failed") = "schedule_failed"
  BY DEF StatusOf
<1>7. CASE InsertRow
  BY <1>1, <1>5, <1>7, PhaseInvOthers DEF InsertRow, StartInv
<1>8. CASE AppendCreated
  BY <1>1, <1>2, <1>3, <1>4, <1>8, PhaseInvOthers DEF AppendCreated, StartInv
<1>9. CASE StartTask
  <2>1. CASE StartRunner
    BY <1>1, <1>9, <2>1, PhaseInvStart DEF StartTask
  <2>2. CASE UNCHANGED <<runner, starts>>
    BY <1>1, <1>5, <1>9, <2>2, PhaseInvOthers DEF StartTask
  <2> QED BY <1>9, <2>1, <2>2 DEF StartTask
<1>10. CASE RecordScheduleFailed
  BY <1>1, <1>2, <1>3, <1>4, <1>6, <1>10, PhaseInvOthers DEF RecordScheduleFailed
<1>11. CASE MarkScheduleFailed
  BY <1>1, <1>5, <1>11, PhaseInvOthers DEF MarkScheduleFailed
<1>12. CASE CreatorDies
  BY <1>1, <1>5, <1>12, PhaseInvOthers DEF CreatorDies
<1>13. CASE Work
  BY <1>1, <1>2, <1>3, <1>4, <1>13, PhaseInvOthers DEF Work
<1>14. CASE RecordVerdict
  BY <1>1, <1>14, PhaseInvVerdict
<1>15. CASE UpdateRow
  BY <1>1, <1>15, PhaseInvUpdate
<1>16. CASE SelectPending
  BY <1>1, <1>5, <1>16, PhaseInvOthers DEF SelectPending
<1>17. CASE Restart
  BY <1>1, <1>17, PhaseInvStart DEF Restart
<1>18. CASE RestartFails
  BY <1>1, <1>5, <1>18, PhaseInvOthers DEF RestartFails
<1>19. CASE RecordRestartFailed
  BY <1>1, <1>2, <1>3, <1>4, <1>6, <1>19, PhaseInvOthers DEF RecordRestartFailed
<1>20. CASE \E s \in Sweepers : SelectStale(s)
  BY <1>1, <1>5, <1>20, PhaseInvOthers DEF SelectStale
<1>21. CASE \E s \in Sweepers : HaltEvent(s)
  <2>1. RecordEvent("swept", Outside)
    BY <1>21 DEF HaltEvent
  <2>2. Has("swept")'
    BY <1>2, <1>4, <2>1, HasAfter DEF Typing
  <2> QED BY <2>2 DEF Calm
<1>22. CASE \E s \in Sweepers : HaltRow(s)
  BY <1>1, <1>22 DEF HaltRow, SourceInv, Calm
<1>23. CASE \E r \in Reviewers : CheckEscalated(r) \/ ReviewRow(r) \/ ReviewEvent(r)
  BY <1>1, <1>23, PhaseInvReview
<1>24. CASE \E r \in Reviewers : ReviewerDies(r)
  BY <1>24 DEF ReviewerDies, Calm, Typing, TypeOK
<1>25. CASE Cancel \/ RunFails
  BY <1>1, <1>5, <1>25, PhaseInvOthers DEF Cancel, RunFails, Typing, TypeOK
<1>26. CASE UNCHANGED vars
  BY <1>1, <1>5, <1>26, PhaseInvOthers DEF vars
<1> QED
  BY <1>7, <1>8, <1>9, <1>10, <1>11, <1>12, <1>13, <1>14, <1>15, <1>16, <1>17, <1>18, <1>19,
     <1>20, <1>21, <1>22, <1>23, <1>24, <1>25, <1>26
  DEF Next, Create, Run, Reconcile, Sweep, Review

LEMMA PhaseInvariant == Spec => [](StartInv /\ PhaseInv)
<1>1. Init => StartInv /\ PhaseInv
  BY StartInvInit, PhaseInvInit
<1>2. Typing /\ SourceInv /\ (StartInv /\ PhaseInv) /\ [Next]_vars => (StartInv /\ PhaseInv)'
  BY StartInvStep, PhaseInvStep
<1> QED BY <1>1, <1>2, TypingInvariant, SourceInvariant, PTL DEF Spec

\* Fewer than two of a finite set are at most one.
LEMMA FewerThanTwo ==
  ASSUME NEW S, IsFiniteSet(S), Cardinality(S) < 2, NEW a \in S, NEW b \in S
  PROVE  a = b
<1> SUFFICES ASSUME a # b  PROVE FALSE
  OBVIOUS
<1>1. {a} \subseteq S \ {b} /\ IsFiniteSet(S \ {b}) /\ IsFiniteSet({a})
  BY FS_RemoveElement, FS_Singleton
<1>2. Cardinality({a}) = 1 /\ Cardinality({a}) <= Cardinality(S \ {b})
  BY <1>1, FS_Subset, FS_Singleton
<1>3. Cardinality(S \ {b}) = Cardinality(S) - 1 /\ Cardinality(S) \in Nat
  BY FS_RemoveElement, FS_CardinalityType
<1> QED BY <1>2, <1>3

\* When everybody has finished, the row and the stream agree on the verdict, but for the
\* races that CacheAgrees names: none of them matters unless it happened.
LEMMA PhasesAgree == Typing /\ StartInv /\ PhaseInv => CacheAgrees
<1> SUFFICES ASSUME Typing, StartInv, PhaseInv, Quiet, starts = 1, ~Has("swept"),
                    row # "schedule_failed", status # "schedule_failed",
                    Cardinality({r \in Reviewers : reviewer[r].pc = "done"}) < 2
             PROVE  row = status \/ (runner.pc # "closed" /\ row = "pending")
  BY DEF CacheAgrees
<1> DEFINE Done == {r \in Reviewers : reviewer[r].pc = "done"}
<1>1. IsFiniteSet(Done)
  BY ReviewersAssumption, FS_Subset
<1>2. \A r \in Reviewers : Acted(r) => r \in Done
  BY DEF Quiet, Acted
<1>3. \A r, q \in Reviewers : Acted(r) /\ Acted(q) => r = q
  <2> TAKE r, q \in Reviewers
  <2> HAVE Acted(r) /\ Acted(q)
  <2>1. r \in Done /\ q \in Done
    BY <1>2
  <2> HIDE DEF Done
  <2> QED BY <1>1, <2>1, FewerThanTwo DEF Done
<1>4. Calm
  BY <1>3 DEF Calm, OneActs, Quiet
<1>5. Written /\ Abandoned
  BY <1>4 DEF PhaseInv
<1>6. CASE runner.pc # "closed"
  <2>1. runner.pc \in {"failed", "terminated"}
    BY <1>6 DEF Quiet, Live, StartInv, Typing, TypeOK
  <2>2. row # "none"
    BY DEF Quiet, Typing, TypeOK
  <2> QED BY <1>5, <1>6, <2>1, <2>2 DEF Abandoned, Unwritten
<1>7. CASE runner.pc = "closed" /\ NoneActs
  BY <1>5, <1>7 DEF Written
<1>8. CASE runner.pc = "closed" /\ ~NoneActs
  <2>1. PICK r \in Reviewers : Acted(r)
    BY <1>8 DEF NoneActs
  <2>2. reviewer[r].pc = "done"
    BY <2>1 DEF Quiet, Acted
  <2> QED BY <1>5, <1>8, <2>1, <2>2 DEF Written
<1> QED BY <1>6, <1>7, <1>8

\* tasks.status shows no machine verdict that the stream cannot account for, whoever died;
\* and once everybody is done it is the verdict of the stream, or pending still if the run
\* died or was terminated before it wrote the row, unless the task ran twice, was swept
\* while it ran, was reviewed by two at once, or a start was put down as failed.
THEOREM RowsAreHonest == Spec => []RowIsHonest
<1>1. Typing /\ SourceInv /\ StartInv /\ PhaseInv => RowIsHonest
  BY PhasesAgree DEF RowIsHonest, SourceInv
<1> QED BY <1>1, TypingInvariant, SourceInvariant, PhaseInvariant, PTL

-----------------------------------------------------------------------------
(* Doors: what is said of a task and done *)

DoorTyping ==
  /\ doorRow \in [DoorTasks -> {"none", "pending", "completed", "needs_human_review", "human_approved",
                                "human_rejected", "schedule_failed"}]
  /\ said \in [DoorTasks -> {"none", "created", "schedule_failed", "judged", "ended"}]
  /\ flow \in [DoorTasks -> {"none", "running", "over"}]
  /\ opened \in [DoorTasks -> {"none", "api", "cli", "mcp", "closed", "left"}]
  /\ schedules \in [DoorSchedules -> {"none", "active", "paused"}]
DoorInv == DoorTyping /\ DoorsAreHonest

LEMMA TasksComeKeep ==
  ASSUME DoorInv, NEW t \in DoorTasks,
         RefusesTask(t) \/ PostTask(t) \/ McpTask(t) \/ RerunTask(t) \/ StartCommand(t) \/ RunEnds(t)
  PROVE  DoorInv'
<1>1. DoorTyping /\ NoneIsLost
  BY DEF DoorInv, DoorsAreHonest
<1>2. ASSUME NEW door \in {"api", "mcp", "cli"}, Registers(door, t)
      PROVE  DoorInv'
  <2>1. DoorTyping'
    BY <1>1, <1>2 DEF Registers, DoorTyping
  <2>2. NoneIsLost'
    BY <1>1, <1>2 DEF Registers, DoorTyping, NoneIsLost
  <2>3. DoneIsDone'
    BY <1>2 DEF Registers, DoneIsDone, NobodyAsked
  <2> QED BY <2>1, <2>2, <2>3 DEF DoorInv, DoorsAreHonest
<1>3. ASSUME NEW op \in {"create", "rerun"}, NEW gave \in {"refused", "missing", "hint"},
             Answers(op, t, gave), gave = "missing" => op = "rerun", TasksKept, UNCHANGED <<mode, temporal, schedules>>
      PROVE  DoorInv'
  <2>1. DoorTyping' /\ NoneIsLost'
    BY <1>1, <1>3 DEF TasksKept, DoorTyping, NoneIsLost
  <2>2. DoneIsDone'
    BY <1>3 DEF Answers, DoneIsDone
  <2> QED BY <2>1, <2>2 DEF DoorInv, DoorsAreHonest
<1>4. CASE RunEnds(t)
  <2>1. DoorTyping' /\ NoneIsLost'
    BY <1>1, <1>4 DEF RunEnds, DoorTyping, NoneIsLost
  <2>2. DoneIsDone'
    BY <1>4 DEF RunEnds, DoneIsDone, NobodyAsked
  <2> QED BY <2>1, <2>2 DEF DoorInv, DoorsAreHonest
<1> QED BY <1>2, <1>3, <1>4 DEF RefusesTask, PostTask, McpTask, RerunTask, StartCommand

LEMMA TasksStartKeep ==
  ASSUME DoorInv, NEW t \in DoorTasks,
         StartShared(t) \/ StartFromCommand(t) \/ ReconcileCommand(t)
  PROVE  DoorInv'
<1>1. DoorTyping /\ NoneIsLost
  BY DEF DoorInv, DoorsAreHonest
<1>2. CASE StartShared(t)
  <2>1. CASE mode = "lite" \/ temporal
    <3>1. /\ opened' = [opened EXCEPT ![t] = "closed"] /\ flow' = [flow EXCEPT ![t] = "running"]
          /\ Answers("create", t, "done") /\ UNCHANGED <<doorRow, said, schedules>>
      BY <1>2, <2>1 DEF StartShared
    <3>2. DoorTyping' /\ NoneIsLost'
      BY <1>1, <3>1 DEF DoorTyping, NoneIsLost
    <3>3. DoneIsDone'
      BY <1>1, <3>1 DEF Answers, DoneIsDone, DoorTyping
    <3> QED BY <3>2, <3>3 DEF DoorInv, DoorsAreHonest
  <2>2. CASE ~(mode = "lite" \/ temporal)
    <3>1. /\ opened' = [opened EXCEPT ![t] = "closed"] /\ RecordUnscheduled(t)
          /\ Answers("create", t, "not scheduled") /\ UNCHANGED <<flow, schedules>>
      BY <1>2, <2>2 DEF StartShared
    <3>2. DoorTyping' /\ NoneIsLost'
      BY <1>1, <3>1 DEF RecordUnscheduled, DoorTyping, NoneIsLost
    <3>3. DoneIsDone'
      BY <3>1 DEF Answers, DoneIsDone
    <3> QED BY <3>2, <3>3 DEF DoorInv, DoorsAreHonest
  <2> QED BY <2>1, <2>2
<1>3. CASE StartFromCommand(t)
  <2>1. DoorTyping' /\ NoneIsLost'
    BY <1>1, <1>3 DEF StartFromCommand, DoorTyping, NoneIsLost
  <2>2. DoneIsDone'
    BY <1>1, <1>3 DEF StartFromCommand, Answers, DoneIsDone, DoorTyping
  <2> QED BY <2>1, <2>2 DEF DoorInv, DoorsAreHonest
<1>4. CASE ReconcileCommand(t)
  <2>1. CASE temporal /\ flow[t] # "running"
    <3>1. /\ flow' = [flow EXCEPT ![t] = "running"] /\ Answers("reconcile", t, "done")
          /\ UNCHANGED <<said, doorRow, opened, schedules>>
      BY <1>4, <2>1 DEF ReconcileCommand
    <3>2. DoorTyping' /\ NoneIsLost'
      BY <1>1, <3>1 DEF DoorTyping, NoneIsLost
    <3>3. DoneIsDone'
      BY <1>1, <3>1 DEF Answers, DoneIsDone, DoorTyping
    <3> QED BY <3>2, <3>3 DEF DoorInv, DoorsAreHonest
  <2>2. CASE ~(temporal /\ flow[t] # "running")
    <3>1. /\ said' = [said EXCEPT ![t] = "schedule_failed"] /\ Answers("reconcile", t, "failed")
          /\ UNCHANGED <<flow, doorRow, opened, schedules>>
      BY <1>4, <2>2 DEF ReconcileCommand
    <3>2. DoorTyping' /\ NoneIsLost'
      BY <1>1, <3>1 DEF DoorTyping, NoneIsLost
    <3>3. DoneIsDone'
      BY <3>1 DEF Answers, DoneIsDone
    <3> QED BY <3>2, <3>3 DEF DoorInv, DoorsAreHonest
  <2> QED BY <2>1, <2>2
<1> QED BY <1>2, <1>3, <1>4

LEMMA TasksEndKeep ==
  ASSUME DoorInv, NEW t \in DoorTasks, CancelTask(t) \/ McpCancel(t) \/ JudgeTask(t)
  PROVE  DoorInv'
<1>1. DoorTyping /\ NoneIsLost
  BY DEF DoorInv, DoorsAreHonest
<1>2. ASSUME flow' = [flow EXCEPT ![t] = "over"], flow[t] = "running",
             NEW gave \in {"done", "failed", "raised"}, Answers("cancel", t, gave),
             UNCHANGED <<doorRow, said, opened, schedules>>
      PROVE  DoorInv'
  <2>1. DoorTyping' /\ NoneIsLost'
    BY <1>1, <1>2 DEF DoorTyping, NoneIsLost
  <2>2. DoneIsDone'
    BY <1>1, <1>2 DEF Answers, DoneIsDone, DoorTyping
  <2> QED BY <2>1, <2>2 DEF DoorInv, DoorsAreHonest
<1>3. ASSUME NEW gave \in {"missing", "failed"}, Answers("cancel", t, gave),
             gave = "missing" => flow[t] # "running",
             UNCHANGED <<flow, doorRow, said, opened, schedules>>
      PROVE  DoorInv'
  <2>1. DoorTyping' /\ NoneIsLost'
    BY <1>1, <1>3 DEF DoorTyping, NoneIsLost
  <2>2. DoneIsDone'
    BY <1>1, <1>3 DEF Answers, DoneIsDone
  <2> QED BY <2>1, <2>2 DEF DoorInv, DoorsAreHonest
<1>4. CASE CancelTask(t)
  <2>1. CASE flow'[t] # flow[t]
    BY <1>1, <1>2, <1>4, <2>1 DEF CancelTask, TerminateFlow
  <2>2. CASE flow'[t] = flow[t]
    <3>1. flow' = flow /\ UNCHANGED <<doorRow, said, opened, schedules>>
      BY <1>1, <1>4, <2>2 DEF CancelTask, TerminateFlow, DoorTyping
    <3>2. \E gave \in {"missing", "failed"} : Answers("cancel", t, gave) /\ (gave = "missing" => flow[t] # "running")
      BY <1>1, <1>4, <2>2 DEF CancelTask, TerminateFlow, DoorTyping
    <3> QED BY <1>3, <3>1, <3>2
  <2> QED BY <2>1, <2>2
<1>5. CASE McpCancel(t)
  BY <1>2, <1>3, <1>5 DEF McpCancel
<1>6. CASE JudgeTask(t)
  <2>1. CASE doorRow[t] = "needs_human_review"
    <3>1. PICK s \in {"human_approved", "human_rejected"} : doorRow' = [doorRow EXCEPT ![t] = s]
      BY <1>6, <2>1 DEF JudgeTask
    <3>2. /\ said' = [said EXCEPT ![t] = "judged"] /\ Answers("judge", t, "done")
          /\ UNCHANGED <<flow, opened, schedules>>
      BY <1>6, <2>1 DEF JudgeTask
    <3>3. DoorTyping' /\ NoneIsLost'
      BY <1>1, <2>1, <3>1, <3>2 DEF DoorTyping, NoneIsLost
    <3>4. DoneIsDone'
      BY <1>1, <3>2 DEF Answers, DoneIsDone, DoorTyping
    <3> QED BY <3>3, <3>4 DEF DoorInv, DoorsAreHonest
  <2>2. CASE doorRow[t] # "needs_human_review"
    <3>1. PICK gave \in {"missing", "failed"} :
             Answers("judge", t, gave) /\ (gave = "missing" => doorRow[t] = "none")
      BY <1>6, <2>2 DEF JudgeTask
    <3>2. UNCHANGED <<doorRow, said, flow, opened, schedules>>
      BY <1>6, <2>2 DEF JudgeTask
    <3>3. DoorTyping' /\ NoneIsLost'
      BY <1>1, <3>2 DEF DoorTyping, NoneIsLost
    <3>4. DoneIsDone'
      BY <3>1, <3>2 DEF Answers, DoneIsDone
    <3> QED BY <3>3, <3>4 DEF DoorInv, DoorsAreHonest
  <2> QED BY <2>1, <2>2
<1> QED BY <1>4, <1>5, <1>6

LEMMA SchedulesKeep ==
  ASSUME DoorInv, NEW s \in DoorSchedules,
         \/ PostSchedule(s) \/ CreateCommand(s) \/ McpSchedule(s) \/ DeleteSchedule(s)
         \/ DeleteCommand(s) \/ McpDelete(s) \/ PauseSchedule(s) \/ PauseCommand(s)
  PROVE  DoorInv'
<1>1. DoorTyping /\ NoneIsLost
  BY DEF DoorInv, DoorsAreHonest
<1>2. TasksKept
  BY DEF PostSchedule, CreateCommand, McpSchedule, DeleteSchedule, DeleteCommand, McpDelete,
         PauseSchedule, PauseCommand
<1>3. NoneIsLost'
  BY <1>1, <1>2 DEF TasksKept, NoneIsLost
<1>4. ASSUME NEW op \in {"schedule", "delete", "pause"}, Answers(op, s, answer'.gave),
             schedules' \in [DoorSchedules -> {"none", "active", "paused"}],
             answer'.gave = "done" => (op = "delete" <=> schedules'[s] = "none"),
             answer'.gave = "missing" => op # "schedule" /\ schedules'[s] = "none"
      PROVE  DoorInv'
  <2>1. DoorTyping'
    BY <1>1, <1>2, <1>4 DEF TasksKept, DoorTyping
  <2>2. answer'.op = op /\ answer'.of = s
    BY <1>4 DEF Answers
  <2>3. DoneIsDone'
    BY <1>4, <2>2 DEF DoneIsDone
  <2> QED BY <1>3, <2>1, <2>3 DEF DoorInv, DoorsAreHonest
<1>5. CASE PostSchedule(s) \/ CreateCommand(s) \/ McpSchedule(s)
  <2>1. CASE PutsSchedule(s)
    BY <1>1, <1>4, <2>1 DEF PutsSchedule, Answers, DoorTyping
  <2>2. CASE \E gave \in {"refused", "failed", "unreachable"} :
               UNCHANGED schedules /\ Answers("schedule", s, gave)
    BY <1>1, <1>4, <2>2 DEF Answers, DoorTyping
  <2> QED BY <1>5, <2>1, <2>2 DEF PostSchedule, CreateCommand, McpSchedule
<1>6. CASE DeleteSchedule(s) \/ DeleteCommand(s) \/ McpDelete(s)
  <2>1. CASE Removes(s)
    BY <1>1, <1>4, <2>1 DEF Removes, Answers, DoorTyping
  <2>2. CASE \E gave \in {"unreachable", "raised"} : UNCHANGED schedules /\ Answers("delete", s, gave)
    BY <1>1, <1>4, <2>2 DEF Answers, DoorTyping
  <2> QED BY <1>6, <2>1, <2>2 DEF DeleteSchedule, DeleteCommand, McpDelete
<1>7. CASE PauseSchedule(s) \/ PauseCommand(s)
  <2>1. PICK to \in {"paused", "active"} : Pauses(s, to)
    BY <1>7 DEF PauseSchedule, PauseCommand
  <2>2. CASE schedules[s] # "none" /\ Keeper
    BY <1>1, <1>4, <2>1, <2>2 DEF Pauses, Answers, DoorTyping
  <2>3. CASE ~(schedules[s] # "none" /\ Keeper)
    <3>1. PICK gave \in {"missing", "unreachable"} :
             Answers("pause", s, gave) /\ UNCHANGED schedules /\ (gave = "missing" => mode = "lite")
      BY <2>1, <2>3 DEF Pauses
    <3>2. mode = "lite" => schedules[s] = "none"
      BY <2>3 DEF Keeper
    <3> QED BY <1>1, <1>4, <3>1, <3>2 DEF Answers, DoorTyping
  <2> QED BY <2>2, <2>3
<1> QED BY <1>5, <1>6, <1>7

\* api/app.py, cli.py, mcp/server.py and core/tasks.py: whichever door is used, for any
\* number of tasks and schedules and whenever Temporal comes or goes, what a door says was
\* done has been done, and a task that did not start says so in its stream and its row.
THEOREM DoorsHonest == DoorSpec => []DoorsAreHonest
<1>1. DoorInit => DoorInv
  <2> SUFFICES ASSUME DoorInit  PROVE DoorInv
    OBVIOUS
  <2>1. DoorTyping /\ NoneIsLost
    BY DEF DoorInit, DoorTyping, NoneIsLost
  <2>2. DoneIsDone
    BY DEF DoorInit, DoneIsDone, NobodyAsked
  <2> QED BY <2>1, <2>2 DEF DoorInv, DoorsAreHonest
<1>2. DoorInv /\ [DoorNext]_doorVars => DoorInv'
  <2> SUFFICES ASSUME DoorInv, [DoorNext]_doorVars  PROVE DoorInv'
    OBVIOUS
  <2>1. CASE UNCHANGED doorVars
    BY <2>1 DEF doorVars, DoorInv, DoorTyping, DoorsAreHonest, NoneIsLost, DoneIsDone
  <2>2. CASE TemporalFlips
    <3>1. DoorTyping' /\ NoneIsLost'
      BY <2>2 DEF TemporalFlips, TasksKept, DoorInv, DoorsAreHonest, DoorTyping, NoneIsLost
    <3>2. DoneIsDone'
      BY <2>2 DEF TemporalFlips, NobodyAsked, DoneIsDone
    <3> QED BY <3>1, <3>2 DEF DoorInv, DoorsAreHonest
  <2>3. CASE \E t \in DoorTasks :
               \/ RunEnds(t) \/ RefusesTask(t) \/ PostTask(t) \/ McpTask(t) \/ RerunTask(t)
               \/ StartCommand(t) \/ StartShared(t) \/ StartFromCommand(t) \/ ReconcileCommand(t)
               \/ CancelTask(t) \/ McpCancel(t) \/ JudgeTask(t)
    BY <2>3, TasksComeKeep, TasksStartKeep, TasksEndKeep
  <2>4. CASE \E s \in DoorSchedules :
               \/ PostSchedule(s) \/ CreateCommand(s) \/ McpSchedule(s)
               \/ DeleteSchedule(s) \/ DeleteCommand(s) \/ McpDelete(s)
               \/ PauseSchedule(s) \/ PauseCommand(s)
    BY <2>4, SchedulesKeep
  <2> QED BY <2>1, <2>2, <2>3, <2>4 DEF DoorNext
<1>3. DoorInv => DoorsAreHonest
  BY DEF DoorInv
<1> QED BY <1>1, <1>2, <1>3, PTL DEF DoorSpec

-----------------------------------------------------------------------------
(* Sandbox: what a closed sandbox leaves and what an applied diff is *)

SandboxTyping ==
  /\ sandbox \in [state : {"closed", "starting", "open"}, local : BOOLEAN, tries : Int, uses : Int]
  /\ DOMAIN files = PatchedFiles /\ diff \in SandboxDiffs \cup {<<>>}

\* A container that may be there although nobody said so is one that a docker command lost.
ContainerInv ==
  /\ sandbox.local => container = "absent" /\ sandbox.state # "starting"
  /\ sandbox.state # "open" /\ ~cutShort => container = "absent"

SandboxInv == SandboxTyping /\ ContainerInv /\ EditsAreApplied

\* Programs that apply a diff never put back what is changed.
LEMMA ChangesStay ==
  ASSUME NEW d, NEW f \in PatchedFiles, DOMAIN files = PatchedFiles
  PROVE  /\ DOMAIN Applied(d).files = PatchedFiles
         /\ files[f] = "changed" => Applied(d).files[f] = "changed"
<1> DEFINE p1 == Change(d, TakenP1(d), files)
           p0 == Change(d, TakenP0(d, p1), p1)
<1>1. \A I, fs : /\ DOMAIN Change(d, I, fs) = PatchedFiles
                 /\ fs[f] = "changed" => Change(d, I, fs)[f] = "changed"
  BY DEF Change
<1>2. Applied(d).files \in {Change(d, DOMAIN d, files), p1, p0}
  BY DEF Applied
<1>3. /\ DOMAIN p1 = PatchedFiles /\ DOMAIN p0 = PatchedFiles
      /\ files[f] = "changed" => p1[f] = "changed" /\ p0[f] = "changed"
  BY <1>1
<1> HIDE DEF p1, p0
<1> QED BY <1>1, <1>2, <1>3

\* A diff of edits only is reported applied when every file it names was changed.
LEMMA SuccessIsOfEdits ==
  ASSUME NEW d, Applied(d).ok, \A i \in DOMAIN d : d[i].kind = "edit" /\ d[i].file \in PatchedFiles
  PROVE  \A i \in DOMAIN d : Applied(d).files[d[i].file] = "changed"
<1> DEFINE p1 == Change(d, TakenP1(d), files)
           p0 == Change(d, TakenP0(d, p1), p1)
<1>1. \A fs, i : i \in DOMAIN d => Change(d, DOMAIN d, fs)[d[i].file] = "changed"
  BY DEF Change
<1>2. CASE GitApplies(d)
  <2>1. Applied(d).files = Change(d, DOMAIN d, files)
    BY <1>2 DEF Applied
  <2> QED BY <1>1, <2>1
<1>3. CASE ~GitApplies(d) /\ TakenP1(d) = DOMAIN d
  <2>1. Applied(d).files = Change(d, DOMAIN d, files)
    BY <1>3 DEF Applied
  <2> QED BY <1>1, <2>1
<1>4. CASE ~GitApplies(d) /\ TakenP1(d) # DOMAIN d
  <2>1. Applied(d).files = p0 /\ TakenP0(d, p1) \cup StrayP0(d) = DOMAIN d
    BY <1>4 DEF Applied
  <2>2. StrayP0(d) = {}
    BY DEF StrayP0
  <2>3. p0 = Change(d, DOMAIN d, p1)
    BY <2>1, <2>2
  <2> QED BY <1>1, <2>1, <2>3
<1> QED BY <1>2, <1>3, <1>4

LEMMA SectionsKeep ==
  ASSUME NEW d \in SandboxDiffs
  PROVE  /\ DOMAIN Repaired(Headed(d)) = DOMAIN d
         /\ \A i \in DOMAIN d : /\ Repaired(Headed(d))[i].file = d[i].file /\ d[i].file \in PatchedFiles
                                /\ Repaired(Headed(d))[i].kind = d[i].kind
<1>1. \A i \in DOMAIN d : d[i] \in Section
  BY DEF SandboxDiffs
<1>2. DOMAIN Headed(d) = DOMAIN d
  BY DEF Headed
<1>3. \A i \in DOMAIN d : /\ Headed(d)[i] \in [file : PatchedFiles, headers : {"git", "none", "plain"},
                                             prefixed : BOOLEAN, kind : {"edit", "new"}]
                          /\ Headed(d)[i].file = d[i].file /\ Headed(d)[i].kind = d[i].kind
  BY <1>1 DEF Headed, Section
<1>4. DOMAIN Repaired(Headed(d)) = DOMAIN d
  BY <1>2 DEF Repaired
<1>5. \A i \in DOMAIN d : /\ Repaired(Headed(d))[i].file = Headed(d)[i].file
                          /\ Repaired(Headed(d))[i].kind = Headed(d)[i].kind
  BY <1>2, <1>3 DEF Repaired
<1> QED BY <1>1, <1>3, <1>4, <1>5 DEF Section

LEMMA LifeKeeps ==
  ASSUME SandboxInv,
         \/ OpenSandbox \/ ContainerStarts \/ ContainerFails \/ ContainerGivenUp \/ CloseSandbox \/ CloseLocal
  PROVE  SandboxInv'
<1>1. SandboxTyping /\ ContainerInv /\ EditsAreApplied
  BY DEF SandboxInv
<1>2. CASE OpenSandbox
  <2>1. PICK u \in Int : u = sandbox.uses + 1
    BY <1>1 DEF SandboxTyping
  <2>2. /\ sandbox' \in [state : {"closed", "starting", "open"}, local : BOOLEAN, tries : Int, uses : Int]
        /\ sandbox'.local = sandbox.local
        /\ sandbox'.state = IF sandbox.local THEN "open" ELSE "starting"
    <3>1. PICK st \in {"open", "starting"} : st = IF sandbox.local THEN "open" ELSE "starting"
      OBVIOUS
    <3>2. sandbox' = [sandbox EXCEPT !.state = st, !.tries = 0, !.uses = u]
      BY <1>2, <2>1, <3>1 DEF OpenSandbox
    <3>3. sandbox' = [state |-> st, local |-> sandbox.local, tries |-> 0, uses |-> u]
      BY <1>1, <3>2 DEF SandboxTyping
    <3>4. sandbox.local \in BOOLEAN
      BY <1>1 DEF SandboxTyping
    <3> QED BY <3>1, <3>3, <3>4
  <2>3. container' = "absent" /\ diff' = <<>> /\ exit' = "none" /\ files' = files
    BY <1>2 DEF OpenSandbox
  <2> QED BY <1>1, <2>2, <2>3 DEF SandboxInv, SandboxTyping, ContainerInv, EditsAreApplied
<1>3. CASE ~OpenSandbox
  <2>1. UNCHANGED <<files, diff, exit>>
    BY <1>3 DEF ContainerStarts, ContainerFails, ContainerGivenUp, CloseSandbox, CloseLocal
  <2>2. PICK n \in Int : n = sandbox.tries + 1
    BY <1>1 DEF SandboxTyping
  <2>3. /\ sandbox' \in [state : {"closed", "starting", "open"}, local : BOOLEAN, tries : Int, uses : Int]
        /\ sandbox'.local = sandbox.local
    <3>1. CASE ContainerFails
      <4>1. sandbox' = [sandbox EXCEPT !.tries = n]
        BY <2>2, <3>1 DEF ContainerFails
      <4> QED BY <1>1, <4>1 DEF SandboxTyping
    <3>2. CASE ~ContainerFails
      <4>1. PICK st \in {"closed", "open"} : sandbox' = [sandbox EXCEPT !.state = st]
        BY <1>3, <3>2 DEF ContainerStarts, ContainerGivenUp, CloseSandbox, CloseLocal
      <4> QED BY <1>1, <4>1 DEF SandboxTyping
    <3> QED BY <3>1, <3>2
  <2>4. ContainerInv'
    <3>1. CASE ContainerStarts
      BY <1>1, <3>1 DEF ContainerStarts, ContainerInv, SandboxTyping
    <3>2. CASE ContainerFails
      <4>1. sandbox'.state = sandbox.state
        BY <1>1, <2>2, <3>2 DEF ContainerFails, SandboxTyping
      <4> QED BY <1>1, <2>3, <3>2, <4>1 DEF ContainerFails, ContainerInv
    <3>3. CASE ContainerGivenUp
      BY <1>1, <3>3 DEF ContainerGivenUp, ContainerInv, SandboxTyping
    <3>4. CASE CloseSandbox
      BY <1>1, <3>4 DEF CloseSandbox, ContainerInv, SandboxTyping
    <3>5. CASE CloseLocal
      BY <1>1, <3>5 DEF CloseLocal, ContainerInv, SandboxTyping
    <3> QED BY <1>3, <3>1, <3>2, <3>3, <3>4, <3>5
  <2> QED BY <1>1, <2>1, <2>3, <2>4 DEF SandboxInv, SandboxTyping, EditsAreApplied
<1> QED BY <1>2, <1>3

LEMMA DiffsKeep ==
  ASSUME SandboxInv, ApplyDiff \/ ApplyTimesOut \/ LateApply
  PROVE  SandboxInv'
<1>1. SandboxTyping /\ ContainerInv /\ EditsAreApplied /\ UNCHANGED <<sandbox, container, cutShort>>
  BY DEF SandboxInv, ApplyDiff, ApplyTimesOut, LateApply
<1>2. ContainerInv'
  BY <1>1 DEF ContainerInv
<1>3. CASE ApplyDiff
  <2>1. PICK d \in SandboxDiffs : /\ diff' = d /\ files' = Applied(Repaired(Headed(d))).files
                                  /\ exit' = IF Applied(Repaired(Headed(d))).ok THEN "ok" ELSE "failed"
    BY <1>3 DEF ApplyDiff
  <2> DEFINE r == Repaired(Headed(d))
  <2>2. DOMAIN r = DOMAIN d /\ \A i \in DOMAIN d : /\ r[i].file = d[i].file /\ d[i].file \in PatchedFiles
                                                   /\ r[i].kind = d[i].kind
    BY SectionsKeep
  <2>3. DOMAIN files' = PatchedFiles
    <3>1. \A f \in PatchedFiles : DOMAIN Applied(r).files = PatchedFiles
      BY <1>1, ChangesStay DEF SandboxTyping
    <3>2. DOMAIN d # {}
      BY SandboxAssumption DEF SandboxDiffs
    <3> QED BY <2>1, <2>2, <3>1, <3>2
  <2>4. ASSUME exit' = "ok", \A i \in DOMAIN diff' : diff'[i].kind = "edit"
        PROVE  \A i \in DOMAIN diff' : files'[diff'[i].file] = "changed"
    <3>1. Applied(r).ok
      BY <2>1, <2>4
    <3>2. \A i \in DOMAIN r : r[i].kind = "edit" /\ r[i].file \in PatchedFiles
      BY <2>1, <2>2, <2>4
    <3> HIDE DEF r
    <3>3. \A i \in DOMAIN r : Applied(r).files[r[i].file] = "changed"
      BY <3>1, <3>2, SuccessIsOfEdits
    <3> QED BY <2>1, <2>2, <3>3 DEF r
  <2>5. SandboxTyping'
    BY <1>1, <2>1, <2>3 DEF SandboxTyping
  <2> QED BY <1>2, <2>4, <2>5 DEF SandboxInv, EditsAreApplied
<1>4. CASE ApplyTimesOut
  BY <1>1, <1>2, <1>4 DEF ApplyTimesOut, SandboxInv, SandboxTyping, EditsAreApplied
<1>5. CASE LateApply
  <2>1. files' = Applied(Repaired(Headed(late))).files /\ UNCHANGED <<diff, exit>>
    BY <1>5 DEF LateApply
  <2>2. \A f \in PatchedFiles : /\ DOMAIN files' = PatchedFiles
                                /\ files[f] = "changed" => files'[f] = "changed"
    BY <1>1, <2>1, ChangesStay DEF SandboxTyping
  <2>3. DOMAIN files' = PatchedFiles
    BY <2>1 DEF Applied, Change
  <2>4. \A i \in DOMAIN diff : diff[i].file \in PatchedFiles
    BY <1>1, SectionsKeep DEF SandboxTyping
  <2> QED BY <1>1, <1>2, <2>1, <2>2, <2>3, <2>4 DEF SandboxInv, SandboxTyping, EditsAreApplied
<1> QED BY <1>3, <1>4, <1>5

\* sandbox/runtime.py and sandbox/local.py, for any files, diffs and sandboxes: edits that
\* apply_diff reports applied are in the workspace, whatever earlier attempts left there or
\* a late one still does, and a sandbox that was closed leaves no container that no docker
\* command lost.
THEOREM SandboxesAreHonest == SandboxSpec => []SandboxHonest
<1>1. SandboxInit => SandboxInv
  BY DEF SandboxInit, SandboxInv, SandboxTyping, ContainerInv, EditsAreApplied
<1>2. SandboxInv /\ [SandboxNext]_sandboxVars => SandboxInv'
  <2>1. SandboxInv /\ UNCHANGED sandboxVars => SandboxInv'
    BY DEF sandboxVars, SandboxInv, SandboxTyping, ContainerInv, EditsAreApplied
  <2> QED BY <2>1, LifeKeeps, DiffsKeep DEF SandboxNext
<1>3. SandboxInv => SandboxHonest
  BY DEF SandboxInv, ContainerInv, SandboxHonest, ContainersAreRemoved
<1> QED BY <1>1, <1>2, <1>3, PTL DEF SandboxSpec

-----------------------------------------------------------------------------
(* Archive: what a crash leaves of a file *)

ArchiveTyping ==
  /\ final \in [Files -> Files \cup {"none", "torn"}]
  /\ temporary \in [Files -> Files \cup {"none", "torn"}]
  /\ stage \in [ArchiveCallers -> Files \cup {"idle", "engine", "lookup", "answered"}]
  /\ step \in [ArchiveCallers -> {"check", "open", "write", "replace"}]
  /\ handle \in [ArchiveCallers -> {"none", "temporary", "final"}]
  /\ reply \in [ArchiveCallers -> ModelReplies \cup {"none"}]

\* A caller has a file open between its open and its rename, and at no other time.
HandleInv == \A c \in ArchiveCallers :
  /\ handle[c] = "none" <=> step[c] \in {"check", "open"}
  /\ step[c] # "check" => stage[c] \in Files

Holds(c, f) == stage[c] = f /\ handle[c] # "none"

\* A file whose temporary was never shared has one writer at most, which writes to the
\* temporary; what it renames is written in full.
WriterInv == \A f \in Files \ clashed :
  /\ \A c, d \in ArchiveCallers : Holds(c, f) /\ Holds(d, f) => c = d
  /\ \A c \in ArchiveCallers :
       Holds(c, f) => /\ handle[c] = "temporary"
                      /\ step[c] = "write" => temporary[f] = "torn"
                      /\ step[c] = "replace" => temporary[f] # "torn"
ArchiveInv == ArchiveTyping /\ HandleInv /\ WriterInv /\ OnlyClashesTear

LEMMA ArchiveNames ==
  /\ Files \cap {"idle", "engine", "lookup", "answered", "none", "torn"} = {}
  /\ ModelReplies \subseteq Files /\ {"request", "recording"} \subseteq Files
  /\ {"request", "recording", "none", "torn"} \cap ModelReplies = {}
BY ArchiveAssumption DEF Files

\* A step that opens, writes and renames nothing and takes no caller to a file it has open.
LEMMA ArchiveRests ==
  ASSUME ArchiveInv, ArchiveTyping', HandleInv', UNCHANGED <<final, temporary, clashed>>,
         \A c \in ArchiveCallers :
           handle'[c] # "none" => stage'[c] = stage[c] /\ handle'[c] = handle[c] /\ step'[c] = step[c]
  PROVE  ArchiveInv'
<1>1. WriterInv'
  BY DEF ArchiveInv, WriterInv, Holds
<1>2. OnlyClashesTear'
  BY DEF ArchiveInv, OnlyClashesTear
<1> QED BY <1>1, <1>2 DEF ArchiveInv

LEMMA EndsKeep ==
  ASSUME ArchiveInv, NEW c \in ArchiveCallers, Ends(c), UNCHANGED <<final, temporary, clashed>>
  PROVE  ArchiveInv'
<1>1. ArchiveTyping'
  BY DEF ArchiveInv, ArchiveTyping, Ends
<1>2. HandleInv'
  BY DEF ArchiveInv, ArchiveTyping, HandleInv, Ends
<1>3. \A d \in ArchiveCallers :
        handle'[d] # "none" => stage'[d] = stage[d] /\ handle'[d] = handle[d] /\ step'[d] = step[d]
  BY DEF ArchiveInv, ArchiveTyping, Ends
<1> QED BY <1>1, <1>2, <1>3, ArchiveRests

\* Where a caller goes when its file is written.
LEMMA Continues ==
  ASSUME NEW c \in ArchiveCallers
  PROVE  Continue(c) \in Files \cup {"idle", "engine", "lookup", "answered"}
BY ArchiveNames DEF Continue

LEMMA QuietStepsKeep ==
  ASSUME ArchiveInv, NEW c \in ArchiveCallers,
         CallModel(c) \/ StreamModel(c) \/ CheckFile(c) \/ EngineAnswers(c) \/ Recorded(c)
  PROVE  ArchiveInv'
<1>1. handle[c] = "none" /\ handle' = handle /\ UNCHANGED <<final, temporary, clashed>>
  BY ArchiveNames
     DEF ArchiveInv, HandleInv, CallModel, StreamModel, Call, CheckFile, EngineAnswers, Recorded
<1>2. PICK s \in Files \cup {"idle", "engine", "lookup", "answered"}, at \in {"check", "open"},
           r \in ModelReplies \cup {"none"} :
        /\ stage' = [stage EXCEPT ![c] = s] /\ step' = [step EXCEPT ![c] = at]
        /\ reply' = [reply EXCEPT ![c] = r]
        /\ at = "open" => s \in Files
  <2>1. reply = [reply EXCEPT ![c] = reply[c]] /\ reply[c] \in ModelReplies \cup {"none"}
        /\ stage = [stage EXCEPT ![c] = stage[c]]
        /\ stage[c] \in Files \cup {"idle", "engine", "lookup", "answered"}
    BY DEF ArchiveInv, ArchiveTyping
  <2>2. CASE CallModel(c) \/ StreamModel(c)
    <3>1. stage' = [stage EXCEPT ![c] = "request"] /\ step' = [step EXCEPT ![c] = "check"]
          /\ reply' = reply
      BY <2>2 DEF CallModel, StreamModel, Call
    <3> QED BY <2>1, <3>1, ArchiveNames
  <2>3. CASE CheckFile(c)
    <3>1. CASE Advances(c)
      BY <2>1, <2>3, <3>1, Continues DEF CheckFile, Advances
    <3>2. CASE step' = [step EXCEPT ![c] = "open"] /\ UNCHANGED stage
      BY <2>1, <2>3, <3>2 DEF CheckFile
    <3> QED BY <2>3, <3>1, <3>2 DEF CheckFile
  <2>4. CASE EngineAnswers(c)
    <3>1. PICK r \in ModelReplies :
            /\ stage' = [stage EXCEPT ![c] = r] /\ step' = [step EXCEPT ![c] = "check"]
            /\ reply' = [reply EXCEPT ![c] = r]
      BY <2>4 DEF EngineAnswers
    <3> QED BY <3>1, ArchiveNames
  <2>5. CASE Recorded(c)
    <3>1. step[c] = "check" /\ step = [step EXCEPT ![c] = "check"]
      BY <2>5, ArchiveNames DEF Recorded, ArchiveInv, ArchiveTyping, HandleInv
    <3>2. /\ stage' = [stage EXCEPT ![c] = "answered"] /\ step' = step
          /\ reply' = [reply EXCEPT ![c] = final["recording"]] /\ final["recording"] \in ModelReplies
      BY <2>5 DEF Recorded
    <3> QED BY <3>1, <3>2
  <2> QED BY <2>2, <2>3, <2>4, <2>5
<1>3. ArchiveTyping'
  BY <1>1, <1>2 DEF ArchiveInv, ArchiveTyping
<1>4. HandleInv'
  BY <1>1, <1>2 DEF ArchiveInv, ArchiveTyping, HandleInv
<1>5. \A d \in ArchiveCallers :
        handle'[d] # "none" => stage'[d] = stage[d] /\ handle'[d] = handle[d] /\ step'[d] = step[d]
  BY <1>1, <1>2 DEF ArchiveInv, ArchiveTyping
<1> QED BY <1>1, <1>3, <1>4, <1>5, ArchiveRests

LEMMA OpenKeeps ==
  ASSUME ArchiveInv, NEW c \in ArchiveCallers, OpenTemporary(c)
  PROVE  ArchiveInv'
<1>1. ArchiveTyping'
  BY DEF ArchiveInv, ArchiveTyping, OpenTemporary
<1>2. HandleInv'
  BY DEF ArchiveInv, ArchiveTyping, HandleInv, OpenTemporary
<1>3. ASSUME NEW f \in Files \ clashed', NEW d \in ArchiveCallers, d # c, Holds(d, f)'
      PROVE  f # stage[c] /\ Holds(d, f)
    BY <1>3 DEF ArchiveInv, ArchiveTyping, OpenTemporary, Holds
<1>4. handle'[c] = "temporary" /\ step'[c] = "write" /\ temporary'[stage[c]] = "torn" /\ stage' = stage
      /\ stage[c] \in Files
  BY DEF ArchiveInv, ArchiveTyping, OpenTemporary
<1>5. \A d \in ArchiveCallers \ {c} : handle'[d] = handle[d] /\ step'[d] = step[d]
  BY DEF ArchiveInv, ArchiveTyping, OpenTemporary
<1>6. \A f \in Files \ {stage[c]} : temporary'[f] = temporary[f]
  BY DEF ArchiveInv, ArchiveTyping, OpenTemporary
<1>7. clashed \subseteq clashed'
  BY DEF OpenTemporary
<1>8. WriterInv'
  BY <1>3, <1>4, <1>5, <1>6, <1>7 DEF ArchiveInv, WriterInv, Holds
<1>9. OnlyClashesTear'
  BY <1>7 DEF ArchiveInv, OnlyClashesTear, OpenTemporary
<1> QED BY <1>1, <1>2, <1>8, <1>9 DEF ArchiveInv

LEMMA WriteKeeps ==
  ASSUME ArchiveInv, NEW c \in ArchiveCallers, WriteBytes(c)
  PROVE  ArchiveInv'
<1> DEFINE f == stage[c]
<1>1. f \in Files /\ step[c] = "write" /\ handle[c] # "none" /\ step' = [step EXCEPT ![c] = "replace"]
      /\ UNCHANGED <<clashed, stage, handle, reply>>
  BY DEF ArchiveInv, ArchiveTyping, HandleInv, WriteBytes
<1>2. Content(c) # "torn" /\ Content(c) \in Files \cup {"none"}
  BY <1>1, ArchiveNames DEF Content, ArchiveInv, ArchiveTyping
<1>3. PICK x \in {Content(c), "torn"} :
        /\ x = "torn" => (IF handle[c] = "final" THEN final[f] ELSE temporary[f])
                           \notin {"torn", Content(c)}
        /\ IF handle[c] = "final"
           THEN final' = [final EXCEPT ![f] = x] /\ UNCHANGED temporary
           ELSE temporary' = [temporary EXCEPT ![f] = x] /\ UNCHANGED final
  BY DEF WriteBytes
<1>4. ArchiveTyping'
  BY <1>1, <1>2, <1>3 DEF ArchiveInv, ArchiveTyping
<1>5. HandleInv'
  BY <1>1 DEF ArchiveInv, ArchiveTyping, HandleInv
<1>6. f \notin clashed => /\ handle[c] = "temporary" /\ temporary[f] = "torn"
                          /\ \A d \in ArchiveCallers : Holds(d, f) => d = c
  BY <1>1 DEF ArchiveInv, WriterInv, Holds
<1>7. f \notin clashed => temporary'[f] # "torn" /\ final' = final
  BY <1>1, <1>2, <1>3, <1>6 DEF ArchiveInv, ArchiveTyping
<1>8. \A g \in Files \ {f} : temporary'[g] = temporary[g] /\ final'[g] = final[g]
  BY <1>3 DEF ArchiveInv, ArchiveTyping
<1>9. \A d \in ArchiveCallers \ {c} : step'[d] = step[d]
  BY <1>1 DEF ArchiveInv, ArchiveTyping
<1>10. step'[c] = "replace"
  BY <1>1 DEF ArchiveInv, ArchiveTyping
<1>11. ASSUME NEW g \in Files \ clashed, NEW d \in ArchiveCallers, Holds(d, g)
       PROVE  /\ handle[d] = "temporary"
              /\ step'[d] = "write" => temporary'[g] = "torn"
              /\ step'[d] = "replace" => temporary'[g] # "torn"
  <2>1. CASE d = c
    BY <1>6, <1>7, <1>10, <1>11, <2>1 DEF Holds
  <2>2. CASE d # c
    BY <1>6, <1>8, <1>9, <1>11, <2>2 DEF Holds, ArchiveInv, WriterInv
  <2> QED BY <2>1, <2>2
<1>12. WriterInv'
  BY <1>1, <1>11 DEF ArchiveInv, WriterInv, Holds
<1>13. OnlyClashesTear'
  BY <1>1, <1>7, <1>8 DEF ArchiveInv, OnlyClashesTear
<1> QED BY <1>4, <1>5, <1>12, <1>13 DEF ArchiveInv

LEMMA ReplaceKeeps ==
  ASSUME ArchiveInv, NEW c \in ArchiveCallers, ReplaceFile(c)
  PROVE  ArchiveInv'
<1> DEFINE f == stage[c]
<1>1. /\ f \in Files /\ step[c] = "replace" /\ handle[c] # "none"
      /\ final' = [final EXCEPT ![f] = temporary[f]] /\ temporary' = [temporary EXCEPT ![f] = "none"]
      /\ stage' = [stage EXCEPT ![c] = Continue(c)] /\ step' = [step EXCEPT ![c] = "check"]
      /\ UNCHANGED <<clashed, reply>>
  BY DEF ArchiveInv, ArchiveTyping, HandleInv, ReplaceFile, Advances
<1>2. handle' \in [ArchiveCallers -> {"none", "temporary", "final"}] /\ handle'[c] = "none"
      /\ \A d \in ArchiveCallers \ {c} :
           /\ handle'[d] = "none" <=> handle[d] = "none"
           /\ stage[d] # f => handle'[d] = handle[d]
  BY DEF ArchiveInv, ArchiveTyping, ReplaceFile
<1>3. ArchiveTyping'
  BY <1>1, <1>2, Continues DEF ArchiveInv, ArchiveTyping
<1>4. HandleInv'
  BY <1>1, <1>2 DEF ArchiveInv, ArchiveTyping, HandleInv
<1>5. f \notin clashed => temporary[f] # "torn" /\ \A d \in ArchiveCallers : Holds(d, f) => d = c
  BY <1>1 DEF ArchiveInv, WriterInv, Holds
<1>6. \A g \in Files \ {f} : temporary'[g] = temporary[g] /\ final'[g] = final[g]
  BY <1>1 DEF ArchiveInv, ArchiveTyping
<1>7. \A d \in ArchiveCallers \ {c} : step'[d] = step[d] /\ stage'[d] = stage[d]
  BY <1>1 DEF ArchiveInv, ArchiveTyping
<1>8. ASSUME NEW g \in Files \ clashed, NEW d \in ArchiveCallers, Holds(d, g)'
      PROVE  d # c /\ g # f /\ Holds(d, g) /\ handle'[d] = handle[d]
  BY <1>2, <1>5, <1>7, <1>8 DEF Holds
<1>9. WriterInv'
  BY <1>1, <1>6, <1>7, <1>8 DEF ArchiveInv, WriterInv
<1>10. OnlyClashesTear'
  <2>1. f \notin clashed => final'[f] # "torn"
    BY <1>1, <1>5 DEF ArchiveInv, ArchiveTyping
  <2> QED BY <1>1, <1>6, <2>1 DEF ArchiveInv, OnlyClashesTear
<1> QED BY <1>3, <1>4, <1>9, <1>10 DEF ArchiveInv

LEMMA ReplaceFailureKeeps ==
  ASSUME ArchiveInv, NEW c \in ArchiveCallers, ReplaceFails(c)
  PROVE  ArchiveInv'
<1>1. CASE Ends(c)
  BY <1>1, EndsKeep DEF ReplaceFails
<1>2. CASE Advances(c) /\ handle' = [handle EXCEPT ![c] = "none"] /\ UNCHANGED reply
  <2>1. UNCHANGED <<final, temporary, clashed>>
    BY DEF ReplaceFails
  <2>2. ArchiveTyping'
    BY <1>2, <2>1, Continues DEF ArchiveInv, ArchiveTyping, Advances
  <2>3. HandleInv'
    BY <1>2 DEF ArchiveInv, ArchiveTyping, HandleInv, Advances
  <2>4. \A d \in ArchiveCallers :
          handle'[d] # "none" => stage'[d] = stage[d] /\ handle'[d] = handle[d] /\ step'[d] = step[d]
    BY <1>2 DEF ArchiveInv, ArchiveTyping, Advances
  <2> QED BY <2>1, <2>2, <2>3, <2>4, ArchiveRests
<1> QED BY <1>1, <1>2 DEF ReplaceFails

\* Whatever process dies between whichever steps, a file of the archive under its final
\* name is whole, unless two processes had its temporary open together (core/blob.py,
\* router/client.py).
THEOREM FilesAreWhole == ArchiveSpec => []OnlyClashesTear
<1>1. ArchiveInit => ArchiveInv
  <2> SUFFICES ASSUME ArchiveInit PROVE ArchiveInv
    OBVIOUS
  <2>1. ArchiveTyping
    BY ArchiveNames DEF ArchiveInit, ArchiveTyping
  <2>2. HandleInv /\ WriterInv /\ OnlyClashesTear
    BY DEF ArchiveInit, HandleInv, WriterInv, OnlyClashesTear, Holds
  <2> QED BY <2>1, <2>2 DEF ArchiveInv
<1>2. ArchiveInv /\ [ArchiveNext]_archiveVars => ArchiveInv'
  <2> SUFFICES ASSUME ArchiveInv, [ArchiveNext]_archiveVars PROVE ArchiveInv'
    OBVIOUS
  <2>1. CASE UNCHANGED archiveVars
    <3>1. ArchiveTyping' /\ HandleInv'
      BY <2>1 DEF ArchiveInv, ArchiveTyping, HandleInv, archiveVars
    <3> QED BY <2>1, <3>1, ArchiveRests DEF archiveVars
  <2>2. ASSUME NEW c \in ArchiveCallers,
               CallModel(c) \/ StreamModel(c) \/ CheckFile(c) \/ EngineAnswers(c) \/ Recorded(c)
        PROVE  ArchiveInv'
    BY <2>2, QuietStepsKeep
  <2>3. ASSUME NEW c \in ArchiveCallers, EngineFails(c) \/ RecordingMissing(c) \/ LeaveCall(c)
        PROVE  ArchiveInv'
    BY <2>3, EndsKeep DEF EngineFails, RecordingMissing, LeaveCall
  <2>4. ASSUME NEW c \in ArchiveCallers,
               OpenTemporary(c) \/ WriteBytes(c) \/ ReplaceFile(c) \/ ReplaceFails(c)
        PROVE  ArchiveInv'
    BY <2>4, OpenKeeps, WriteKeeps, ReplaceKeeps, ReplaceFailureKeeps
  <2> QED BY <2>1, <2>2, <2>3, <2>4 DEF ArchiveNext
<1>3. ArchiveInv => OnlyClashesTear
  BY DEF ArchiveInv
<1> QED BY <1>1, <1>2, <1>3, PTL DEF ArchiveSpec

-----------------------------------------------------------------------------
(* LiteStore: what the SQLite pool binds and finds *)

LiteInv ==
  /\ BindsByNumber
  /\ clock \in Nat /\ created \in [LiteCallers -> Nat \cup {-1}]
  /\ \A d \in found.rows : d \in LiteCallers /\ created[d] # -1 /\ created[d] + StaleAfter < found.at

\* Of two minutes the earlier is not on a later day.
LEMMA DaysPass ==
  ASSUME NEW m \in Nat, NEW n \in Nat, NEW D \in Nat \ {0}, m \div D < n \div D
  PROVE  m < n
<1>1. /\ m \div D \in Nat /\ m % D \in 0 .. D - 1 /\ m = D * (m \div D) + (m % D)
      /\ n \div D \in Nat /\ n % D \in 0 .. D - 1 /\ n = D * (n \div D) + (n % D)
  OBVIOUS
<1> DEFINE q == m \div D
           r == n \div D
<1>2. q \in Nat /\ r \in Nat /\ q + 1 <= r
  BY <1>1
<1>3. D * (q + 1) <= D * r
  BY <1>2, SMTT(30)
<1>4. D * (q + 1) = D * q + D
  BY <1>2, SMTT(30)
<1>5. D * q \in Nat /\ D * r \in Nat /\ D * (q + 1) \in Nat
  BY <1>2, SMTT(30)
<1> HIDE DEF q, r
<1>6. m < D * q + D /\ D * r <= n
  BY <1>1, <1>5 DEF q, r
<1> QED BY <1>3, <1>4, <1>5, <1>6

\* The translation gives every question mark the argument of its number.
LEMMA PlacesGetTheirs ==
  ASSUME NEW p \in Places, NEW i \in DOMAIN p
  PROVE  reorder_params(p, Arguments(p))[i] = p[i]
<1>1. PICK n \in 1 .. MaxArguments : p \in [1 .. n -> 1 .. MaxArguments]
  BY DEF Places
<1>2. p[i] \in Range(p) /\ Arguments(p)[p[i]] = p[i]
  BY DEF Range, Arguments
<1>3. CASE p = [j \in 1 .. Len(p) |-> j]
  <2>1. p[i] = i
    BY <1>3
  <2> QED BY <1>2, <1>3, <2>1 DEF reorder_params
<1>4. CASE p # [j \in 1 .. Len(p) |-> j]
  BY <1>2, <1>4 DEF reorder_params, Arguments
<1> QED BY <1>3, <1>4

\* What the comparison of texts takes for earlier is earlier, of different days.
LEMMA EarlierTextIsEarlier ==
  ASSUME NEW m \in Nat, NEW n \in Nat, StoredBefore(m, n)
  PROVE  m < n
<1>1. PICK i \in 1 .. 3 : /\ Text(m, "T")[i] < Text(n, " ")[i]
                          /\ \A j \in 1 .. i - 1 : Text(m, "T")[j] = Text(n, " ")[j]
  BY DEF StoredBefore, TextLess
<1>2. /\ Text(m, "T")[1] = m \div DayLength /\ Text(m, "T")[2] = 1
      /\ Text(n, " ")[1] = n \div DayLength /\ Text(n, " ")[2] = 0
  BY DEF Text
<1>3. i \in {1, 2, 3}
  OBVIOUS
<1>4. i # 2
  <2>1. i = 2 => 1 < 0
    BY <1>1, <1>2
  <2> QED BY <2>1
<1>5. i # 3
  <2> SUFFICES ASSUME i = 3 PROVE FALSE
    OBVIOUS
  <2>1. 3 - 1 = 2 /\ 2 \in 1 .. 3 - 1
    OBVIOUS
  <2>2. Text(m, "T")[2] = Text(n, " ")[2]
    BY <1>1, <2>1
  <2>3. 1 = 0
    BY <1>2, <2>2
  <2> QED BY <2>3
<1>6. m \div DayLength < n \div DayLength
  BY <1>1, <1>2, <1>3, <1>4, <1>5
<1> QED BY <1>6, DaysPass, LiteAssumption

\* Question marks are given the arguments that their numbers name, and no task that is
\* younger than the limit is taken for stale (lite/pool.py).
THEOREM PoolIsFaithful == LiteSpec => []LiteFaithful
<1>1. LiteInit => LiteInv
  BY DEF LiteInit, LiteInv, BindsByNumber, NothingBound
<1>2. LiteInv /\ [LiteNext]_liteVars => LiteInv'
  <2> SUFFICES ASSUME LiteInv, [LiteNext]_liteVars PROVE LiteInv'
    OBVIOUS
  <2>1. CASE UNCHANGED liteVars
    BY <2>1 DEF LiteInv, BindsByNumber, liteVars
  <2>2. CASE LiteTick
    BY <2>2 DEF LiteInv, BindsByNumber, LiteTick
  <2>3. ASSUME NEW c \in LiteCallers, AcquireLite(c) \/ ReleaseLite(c)  PROVE LiteInv'
    <3>1. UNCHANGED <<clock, created, found, bound>>
      BY <2>3 DEF AcquireLite, ReleaseLite
    <3> QED BY <3>1 DEF LiteInv, BindsByNumber
  <2>4. ASSUME NEW c \in LiteCallers, InsertTask(c)  PROVE LiteInv'
    <3>1. \A d \in LiteCallers : created[d] # -1 => created'[d] = created[d]
      BY <2>4 DEF InsertTask, LiteInv
    <3>2. created' \in [LiteCallers -> Nat \cup {-1}] /\ UNCHANGED <<clock, found, bound>>
      BY <2>4 DEF InsertTask, LiteInv
    <3> QED BY <3>1, <3>2 DEF LiteInv, BindsByNumber
  <2>5. ASSUME NEW c \in LiteCallers, RunStatement(c)  PROVE LiteInv'
    <3>1. BindsByNumber'
      <4>1. CASE bound' = NothingBound
        BY <4>1 DEF BindsByNumber, NothingBound
      <4>2. ASSUME NEW p \in Places, bound' = [places |-> p, given |-> reorder_params(p, Arguments(p))]
            PROVE  BindsByNumber'
        BY <4>2, PlacesGetTheirs DEF BindsByNumber
      <4> QED BY <2>5, <4>1, <4>2 DEF RunStatement
    <3> QED BY <2>5, <3>1 DEF LiteInv, RunStatement
  <2>6. ASSUME NEW c \in LiteCallers, SelectOld(c)  PROVE LiteInv'
    <3>1. clock - StaleAfter \in Nat /\ StaleAfter \in Nat
      BY <2>6, LiteAssumption DEF SelectOld, LiteInv
    <3>2. /\ found'.at = clock /\ UNCHANGED <<clock, created, bound>>
          /\ \A d \in found'.rows : d \in LiteCallers /\ created[d] # -1
                                    /\ StoredBefore(created[d], clock - StaleAfter)
      BY <2>6 DEF SelectOld
    <3>3. \A d \in found'.rows : created[d] < clock - StaleAfter
      BY <3>1, <3>2, EarlierTextIsEarlier DEF LiteInv
    <3>4. \A d \in found'.rows : created[d] + StaleAfter < clock
      BY <3>1, <3>2, <3>3 DEF LiteInv
    <3> QED BY <3>2, <3>4 DEF LiteInv, BindsByNumber
  <2> QED BY <2>1, <2>2, <2>3, <2>4, <2>5, <2>6 DEF LiteNext
<1>3. LiteInv => LiteFaithful
  BY DEF LiteInv, LiteFaithful, FoundAreOld
<1> QED BY <1>1, <1>2, <1>3, PTL DEF LiteSpec

-----------------------------------------------------------------------------
(* Replay: what a mismatch means *)

ReplayStages == {"none", "copy", "work", "verify", "stop", "done"}
ReplayOutcomes == {"none", "error", "unverified", "match", "mismatch"}
TreesOrGone == Trees \cup {"gone"}
Replayed == [pc : ReplayStages, expected : BOOLEAN, outcome : ReplayOutcomes,
             from : TreesOrGone, tree : TreesOrGone, disturbed : BOOLEAN]

ReplayTyping ==
  /\ oracle.says \in [Trees -> SUBSET BOOLEAN]
  /\ original \in [pc : {"work", "verify", "closed"}, attempt : Nat, tree : Trees,
                   verdicts : Seq(BOOLEAN)]
  /\ \A p \in DOMAIN recordings : recordings[p] \in Replies
  /\ copy \in [owner : Replayers \cup {"nobody"}, tree : TreesOrGone]
  /\ replays \in [Replayers -> Replayed]

\* Unless a reply waits for its verdict, the last verdict is one on the files as they are.
JudgedInv ==
  original.pc # "verify" /\ original.verdicts # <<>> =>
    original.verdicts[Len(original.verdicts)] \in oracle.says[original.tree]

\* A replay that was left alone expects a verdict on the files that it copies, and keeps
\* its directory; if it finds another, the files are others or the tests flaky.
Expects(r, held) == replays[r].expected \in oracle.says[held]

Differs(r) ==
  replays[r].tree # replays[r].from \/ oracle.says[replays[r].tree] = BOOLEAN

LeftAlone(r) ==
  /\ replays[r].pc = "copy" => replays[r].outcome = "none" /\ Expects(r, original.tree)
  /\ replays[r].pc \in {"work", "verify"} =>
       copy.owner = r /\ replays[r].from \in Trees /\ Expects(r, replays[r].from)
  /\ replays[r].outcome = "mismatch" => Differs(r)

ReplayInv ==
  /\ ReplayTyping /\ JudgedInv
  /\ \A r \in Replayers : ~replays[r].disturbed => LeftAlone(r)

\* A step of another replay disturbs one, or leaves it as it is.
LEMMA ReplayDisturbed ==
  ASSUME NEW v \in Replayed, NEW d
  PROVE  /\ [v EXCEPT !.disturbed = @ \/ d] \in Replayed
         /\ ~[v EXCEPT !.disturbed = @ \/ d].disturbed =>
              ~d /\ ~v.disturbed /\ [v EXCEPT !.disturbed = @ \/ d] = v
<1>1. PICK e \in BOOLEAN : e = (v.disturbed \/ d)
  OBVIOUS
<1>2. [v EXCEPT !.disturbed = @ \/ d] = [v EXCEPT !.disturbed = e]
  BY <1>1
<1>3. [v EXCEPT !.disturbed = e] \in Replayed /\ [v EXCEPT !.disturbed = e].disturbed = e
  BY DEF Replayed
<1>4. ~e => ~d /\ ~v.disturbed /\ v.disturbed = e
  BY <1>1 DEF Replayed
<1>5. v.disturbed = e => [v EXCEPT !.disturbed = e] = v
  BY DEF Replayed
<1> QED BY <1>2, <1>3, <1>4, <1>5

\* A diff leaves one of the trees, and an invalid reply the one there is.
LEMMA ApplyKeeps ==
  ASSUME NEW gave \in Replies, NEW t \in Trees
  PROVE  Apply(gave, t) \in Trees /\ (~gave.valid => Apply(gave, t) = t)
<1>1. CASE gave \in [valid : {TRUE}, edit : Edits]
  <2>1. gave.valid = TRUE /\ gave.edit \in [Trees -> Trees]
    BY <1>1, ReplayAssumption
  <2> QED BY <2>1 DEF Apply
<1>2. CASE gave = [valid |-> FALSE, edit |-> [u \in Trees |-> u]]
  BY <1>2 DEF Apply
<1> QED BY <1>1, <1>2 DEF Replies

\* The task goes on: a replay that has not copied the files yet will copy others.
LEMMA WorkerKeeps ==
  ASSUME ReplayInv, RunWorker
  PROVE  ReplayInv'
<1>1. /\ UNCHANGED <<oracle, copy>> /\ original.pc = "work"
      /\ replays' = [r \in Replayers |-> [replays[r] EXCEPT
           !.disturbed = @ \/ (replays[r].pc = "copy" /\ original'.tree # original.tree)]]
  BY DEF RunWorker
<1>2. PICK gave \in Replies, words \in BOOLEAN :
        /\ recordings' = IF words THEN recordings ELSE Kept(Prompt(original.tree), gave)
        /\ \E pc \in IF gave.valid THEN {"verify"} ELSE {"work", "closed"} :
             original' = [original EXCEPT !.pc = pc, !.tree = Apply(gave, original.tree)]
  BY DEF RunWorker
<1>3. /\ original' \in [pc : {"work", "verify", "closed"}, attempt : Nat, tree : Trees,
                        verdicts : Seq(BOOLEAN)]
      /\ original'.verdicts = original.verdicts
      /\ original'.pc = "verify" \/ original'.tree = original.tree
  <2>1. PICK pc \in IF gave.valid THEN {"verify"} ELSE {"work", "closed"} :
          original' = [original EXCEPT !.pc = pc, !.tree = Apply(gave, original.tree)]
    BY <1>2
  <2>2. original.tree \in Trees
    BY DEF ReplayInv, ReplayTyping
  <2>3. Apply(gave, original.tree) \in Trees
        /\ (pc = "verify" \/ Apply(gave, original.tree) = original.tree)
    BY <2>2, ApplyKeeps
  <2> QED BY <2>1, <2>3 DEF ReplayInv, ReplayTyping
<1>4. \A p \in DOMAIN recordings' : recordings'[p] \in Replies
  BY <1>2 DEF Kept, ReplayInv, ReplayTyping
<1>5. ASSUME NEW r \in Replayers
      PROVE  /\ replays'[r] \in Replayed
             /\ ~replays'[r].disturbed =>
                  /\ ~replays[r].disturbed /\ replays'[r] = replays[r]
                  /\ replays[r].pc = "copy" => original'.tree = original.tree
  <2> DEFINE d == replays[r].pc = "copy" /\ original'.tree # original.tree
  <2>1. replays'[r] = [replays[r] EXCEPT !.disturbed = @ \/ d] /\ replays[r] \in Replayed
    BY <1>1 DEF ReplayInv, ReplayTyping
  <2> HIDE DEF d
  <2>2. /\ replays'[r] \in Replayed
        /\ ~replays'[r].disturbed => ~d /\ ~replays[r].disturbed /\ replays'[r] = replays[r]
    BY <2>1, ReplayDisturbed
  <2> QED BY <2>2 DEF d
<1>6. replays' \in [Replayers -> Replayed]
  <2>1. replays' = [r \in Replayers |-> replays'[r]]
    BY <1>1
  <2> QED BY <1>5, <2>1
<1>7. ASSUME NEW r \in Replayers, ~replays'[r].disturbed
      PROVE  LeftAlone(r)'
  BY <1>1, <1>5, <1>7 DEF ReplayInv, LeftAlone, Expects, Differs
<1>8. JudgedInv'
  BY <1>1, <1>3 DEF ReplayInv, JudgedInv
<1>9. ReplayTyping'
  BY <1>1, <1>3, <1>4, <1>6 DEF ReplayInv, ReplayTyping
<1> QED BY <1>7, <1>8, <1>9 DEF ReplayInv

LEMMA JudgeKeeps ==
  ASSUME ReplayInv, Verify
  PROVE  ReplayInv'
<1>1. UNCHANGED <<oracle, recordings, copy, replays>>
  BY DEF Verify
<1>2. PICK passed \in oracle.says[original.tree], pc \in {"work", "closed"}, n \in Nat :
        original' = [original EXCEPT !.verdicts = Append(original.verdicts, passed),
                                     !.pc = pc, !.attempt = n]
  <2>1. PICK passed \in oracle.says[original.tree] :
          LET last == passed \/ original.attempt = WorkAttempts
          IN  original' = [original EXCEPT !.verdicts = Append(original.verdicts, passed),
                             !.pc = IF last THEN "closed" ELSE "work",
                             !.attempt = IF last THEN original.attempt ELSE original.attempt + 1]
    BY DEF Verify
  <2>2. original.attempt \in Nat /\ original.attempt + 1 \in Nat
    BY DEF ReplayInv, ReplayTyping
  <2> QED BY <2>1, <2>2
<1>3. passed \in BOOLEAN /\ original.verdicts \in Seq(BOOLEAN)
  BY DEF ReplayInv, ReplayTyping
<1>4. /\ Append(original.verdicts, passed) \in Seq(BOOLEAN)
      /\ Append(original.verdicts, passed)[Len(Append(original.verdicts, passed))] = passed
  BY <1>3, AppendProperties
<1>5. /\ original'.verdicts = Append(original.verdicts, passed)
      /\ original'.tree = original.tree /\ original'.pc = pc /\ original'.attempt = n
      /\ original' \in [pc : {"work", "verify", "closed"}, attempt : Nat, tree : Trees,
                        verdicts : Seq(BOOLEAN)]
  BY <1>2, <1>4 DEF ReplayInv, ReplayTyping
<1>6. JudgedInv'
  BY <1>1, <1>4, <1>5 DEF JudgedInv
<1> QED BY <1>1, <1>5, <1>6 DEF ReplayInv, ReplayTyping, LeftAlone, Expects, Differs

\* Memory and other tasks change what a replay is answered, never what it expects.
LEMMA OthersKeep ==
  ASSUME ReplayInv, UNCHANGED <<oracle, original, copy, replays>>,
         \A p \in DOMAIN recordings' : recordings'[p] \in Replies
  PROVE  ReplayInv'
BY DEF ReplayInv, ReplayTyping, JudgedInv, LeftAlone, Expects, Differs

\* A step of one replay may disturb the one whose directory it works in.
LEMMA ReplaySteps ==
  ASSUME ReplayInv, NEW r \in Replayers, NEW next \in Replayed,
         UNCHANGED <<oracle, original, recordings>>,
         \/ replays' = InDirectory(r, next)
         \/ replays' = [replays EXCEPT ![r] = next] /\ copy' = copy,
         copy' \in [owner : Replayers \cup {"nobody"}, tree : TreesOrGone],
         ~next.disturbed /\ replays'[r] = next => LeftAlone(r)'
  PROVE  ReplayInv'
<1>1. replays'[r] = next
  BY DEF InDirectory, ReplayInv, ReplayTyping
<1>2. ASSUME NEW s \in Replayers \ {r}
      PROVE  /\ replays'[s] \in Replayed
             /\ ~replays'[s].disturbed =>
                  /\ ~replays[s].disturbed /\ replays'[s] = replays[s]
                  /\ copy' = copy \/ copy.owner # s
  <2>1. replays[s] \in Replayed
    BY DEF ReplayInv, ReplayTyping
  <2>2. CASE replays' = InDirectory(r, next)
    <3>1. replays'[s] = [replays[s] EXCEPT !.disturbed = @ \/ copy.owner = s]
      BY <2>2 DEF InDirectory
    <3> QED BY <2>1, <3>1, ReplayDisturbed
  <2>3. CASE replays' = [replays EXCEPT ![r] = next] /\ copy' = copy
    BY <2>1, <2>3 DEF ReplayInv, ReplayTyping
  <2> QED BY <2>2, <2>3
<1>3. replays' \in [Replayers -> Replayed]
  <2>1. replays' = [s \in Replayers |-> replays'[s]]
    BY DEF InDirectory, ReplayInv, ReplayTyping
  <2> QED BY <1>1, <1>2, <2>1
<1>4. ReplayTyping' /\ JudgedInv'
  BY <1>3 DEF ReplayInv, ReplayTyping, JudgedInv
<1>5. ASSUME NEW s \in Replayers \ {r}, ~replays'[s].disturbed
      PROVE  LeftAlone(s)'
  BY <1>2, <1>5 DEF ReplayInv, LeftAlone, Expects, Differs
<1> QED BY <1>1, <1>4, <1>5 DEF ReplayInv

LEMMA EndedTyped ==
  ASSUME NEW pc \in {"stop", "done"}, NEW outcome \in {"error", "unverified"}
  PROVE  /\ Ended(pc, outcome) \in Replayed
         /\ Ended(pc, outcome).pc = pc /\ Ended(pc, outcome).outcome = outcome
BY DEF Ended, NoReplay, Replayed, ReplayStages, ReplayOutcomes, TreesOrGone

LEMMA EndedKeeps ==
  ASSUME NEW r \in Replayers, NEW pc \in {"stop", "done"}, NEW outcome \in {"error", "unverified"},
         replays'[r] = Ended(pc, outcome)
  PROVE  LeftAlone(r)'
BY EndedTyped DEF LeftAlone

LEMMA StartKeeps ==
  ASSUME ReplayInv, NEW r \in Replayers, StartReplay(r)
  PROVE  ReplayInv'
<1>1. UNCHANGED <<oracle, original, recordings, copy>>
      /\ copy \in [owner : Replayers \cup {"nobody"}, tree : TreesOrGone]
  BY DEF StartReplay, ReplayInv, ReplayTyping
<1>2. ASSUME NEW outcome \in {"error", "unverified"},
             replays' = [replays EXCEPT ![r] = Ended("done", outcome)]
      PROVE  ReplayInv'
  BY <1>1, <1>2, EndedTyped, EndedKeeps, ReplaySteps
<1>3. ASSUME original.verdicts # <<>>,
             replays' = [replays EXCEPT ![r] =
                Expecting(original.verdicts[Len(original.verdicts)])]
      PROVE  ReplayInv'
  <2>1. PICK e \in BOOLEAN, d \in BOOLEAN :
          e = original.verdicts[Len(original.verdicts)] /\ d = (original.pc = "verify")
    <3>1. original.verdicts[Len(original.verdicts)] \in BOOLEAN
      BY <1>3 DEF ReplayInv, ReplayTyping
    <3> QED BY <3>1
  <2>2. PICK w : w = [NoReplay EXCEPT !.pc = "copy", !.expected = e, !.disturbed = d]
    OBVIOUS
  <2>3. replays' = [replays EXCEPT ![r] = w]
    BY <1>3, <2>1, <2>2 DEF Expecting
  <2>4. w \in Replayed /\ w.pc = "copy" /\ w.outcome = "none" /\ w.expected = e /\ w.disturbed = d
    BY <2>2 DEF NoReplay, Replayed, ReplayStages, ReplayOutcomes, TreesOrGone
  <2>5. ~d => e \in oracle.says[original.tree]
    BY <1>3, <2>1 DEF ReplayInv, JudgedInv
  <2>6. ~w.disturbed /\ replays'[r] = w => LeftAlone(r)'
    BY <1>1, <2>4, <2>5 DEF LeftAlone, Expects
  <2> QED BY <1>1, <2>3, <2>4, <2>6, ReplaySteps
<1> QED BY <1>2, <1>3 DEF StartReplay

LEMMA CopyKeeps ==
  ASSUME ReplayInv, NEW r \in Replayers, CopyWorkspace(r)
  PROVE  ReplayInv'
<1>1. UNCHANGED <<oracle, original, recordings>> /\ replays[r].pc = "copy"
  BY DEF CopyWorkspace
<1>2. /\ copy \in [owner : Replayers \cup {"nobody"}, tree : TreesOrGone]
      /\ [owner |-> r, tree |-> original.tree]
           \in [owner : Replayers \cup {"nobody"}, tree : TreesOrGone]
  BY DEF ReplayInv, ReplayTyping, TreesOrGone
<1>3. CASE replays' = [replays EXCEPT ![r] = Ended("done", "error")] /\ UNCHANGED copy
  BY <1>1, <1>2, <1>3, EndedTyped, EndedKeeps, ReplaySteps
<1>4. CASE copy' = [owner |-> r, tree |-> original.tree]
           /\ replays' = InDirectory(r, Ended("done", "error"))
  BY <1>1, <1>2, <1>4, EndedTyped, EndedKeeps, ReplaySteps
<1>5. CASE copy' = [owner |-> r, tree |-> original.tree]
           /\ replays' = InDirectory(r, [replays[r] EXCEPT !.pc = "work", !.from = original.tree])
  <2>1. PICK w : w = [replays[r] EXCEPT !.pc = "work", !.from = original.tree]
    OBVIOUS
  <2>2. /\ w \in Replayed /\ w.pc = "work" /\ w.from = original.tree
        /\ w.expected = replays[r].expected /\ w.outcome = replays[r].outcome
        /\ w.disturbed = replays[r].disturbed
    BY <2>1 DEF ReplayInv, ReplayTyping, Replayed, ReplayStages, TreesOrGone
  <2>3. original.tree \in Trees
    BY DEF ReplayInv, ReplayTyping
  <2>4. ~w.disturbed /\ replays'[r] = w => LeftAlone(r)'
    BY <1>1, <1>5, <2>2, <2>3 DEF ReplayInv, LeftAlone, Expects
  <2>5. replays' = InDirectory(r, w)
    BY <1>5, <2>1
  <2> QED BY <1>1, <1>2, <1>5, <2>2, <2>4, <2>5, ReplaySteps
<1> QED BY <1>3, <1>4, <1>5 DEF CopyWorkspace

LEMMA WorkKeeps ==
  ASSUME ReplayInv, NEW r \in Replayers, ReplayWork(r)
  PROVE  ReplayInv'
<1>1. UNCHANGED <<oracle, original, recordings>> /\ replays[r].pc = "work"
  BY DEF ReplayWork
<1>2. copy \in [owner : Replayers \cup {"nobody"}, tree : TreesOrGone]
  BY DEF ReplayInv, ReplayTyping
<1>3. ASSUME NEW outcome \in {"error", "unverified"},
             replays' = InDirectory(r, Ended("stop", outcome)) /\ UNCHANGED copy
      PROVE  ReplayInv'
  BY <1>1, <1>2, <1>3, EndedTyped, EndedKeeps, ReplaySteps
<1>4. ASSUME NEW gave \in Replies,
             copy' = [copy EXCEPT !.tree = Apply(gave, copy.tree)],
             replays' = InDirectory(r, [replays[r] EXCEPT !.pc = "verify"])
      PROVE  ReplayInv'
  <2>1. Apply(gave, copy.tree) \in TreesOrGone
    BY <1>2, ApplyKeeps, ReplayAssumption DEF Apply, TreesOrGone
  <2>2. copy' \in [owner : Replayers \cup {"nobody"}, tree : TreesOrGone] /\ copy'.owner = copy.owner
    BY <1>2, <1>4, <2>1
  <2>3. PICK w : w = [replays[r] EXCEPT !.pc = "verify"]
    OBVIOUS
  <2>4. /\ w \in Replayed /\ w.pc = "verify" /\ w.from = replays[r].from /\ w.tree = replays[r].tree
        /\ w.expected = replays[r].expected /\ w.outcome = replays[r].outcome
        /\ w.disturbed = replays[r].disturbed
    BY <2>3 DEF ReplayInv, ReplayTyping, Replayed, ReplayStages
  <2>5. ~w.disturbed /\ replays'[r] = w => LeftAlone(r)'
    BY <1>1, <2>2, <2>4 DEF ReplayInv, LeftAlone, Expects, Differs
  <2>6. replays' = InDirectory(r, w)
    BY <1>4, <2>3
  <2> QED BY <1>1, <2>2, <2>4, <2>5, <2>6, ReplaySteps
<1>5. \A p \in DOMAIN recordings : recordings[p] \in Replies
  BY DEF ReplayInv, ReplayTyping
<1> QED BY <1>3, <1>4, <1>5 DEF ReplayWork

LEMMA VerifyKeeps ==
  ASSUME ReplayInv, NEW r \in Replayers, ReplayVerify(r)
  PROVE  ReplayInv'
<1>1. /\ UNCHANGED <<oracle, original, recordings, copy>> /\ replays[r].pc = "verify"
      /\ copy \in [owner : Replayers \cup {"nobody"}, tree : TreesOrGone]
  BY DEF ReplayVerify, ReplayInv, ReplayTyping
<1>2. PICK passed \in IF copy.tree \in Trees THEN oracle.says[copy.tree] ELSE {FALSE},
           o \in {"match", "mismatch"} :
        /\ replays' = [replays EXCEPT ![r].pc = "stop", ![r].tree = copy.tree, ![r].outcome = o]
        /\ o = "match" <=> passed = replays[r].expected
  BY DEF ReplayVerify
<1>3. PICK w : w = [replays[r] EXCEPT !.pc = "stop", !.tree = copy.tree, !.outcome = o]
  OBVIOUS
<1>4. replays' = [replays EXCEPT ![r] = w]
  BY <1>2, <1>3 DEF ReplayInv, ReplayTyping
<1>5. /\ w \in Replayed /\ w.pc = "stop" /\ w.tree = copy.tree /\ w.outcome = o
      /\ w.from = replays[r].from /\ w.disturbed = replays[r].disturbed
  BY <1>1, <1>3 DEF ReplayInv, ReplayTyping, Replayed, ReplayStages, ReplayOutcomes
<1>6. ASSUME ~replays[r].disturbed, o = "mismatch", copy.tree = replays[r].from
      PROVE  oracle.says[copy.tree] = BOOLEAN
  <2>1. replays[r].expected \in oracle.says[copy.tree] /\ replays[r].expected \in BOOLEAN
    BY <1>1, <1>6 DEF ReplayInv, LeftAlone, Expects, ReplayTyping, Replayed
  <2>2. copy.tree \in Trees
    BY <1>1, <1>6 DEF ReplayInv, LeftAlone
  <2>3. passed \in oracle.says[copy.tree] /\ passed # replays[r].expected
    BY <1>2, <1>6, <2>2
  <2>4. oracle.says[copy.tree] \subseteq BOOLEAN
    BY <2>2 DEF ReplayInv, ReplayTyping
  <2> QED BY <2>1, <2>3, <2>4
<1>7. ~w.disturbed /\ replays'[r] = w => LeftAlone(r)'
  BY <1>1, <1>5, <1>6 DEF LeftAlone, Differs
<1> QED BY <1>1, <1>4, <1>5, <1>7, ReplaySteps

LEMMA StopKeeps ==
  ASSUME ReplayInv, NEW r \in Replayers, StopReplay(r)
  PROVE  ReplayInv'
<1>1. UNCHANGED <<oracle, original, recordings>> /\ copy' = NoCopy /\ replays[r].pc = "stop"
      /\ replays' = InDirectory(r, [replays[r] EXCEPT !.pc = "done"])
  BY DEF StopReplay
<1>2. copy' \in [owner : Replayers \cup {"nobody"}, tree : TreesOrGone]
  BY <1>1 DEF NoCopy, TreesOrGone
<1>3. PICK w : w = [replays[r] EXCEPT !.pc = "done"]
  OBVIOUS
<1>4. /\ w \in Replayed /\ w.pc = "done" /\ w.from = replays[r].from /\ w.tree = replays[r].tree
      /\ w.outcome = replays[r].outcome /\ w.disturbed = replays[r].disturbed
  BY <1>3 DEF ReplayInv, ReplayTyping, Replayed, ReplayStages
<1>5. ~w.disturbed /\ replays'[r] = w => LeftAlone(r)'
  BY <1>1, <1>4 DEF ReplayInv, LeftAlone, Differs
<1>6. replays' = InDirectory(r, w)
  BY <1>1, <1>3
<1> QED BY <1>1, <1>2, <1>4, <1>5, <1>6, ReplaySteps

\* A replay that finds another verdict than the stream's last has judged other files, or
\* flaky tests, unless the task moved on under it or another replay used its directory
\* (replay/engine.py): its copy, its verdict and the one it expects belong together.
THEOREM MismatchesMeanChange == ReplaySpec => []MismatchMeansChange
<1>1. ReplayInit => ReplayInv
  <2> SUFFICES ASSUME ReplayInit PROVE ReplayInv
    OBVIOUS
  <2>1. NoReplay \in Replayed /\ NoReplay.pc = "none" /\ NoReplay.outcome = "none"
    BY DEF NoReplay, Replayed, ReplayStages, ReplayOutcomes, TreesOrGone
  <2>2. ReplayTyping
    BY <2>1, ReplayAssumption DEF ReplayInit, ReplayTyping, NoCopy, TreesOrGone
  <2>3. JudgedInv /\ \A r \in Replayers : LeftAlone(r)
    BY <2>1 DEF ReplayInit, JudgedInv, LeftAlone
  <2> QED BY <2>2, <2>3 DEF ReplayInv
<1>2. ReplayInv /\ [ReplayNext]_replayVars => ReplayInv'
  <2> SUFFICES ASSUME ReplayInv, [ReplayNext]_replayVars PROVE ReplayInv'
    OBVIOUS
  <2>1. CASE UNCHANGED replayVars
    BY <2>1 DEF ReplayInv, ReplayTyping, JudgedInv, LeftAlone, Expects, Differs, replayVars
  <2>2. ASSUME NEW r \in Replayers,
               StartReplay(r) \/ CopyWorkspace(r) \/ ReplayWork(r) \/ ReplayVerify(r) \/ StopReplay(r)
        PROVE  ReplayInv'
    BY <2>2, StartKeeps, CopyKeeps, WorkKeeps, VerifyKeeps, StopKeeps
  <2>3. \A p \in DOMAIN recordings : recordings[p] \in Replies
    BY DEF ReplayInv, ReplayTyping
  <2>4. CASE OthersAsk
    <3>1. \A p \in DOMAIN recordings' : recordings'[p] \in Replies
      BY <2>3, <2>4 DEF OthersAsk, Kept
    <3> QED BY <2>4, <3>1, OthersKeep DEF OthersAsk
  <2>5. CASE ChangeMemory \/ \E c \in Consolidators : CheckMarker(c) \/ AddFact(c) \/ MarkDone(c)
    <3>1. UNCHANGED <<oracle, original, recordings, copy, replays>>
      BY <2>5 DEF ChangeMemory, CheckMarker, AddFact, MarkDone
    <3> QED BY <2>3, <3>1, OthersKeep
  <2> QED BY <2>1, <2>2, <2>4, <2>5, WorkerKeeps, JudgeKeeps DEF ReplayNext
<1>3. ReplayInv => MismatchMeansChange
  BY DEF ReplayInv, LeftAlone, Differs, MismatchMeansChange
<1> QED BY <1>1, <1>2, <1>3, PTL DEF ReplaySpec

-----------------------------------------------------------------------------
(* Handoff: what another model is told *)

HandoffTypes ==
  {"ToolCallStarted", "ToolCallCompleted", "ModelCallCompleted", "WorkerCompleted",
   "VerificationRequested", "VerificationPassed", "VerificationFailed", "TaskCompleted",
   "RetryScheduled", "NeedsHumanReview", "BudgetExceeded"}
Entries == [type : HandoffTypes, attempt : 1 .. HandoffAttempts]

HandoffTyping ==
  /\ log \in Seq(Entries) /\ turn \in 1 .. HandoffAttempts
  /\ doing \in {"model", "announce", "apply", "calls", "tooldone", "result", "request", "verify",
                "decide", "over"}
  /\ hasDiff \in BOOLEAN /\ touched \in BOOLEAN
  /\ verdicts \in [1 .. HandoffAttempts -> SUBSET {"passed", "failed"}]

\* What an attempt records lies behind all that earlier ones did.
InTurns ==
  /\ \A i, j \in DOMAIN log : log[i].attempt < log[j].attempt => i < j
  /\ \A i \in DOMAIN log : log[i].attempt <= turn

\* The verdicts on record are those there are; there is none while the worker is at work.
WorkerDoes == {"model", "announce", "apply", "calls", "tooldone", "result"}

GivenInv ==
  /\ \A a \in 1 .. HandoffAttempts :
       /\ InLog(Entry("VerificationPassed", a)) <=> "passed" \in verdicts[a]
       /\ InLog(Entry("VerificationFailed", a)) <=> "failed" \in verdicts[a]
       /\ a > turn => verdicts[a] = {}
  /\ doing \in WorkerDoes => verdicts[turn] = {}

\* A change of files was announced in its attempt, and stays unverified until a verdict.
TouchedInv ==
  /\ doing = "apply" => InLog(Entry("ToolCallStarted", turn))
  /\ touched => InLog(Entry("ToolCallStarted", turn)) /\ verdicts[turn] = {}
                /\ doing \notin {"decide", "over"}

HandoffInv == HandoffTyping /\ InTurns /\ GivenInv /\ TouchedInv

LEMMA TurnsCount ==
  ASSUME NEW t \in 1 .. HandoffAttempts
  PROVE  t \in Nat
BY HandoffAssumption

LEMMA EntriesAre ==
  ASSUME NEW e \in Entries
  PROVE  /\ e.attempt \in 1 .. HandoffAttempts /\ e.attempt \in Nat
         /\ e.type \in HandoffTypes /\ e = Entry(e.type, e.attempt)
<1>1. e.attempt \in 1 .. HandoffAttempts /\ e.type \in HandoffTypes
  BY DEF Entries
<1>2. e = Entry(e.type, e.attempt)
  BY DEF Entries, Entry
<1> QED BY <1>1, <1>2, TurnsCount

LEMMA OnceAfter ==
  ASSUME HandoffTyping, InTurns, NEW type \in HandoffTypes, Once(type)
  PROVE  /\ log' \in Seq(Entries)
         /\ \A e : InLog(e)' <=> InLog(e) \/ e = Entry(type, turn)
         /\ \A i, j \in DOMAIN log' : log'[i].attempt < log'[j].attempt => i < j
         /\ \A i \in DOMAIN log' : log'[i].attempt <= turn
<1> DEFINE e0 == Entry(type, turn)
<1>1. e0 \in Entries /\ e0.attempt = turn
  BY DEF Entry, Entries, HandoffTyping
<1>2. log \in Seq(Entries) /\ turn \in Nat
  BY TurnsCount DEF HandoffTyping
<1>3. CASE InLog(e0)
  BY <1>2, <1>3 DEF Once, InLog, InTurns
<1>4. CASE ~InLog(e0)
  <2>1. log' = Append(log, e0)
    BY <1>4 DEF Once
  <2> HIDE DEF e0
  <2>2. /\ log' \in Seq(Entries) /\ Len(log') = Len(log) + 1 /\ log'[Len(log) + 1] = e0
        /\ \A i \in 1 .. Len(log) : log'[i] = log[i]
    BY <1>1, <1>2, <2>1, AppendProperties
  <2>3. DOMAIN log = 1 .. Len(log) /\ DOMAIN log' = 1 .. Len(log) + 1 /\ Len(log) \in Nat
    BY <1>2, <2>2
  <2>4. \A i \in DOMAIN log' : i \in DOMAIN log \/ i = Len(log) + 1
    BY <2>3
  <2>5. \A i \in DOMAIN log : i \in DOMAIN log' /\ i < Len(log) + 1 /\ i \in Nat /\ log'[i] = log[i]
                              /\ log[i].attempt \in Nat
    BY <1>2, <2>2, <2>3, EntriesAre
  <2>6. \A e : InLog(e)' <=> InLog(e) \/ e = e0
    BY <2>2, <2>3, <2>4, <2>5 DEF InLog
  <2>7. \A i \in DOMAIN log' : log'[i].attempt <= turn
    BY <1>1, <1>2, <2>2, <2>4, <2>5 DEF InTurns
  <2>8. \A i, j \in DOMAIN log' : log'[i].attempt < log'[j].attempt => i < j
    <3> SUFFICES ASSUME NEW i \in DOMAIN log', NEW j \in DOMAIN log', log'[i].attempt < log'[j].attempt
                 PROVE  i < j
      OBVIOUS
    <3>1. CASE i = Len(log) + 1
      <4>1. turn < log'[j].attempt /\ log'[j].attempt <= turn /\ log'[j].attempt \in Nat
        BY <1>1, <1>2, <2>2, <2>4, <2>5, <2>7, <3>1
      <4> QED BY <1>2, <4>1
    <3>2. CASE i \in DOMAIN log
      BY <2>2, <2>4, <2>5, <3>2 DEF InTurns
    <3> QED BY <2>4, <3>1, <3>2
  <2> QED BY <2>2, <2>6, <2>7, <2>8 DEF e0
<1> QED BY <1>3, <1>4

\* The last of some places in the log is the greatest, or there is none.
LEMMA LastOfIs ==
  ASSUME log \in Seq(Entries), NEW at, at \subseteq DOMAIN log
  PROVE  /\ LastOf(at) \in Nat
         /\ LastOf(at) # 0 => LastOf(at) \in at
         /\ \A i \in at : i <= LastOf(at)
<1>1. DOMAIN log = 1 .. Len(log) /\ Len(log) \in Nat
  OBVIOUS
<1>2. CASE at = {}
  BY <1>2 DEF LastOf
<1>3. CASE at # {}
  <2> DEFINE over == {n \in Nat : \A j \in at : j <= n}
  <2>1. Len(log) \in over /\ over \subseteq Nat
    BY <1>1
  <2>2. PICK m \in over : \A n \in over : ~(<<n, m>> \in OpToRel(<, Nat))
    BY <2>1, NatLessThanWellFounded, WFMin
  <2>3. m \in at
    <3> SUFFICES ASSUME m \notin at PROVE FALSE
      OBVIOUS
    <3>1. PICK i \in at : TRUE
      BY <1>3
    <3>2. m \in Nat /\ i \in Nat /\ i >= 1 /\ i <= m
      BY <1>1
    <3>3. m - 1 \in Nat
      BY <3>2
    <3>4. \A j \in at : j \in Nat /\ j <= m /\ j # m
      BY <1>1
    <3>5. m - 1 \in over
      BY <3>2, <3>3, <3>4
    <3>6. <<m - 1, m>> \in OpToRel(<, Nat)
      BY <3>2, <3>3 DEF OpToRel
    <3> QED BY <2>2, <3>5, <3>6
  <2>4. \A j \in at : j <= m
    OBVIOUS
  <2>5. LastOf(at) = CHOOSE i \in at : \A j \in at : j <= i
    BY <1>3 DEF LastOf
  <2>6. LastOf(at) \in at /\ \A j \in at : j <= LastOf(at)
    BY <2>3, <2>4, <2>5
  <2> QED BY <1>1, <2>6
<1> QED BY <1>2, <1>3

LEMMA LatestIs ==
  ASSUME log \in Seq(Entries), NEW types
  PROVE  /\ Latest(types) \in Nat
         /\ Latest(types) # 0 => Latest(types) \in DOMAIN log /\ log[Latest(types)].type \in types
         /\ \A i \in DOMAIN log : log[i].type \in types => i <= Latest(types)
<1> DEFINE at == {i \in DOMAIN log : log[i].type \in types}
<1>1. Latest(types) = LastOf(at) /\ at \subseteq DOMAIN log
  BY DEF Latest
<1>2. /\ LastOf(at) \in Nat /\ (LastOf(at) # 0 => LastOf(at) \in at)
      /\ \A i \in at : i <= LastOf(at)
  BY <1>1, LastOfIs
<1> QED BY <1>1, <1>2

\* A verdict found in the log is one on the attempt it names.
LEMMA VerdictIsGiven ==
  ASSUME HandoffInv, NEW i \in DOMAIN log, log[i].type \in Judgments
  PROVE  /\ log[i].attempt \in 1 .. HandoffAttempts /\ log[i].attempt <= turn
         /\ VerdictAt(i) \in verdicts[log[i].attempt]
<1>1. log \in Seq(Entries)
  BY DEF HandoffInv, HandoffTyping
<1>2. log[i] \in Entries /\ i # 0
  BY <1>1
<1>3. /\ log[i].attempt \in 1 .. HandoffAttempts
      /\ InLog(Entry(log[i].type, log[i].attempt))
  BY <1>2, EntriesAre DEF InLog
<1>4. CASE log[i].type = "VerificationPassed"
  BY <1>2, <1>3, <1>4 DEF VerdictAt, HandoffInv, GivenInv, InTurns
<1>5. CASE log[i].type = "VerificationFailed"
  BY <1>2, <1>3, <1>5 DEF VerdictAt, HandoffInv, GivenInv, InTurns
<1> QED BY <1>4, <1>5 DEF Judgments

LEMMA GivenIsLogged ==
  ASSUME HandoffInv, NEW a \in 1 .. HandoffAttempts, verdicts[a] # {}
  PROVE  \E i \in DOMAIN log : log[i].attempt = a /\ log[i].type \in Judgments
<1>1. InLog(Entry("VerificationPassed", a)) \/ InLog(Entry("VerificationFailed", a))
  BY DEF HandoffInv, HandoffTyping, GivenInv
<1> QED BY <1>1 DEF InLog, Entry, Judgments

\* Files that an unverified attempt has changed are never safe to take over.
LEMMA TouchedIsUnsafe ==
  ASSUME HandoffInv, touched
  PROVE  ~Safe
<1> DEFINE done    == Latest({"ToolCallCompleted"})
           worker  == Latest({"WorkerCompleted"})
           request == Latest({"VerificationRequested"})
           judge   == LatestVerdict
           start   == Latest({"ToolCallStarted"})
<1>1. log \in Seq(Entries) /\ turn \in Nat
  BY TurnsCount DEF HandoffInv, HandoffTyping
<1>2. /\ done \in Nat /\ worker \in Nat /\ request \in Nat /\ judge \in Nat /\ start \in Nat
  BY <1>1, LatestIs DEF LatestVerdict
<1>3. \A i \in DOMAIN log : i \in Nat /\ i > 0 /\ log[i].attempt \in Nat /\ log[i] \in Entries
  BY <1>1, EntriesAre
<1>4. PICK s \in DOMAIN log : log[s] = Entry("ToolCallStarted", turn)
  BY DEF HandoffInv, TouchedInv, InLog
<1>5. log[s].type = "ToolCallStarted" /\ log[s].attempt = turn
  BY <1>4 DEF Entry
<1>6. s <= start
  BY <1>1, <1>5, LatestIs
<1>7. judge < s
  <2>1. CASE judge = 0
    BY <1>3, <2>1
  <2>2. CASE judge # 0
    <3>1. judge \in DOMAIN log /\ log[judge].type \in {"VerificationPassed", "VerificationFailed"}
      BY <1>1, <2>2, LatestIs DEF LatestVerdict, Judgments
    <3>2. verdicts[turn] = {} /\ turn \in 1 .. HandoffAttempts
      BY DEF HandoffInv, TouchedInv, GivenInv, HandoffTyping
    <3>3. ~InLog(Entry("VerificationPassed", turn)) /\ ~InLog(Entry("VerificationFailed", turn))
      BY <3>2 DEF HandoffInv, GivenInv
    <3>4. log[judge] = Entry(log[judge].type, log[judge].attempt)
      BY <1>3, <3>1, EntriesAre
    <3>5. log[judge].attempt # turn
      BY <3>1, <3>3, <3>4 DEF InLog
    <3>6. log[judge].attempt < log[s].attempt
      BY <1>1, <1>3, <1>5, <3>1, <3>5 DEF HandoffInv, InTurns
    <3> QED BY <3>1, <3>6 DEF HandoffInv, InTurns
  <2> QED BY <2>1, <2>2
<1>8. start > judge
  BY <1>2, <1>3, <1>6, <1>7
<1> HIDE DEF done, worker, request, judge, start
<1>9. Interruption \in {Pending("tool", "in-flight"), Pending("verification", "completed-unconfirmed"),
                        Pending("verification", "in-flight"), Pending("tool", "completed-unconfirmed"),
                        Pending("model", "completed-unconfirmed")}
  <2>1. ToolOpen <=> start > done
    BY DEF ToolOpen, start, done
  <2>2. CASE ToolOpen
    BY <2>2 DEF Interruption
  <2>3. CASE ~ToolOpen /\ request > judge
    BY <2>3 DEF Interruption, request, judge
  <2>4. CASE ~ToolOpen /\ ~(request > judge)
    <3>1. request <= judge /\ done > judge
      BY <1>2, <1>8, <2>1, <2>4
    <3>2. CASE done > worker
      BY <2>4, <3>1, <3>2 DEF Interruption, request, judge, done, worker
    <3>3. CASE ~(done > worker)
      <4>1. worker > judge
        BY <1>2, <3>1, <3>3
      <4> QED BY <2>4, <3>1, <3>3, <4>1 DEF Interruption, request, judge, done, worker
    <3> QED BY <3>2, <3>3
  <2> QED BY <2>2, <2>3, <2>4
<1>10. Interruption.kind # "none" /\ Interruption.status # "never-started"
  BY <1>9 DEF Pending
<1> QED BY <1>10 DEF Safe, Advice

LEMMA TheHandedIsTrue ==
  ASSUME HandoffInv
  PROVE  HandedIsTrue
<1>1. log \in Seq(Entries) /\ turn \in 1 .. HandoffAttempts /\ turn \in Nat
      /\ verdicts \in [1 .. HandoffAttempts -> SUBSET {"passed", "failed"}]
  BY TurnsCount DEF HandoffInv, HandoffTyping
<1>2. \A i \in DOMAIN log : /\ i \in Nat /\ i > 0 /\ log[i].attempt \in 1 .. HandoffAttempts
                            /\ log[i].attempt \in Nat
  BY <1>1, EntriesAre
<1>3. ASSUME NEW a \in DOMAIN Handed.attempts  PROVE Given(Handed.attempts[a], a)
  <2> DEFINE at == {i \in DOMAIN log : log[i].attempt = a /\ log[i].type \in Judgments}
  <2>1. Handed.attempts = Attempted
    BY DEF Handed
  <2>2. a \in 1 .. HandoffAttempts
    BY <1>2, <1>3, <2>1 DEF Attempted
  <2>3. Attempted[a] = VerdictAt(LastOf(at))
    BY <1>3, <2>1 DEF Attempted
  <2>4. at \subseteq DOMAIN log
    OBVIOUS
  <2>5. LastOf(at) \in Nat /\ (LastOf(at) # 0 => LastOf(at) \in at) /\ \A i \in at : i <= LastOf(at)
    BY <1>1, <2>4, LastOfIs
  <2>6. CASE LastOf(at) = 0
    <3>1. at = {}
      BY <1>2, <2>5, <2>6
    <3>2. verdicts[a] = {}
      BY <2>2, <3>1, GivenIsLogged
    <3> QED BY <2>1, <2>3, <2>6, <3>2 DEF Given, VerdictAt
  <2>7. CASE LastOf(at) # 0
    <3>1. VerdictAt(LastOf(at)) \in verdicts[a]
      BY <2>5, <2>7, VerdictIsGiven
    <3> HIDE DEF at
    <3> QED BY <2>1, <2>3, <3>1 DEF Given
  <2> QED BY <2>6, <2>7
<1> DEFINE l == LatestVerdict
<1>4. Handed.last_verdict = VerdictAt(l)
  BY DEF Handed
<1>5. /\ l \in Nat /\ (l # 0 => l \in DOMAIN log /\ log[l].type \in Judgments)
      /\ \A i \in DOMAIN log : log[i].type \in Judgments => i <= l
  BY <1>1, LatestIs DEF LatestVerdict
<1>6. ASSUME NEW b \in 1 .. turn  PROVE b \in 1 .. HandoffAttempts /\ b \in Nat
  BY <1>1, HandoffAssumption
<1> HIDE DEF l
<1>7. CASE l = 0
  <2>1. ASSUME NEW b \in 1 .. turn  PROVE verdicts[b] = {}
    BY <1>2, <1>5, <1>6, <1>7, GivenIsLogged
  <2>2. Given(Handed.last_verdict, turn) /\ turn \in 1 .. turn
    BY <1>1, <1>4, <1>7, <2>1 DEF Given, VerdictAt
  <2> QED BY <1>3, <2>1, <2>2 DEF HandedIsTrue
<1>8. CASE l # 0
  <2> DEFINE m == log[l].attempt
  <2>1. m \in 1 .. HandoffAttempts /\ m <= turn /\ VerdictAt(l) \in verdicts[m]
    BY <1>5, <1>8, VerdictIsGiven
  <2>2. Given(Handed.last_verdict, m) /\ verdicts[m] # {} /\ m \in 1 .. turn
    BY <1>1, <1>4, <2>1 DEF Given
  <2>3. ASSUME NEW b \in 1 .. turn, b > m  PROVE verdicts[b] = {}
    <3> SUFFICES ASSUME verdicts[b] # {} PROVE FALSE
      OBVIOUS
    <3>1. PICK i \in DOMAIN log : log[i].attempt = b /\ log[i].type \in Judgments
      BY <1>6, GivenIsLogged
    <3>2. i <= l /\ l < i
      BY <1>2, <1>5, <1>6, <1>8, <2>3, <3>1 DEF HandoffInv, InTurns
    <3> QED BY <1>2, <1>5, <1>8, <3>2
  <2> HIDE DEF m
  <2> QED BY <1>3, <2>2, <2>3 DEF HandedIsTrue
<1> QED BY <1>7, <1>8

\* An event other than a verdict, recorded in the course of an attempt.
LEMMA WorkStepsKeep ==
  ASSUME HandoffInv,
         \/ WorkerReplies \/ AnnouncesTool \/ AppliesDiff \/ RecordsCalls \/ RecordsTool
         \/ RecordsResult \/ RequestsVerdict \/ Dies
  PROVE  HandoffInv'
<1>1. UNCHANGED <<turn, verdicts>>
  BY DEF WorkerReplies, AnnouncesTool, AppliesDiff, RecordsCalls, RecordsTool, RecordsResult,
         RequestsVerdict, Dies
<1>2. /\ doing' \in WorkerDoes => doing \in WorkerDoes
      /\ touched' => touched \/ doing \in WorkerDoes
      /\ doing' \in {"model", "announce", "apply", "calls", "tooldone", "result", "request", "verify"}
  BY DEF WorkerReplies, AnnouncesTool, AppliesDiff, RecordsCalls, RecordsTool, RecordsResult,
         RequestsVerdict, Dies, WorkerDoes
<1>3. hasDiff' \in BOOLEAN /\ touched' \in BOOLEAN
  BY DEF WorkerReplies, AnnouncesTool, AppliesDiff, RecordsCalls, RecordsTool, RecordsResult,
         RequestsVerdict, Dies, HandoffInv, HandoffTyping
<1>4. UNCHANGED log
      \/ \E type \in HandoffTypes \ {"VerificationPassed", "VerificationFailed"} : Once(type)
  BY DEF WorkerReplies, AnnouncesTool, AppliesDiff, RecordsCalls, RecordsTool, RecordsResult,
         RequestsVerdict, Dies, HandoffTypes
<1>5. /\ log' \in Seq(Entries)
      /\ \A e : InLog(e) => InLog(e)'
      /\ \A a : /\ InLog(Entry("VerificationPassed", a))' <=> InLog(Entry("VerificationPassed", a))
                /\ InLog(Entry("VerificationFailed", a))' <=> InLog(Entry("VerificationFailed", a))
      /\ InTurns'
  <2>1. CASE UNCHANGED log
    BY <1>1, <2>1 DEF HandoffInv, HandoffTyping, InTurns, InLog
  <2>2. ASSUME NEW type \in HandoffTypes \ {"VerificationPassed", "VerificationFailed"}, Once(type)
        PROVE  /\ log' \in Seq(Entries)
               /\ \A e : InLog(e) => InLog(e)'
               /\ \A a : /\ InLog(Entry("VerificationPassed", a))' <=> InLog(Entry("VerificationPassed", a))
                         /\ InLog(Entry("VerificationFailed", a))' <=> InLog(Entry("VerificationFailed", a))
               /\ InTurns'
    <3>1. \A a : Entry("VerificationPassed", a) # Entry(type, turn)
                 /\ Entry("VerificationFailed", a) # Entry(type, turn)
      BY DEF Entry
    <3>2. /\ log' \in Seq(Entries)
          /\ \A e : InLog(e)' <=> InLog(e) \/ e = Entry(type, turn)
          /\ InTurns'
      BY <1>1, <2>2, OnceAfter DEF HandoffInv, InTurns
    <3> QED BY <3>1, <3>2 DEF Entry
  <2> QED BY <1>4, <2>1, <2>2
<1>6. HandoffTyping'
  BY <1>1, <1>2, <1>3, <1>5 DEF HandoffInv, HandoffTyping
<1>7. GivenInv'
  BY <1>1, <1>2, <1>5 DEF HandoffInv, GivenInv, Entry
<1>8. InLog(Entry("ToolCallStarted", turn))' \/ ~(doing' = "apply" \/ touched')
  <2>1. CASE InLog(Entry("ToolCallStarted", turn))
    <3>1. \E i \in DOMAIN log' : log'[i] = Entry("ToolCallStarted", turn)
      BY <1>5, <2>1 DEF InLog
    <3> QED BY <1>1, <3>1 DEF InLog, Entry
  <2>2. CASE AnnouncesTool
    <3>1. Once("ToolCallStarted") /\ "ToolCallStarted" \in HandoffTypes
      BY <2>2 DEF AnnouncesTool, HandoffTypes
    <3>2. \E i \in DOMAIN log' : log'[i] = Entry("ToolCallStarted", turn)
      BY <3>1, OnceAfter DEF InLog, HandoffInv
    <3> QED BY <1>1, <3>2 DEF InLog, Entry
  <2>3. CASE ~InLog(Entry("ToolCallStarted", turn)) /\ ~AnnouncesTool
    <3>1. doing # "apply" /\ ~touched
      BY <2>3 DEF HandoffInv, TouchedInv
    <3> QED BY <2>3, <3>1 DEF WorkerReplies, AppliesDiff, RecordsCalls, RecordsTool, RecordsResult,
                 RequestsVerdict, Dies
  <2> QED BY <2>1, <2>2, <2>3
<1>9. TouchedInv'
  BY <1>1, <1>2, <1>8 DEF HandoffInv, GivenInv, TouchedInv, Entry
<1> QED BY <1>5, <1>6, <1>7, <1>9 DEF HandoffInv

LEMMA JudgesKeep ==
  ASSUME HandoffInv, RecordsVerdict
  PROVE  HandoffInv'
<1>1. /\ doing = "verify" /\ doing' = "decide" /\ touched' = FALSE /\ UNCHANGED <<turn, hasDiff>>
      /\ turn \in 1 .. HandoffAttempts
  BY DEF HandoffInv, HandoffTyping, RecordsVerdict
<1>2. PICK v \in {"passed", "failed"} :
        /\ verdicts' = [verdicts EXCEPT ![turn] = verdicts[turn] \cup {v}]
        /\ Once(IF v = "passed" THEN "VerificationPassed" ELSE "VerificationFailed")
  BY DEF RecordsVerdict
<1>3. PICK type \in {"VerificationPassed", "VerificationFailed"} :
        type = (IF v = "passed" THEN "VerificationPassed" ELSE "VerificationFailed")
  OBVIOUS
<1>4. type \in HandoffTypes /\ Once(type)
  BY <1>2, <1>3 DEF HandoffTypes
<1>5. /\ log' \in Seq(Entries)
      /\ \A e : InLog(e)' <=> InLog(e) \/ e = Entry(type, turn)
      /\ InTurns'
  BY <1>1, <1>4, OnceAfter DEF HandoffInv, InTurns
<1>6. HandoffTyping'
  BY <1>1, <1>2, <1>5 DEF HandoffInv, HandoffTyping
<1>7. ASSUME NEW a \in 1 .. HandoffAttempts
      PROVE  /\ InLog(Entry("VerificationPassed", a))' <=> "passed" \in verdicts'[a]
             /\ InLog(Entry("VerificationFailed", a))' <=> "failed" \in verdicts'[a]
             /\ a > turn => verdicts'[a] = {}
  <2>1. \A t : Entry(t, a) = Entry(type, turn) <=> t = type /\ a = turn
    BY DEF Entry
  <2>2. /\ InLog(Entry("VerificationPassed", a))' <=>
             InLog(Entry("VerificationPassed", a)) \/ (type = "VerificationPassed" /\ a = turn)
        /\ InLog(Entry("VerificationFailed", a))' <=>
             InLog(Entry("VerificationFailed", a)) \/ (type = "VerificationFailed" /\ a = turn)
    BY <1>5, <2>1 DEF Entry
  <2>3. /\ InLog(Entry("VerificationPassed", a)) <=> "passed" \in verdicts[a]
        /\ InLog(Entry("VerificationFailed", a)) <=> "failed" \in verdicts[a]
        /\ a > turn => verdicts[a] = {}
    BY DEF HandoffInv, GivenInv
  <2>4. verdicts'[a] = IF a = turn THEN verdicts[a] \cup {v} ELSE verdicts[a]
    BY <1>2 DEF HandoffInv, HandoffTyping
  <2>5. type = "VerificationPassed" <=> v = "passed"
    BY <1>3
  <2> QED BY <1>1, <1>2, <1>3, <2>2, <2>3, <2>4, <2>5
<1>8. GivenInv'
  BY <1>1, <1>7 DEF GivenInv, Entry, WorkerDoes
<1>9. TouchedInv'
  BY <1>1 DEF TouchedInv
<1> QED BY <1>5, <1>6, <1>8, <1>9 DEF HandoffInv

LEMMA DecisionsKeep ==
  ASSUME HandoffInv, RecordsDecision
  PROVE  HandoffInv'
<1>1. /\ doing = "decide" /\ UNCHANGED <<hasDiff, touched, verdicts>> /\ ~touched
      /\ turn \in 1 .. HandoffAttempts /\ HandoffAttempts \in Nat
  BY HandoffAssumption DEF HandoffInv, HandoffTyping, TouchedInv, RecordsDecision
<1>2. PICK type \in HandoffTypes \ {"VerificationPassed", "VerificationFailed"} :
        /\ Once(type)
        /\ \/ doing' = "over" /\ turn' = turn
           \/ turn < HandoffAttempts /\ turn' = turn + 1 /\ doing' = "model"
  BY DEF RecordsDecision, HandoffTypes
<1>3. turn' \in 1 .. HandoffAttempts /\ turn <= turn' /\ (doing' \in WorkerDoes => turn' > turn)
  BY <1>1, <1>2 DEF WorkerDoes
<1>4. /\ log' \in Seq(Entries)
      /\ \A e : InLog(e)' <=> InLog(e) \/ e = Entry(type, turn)
      /\ \A i, j \in DOMAIN log' : log'[i].attempt < log'[j].attempt => i < j
      /\ \A i \in DOMAIN log' : log'[i].attempt <= turn
  BY <1>2, OnceAfter DEF HandoffInv
<1>5. InTurns'
  <2>1. \A i \in DOMAIN log' : log'[i].attempt \in Nat
    BY <1>4, EntriesAre
  <2> QED BY <1>1, <1>3, <1>4, <2>1 DEF InTurns
<1>6. HandoffTyping'
  BY <1>1, <1>2, <1>3, <1>4 DEF HandoffInv, HandoffTyping
<1>7. \A a : /\ InLog(Entry("VerificationPassed", a))' <=> InLog(Entry("VerificationPassed", a))
             /\ InLog(Entry("VerificationFailed", a))' <=> InLog(Entry("VerificationFailed", a))
  <2>1. \A a : Entry("VerificationPassed", a) # Entry(type, turn)
               /\ Entry("VerificationFailed", a) # Entry(type, turn)
    BY DEF Entry
  <2> QED BY <1>4, <2>1 DEF Entry
<1>8. \A a \in 1 .. HandoffAttempts : a > turn' => a > turn
  BY <1>1, <1>3
<1>9. doing' \in WorkerDoes => verdicts[turn'] = {}
  BY <1>1, <1>3 DEF HandoffInv, GivenInv
<1>10. GivenInv'
  BY <1>1, <1>7, <1>8, <1>9 DEF HandoffInv, GivenInv, Entry
<1>11. TouchedInv'
  BY <1>1, <1>2 DEF TouchedInv
<1> QED BY <1>5, <1>6, <1>10, <1>11 DEF HandoffInv

\* Whatever an activity had done when it died, a model that is told it may take over finds
\* no file changed by an attempt that nobody verified, and is told the verdicts there were
\* (core/handoff.py, activities/pipeline.py).
THEOREM HandoffsAreSound == HandoffSpec => []HandoffIsSound
<1>1. HandoffInit => HandoffInv
  <2> SUFFICES ASSUME HandoffInit PROVE HandoffInv
    OBVIOUS
  <2>1. log = <<>> /\ <<>> \in Seq(Entries) /\ DOMAIN log = {} /\ \A e : ~InLog(e)
    BY DEF HandoffInit, InLog
  <2>2. HandoffTyping
    <3>1. 1 \in 1 .. HandoffAttempts
      BY HandoffAssumption
    <3> QED BY <2>1, <3>1 DEF HandoffInit, HandoffTyping
  <2>3. InTurns /\ GivenInv /\ TouchedInv
    BY <2>1, HandoffAssumption DEF HandoffInit, InTurns, GivenInv, TouchedInv
  <2> QED BY <2>2, <2>3 DEF HandoffInv
<1>2. HandoffInv /\ [HandoffNext]_handoffVars => HandoffInv'
  <2> SUFFICES ASSUME HandoffInv, [HandoffNext]_handoffVars PROVE HandoffInv'
    OBVIOUS
  <2>1. CASE UNCHANGED handoffVars
    BY <2>1 DEF HandoffInv, HandoffTyping, InTurns, GivenInv, TouchedInv, InLog, Entry, handoffVars
  <2> QED BY <2>1, WorkStepsKeep, JudgesKeep, DecisionsKeep DEF HandoffNext
<1>3. HandoffInv => HandoffIsSound
  BY TouchedIsUnsafe, TheHandedIsTrue DEF HandoffIsSound, SafeMeansUntouched
<1> QED BY <1>1, <1>2, <1>3, PTL DEF HandoffSpec

-----------------------------------------------------------------------------
(* Benchmark: the two lists of results *)

ResultSet == [instance : Nat, success : BOOLEAN, error : BOOLEAN, diff : Int, passedOn : SUBSET Int]
EarlyStages == {"clone", "row", "bucker", "reclone", "baseline", "evaluate"}

BenchTyping ==
  /\ bench \in [pc : EarlyStages \cup {"log", "stats", "over", "lost"}, at : 1 .. BenchInstances]
  /\ results \in [bucker : Seq(ResultSet), baseline : Seq(ResultSet)]
  /\ loop \in [iteration : Nat, last : Int] /\ tree \in SUBSET Int
  /\ verdict \in [logged : BOOLEAN, harness : {"none", "skipped", "called"},
                  decision : {"none", "too few", "raised", "INCONCLUSIVE", "PROCEED", "STOP"}]

\* How many results each list has, step by step.
LengthInv ==
  /\ bench.pc \in {"clone", "row", "bucker"} =>
       Len(results.bucker) = bench.at - 1 /\ Len(results.baseline) = bench.at - 1
  /\ bench.pc \in {"reclone", "baseline"} =>
       Len(results.bucker) = bench.at /\ Len(results.baseline) = bench.at - 1
  /\ bench.pc \in {"evaluate", "log", "stats", "over"} =>
       Len(results.bucker) = BenchInstances /\ Len(results.baseline) = BenchInstances
  /\ bench.pc = "baseline" => loop.iteration # NoDiff

\* A result lies where its instance does, and is what its kind says.
BuckerResult(r, i) == r.instance = i /\ (r.success => ~r.error)
BaselineResult(r, i) == r.instance = i /\ (r.success => r.diff # NoDiff)
ListInv ==
  /\ \A i \in 1 .. Len(results.bucker) : BuckerResult(results.bucker[i], i)
  /\ \A i \in 1 .. Len(results.baseline) : BaselineResult(results.baseline[i], i)

HarnessInv ==
  verdict.harness = "called" =>
    /\ bench.pc \notin EarlyStages
    /\ \E i \in 1 .. BenchInstances :
         results.bucker[i].diff # NoDiff \/ results.baseline[i].diff # NoDiff

BenchInv == BenchTyping /\ LengthInv /\ ListInv /\ HarnessInv

LEMMA BenchCounts ==
  ASSUME BenchTyping
  PROVE  /\ BenchInstances \in Nat \ {0} /\ bench.at \in 1 .. BenchInstances /\ bench.at \in Nat
         /\ results.bucker \in Seq(ResultSet) /\ results.baseline \in Seq(ResultSet)
         /\ Len(results.bucker) \in Nat /\ Len(results.baseline) \in Nat
<1>1. BenchInstances \in Nat \ {0}
  BY BenchAssumption
<1>2. bench.at \in 1 .. BenchInstances
      /\ results.bucker \in Seq(ResultSet) /\ results.baseline \in Seq(ResultSet)
  BY DEF BenchTyping
<1> QED BY <1>1, <1>2

\* Where a run goes when both results of an instance are there.
LEMMA InstanceEnds ==
  ASSUME BenchTyping, NextInstance
  PROVE  /\ bench' \in [pc : EarlyStages \cup {"log", "stats", "over", "lost"}, at : 1 .. BenchInstances]
         /\ \/ bench'.pc = "evaluate" /\ bench.at = BenchInstances
            \/ bench'.pc = "clone" /\ bench'.at = bench.at + 1
<1>1. bench.at \in 1 .. BenchInstances /\ BenchInstances \in Nat
  BY BenchCounts
<1>2. CASE bench.at = BenchInstances
  <2>1. bench' = [bench EXCEPT !.pc = "evaluate"]
    BY <1>2 DEF NextInstance
  <2> QED BY <1>2, <2>1 DEF BenchTyping, EarlyStages
<1>3. CASE bench.at # BenchInstances
  <2>1. bench' = [pc |-> "clone", at |-> bench.at + 1]
    BY <1>3 DEF NextInstance
  <2>2. bench.at + 1 \in 1 .. BenchInstances
    BY <1>1, <1>3
  <2> QED BY <2>1, <2>2 DEF EarlyStages
<1> QED BY <1>2, <1>3

\* A list with one more result.
LEMMA ListGrows ==
  ASSUME NEW list \in Seq(ResultSet), NEW r \in ResultSet
  PROVE  /\ Append(list, r) \in Seq(ResultSet) /\ Len(Append(list, r)) = Len(list) + 1
         /\ \A i \in 1 .. Len(list) + 1 :
              \/ i \in 1 .. Len(list) /\ Append(list, r)[i] = list[i]
              \/ i = Len(list) + 1 /\ Append(list, r)[i] = r
<1>1. /\ Append(list, r) \in Seq(ResultSet) /\ Len(Append(list, r)) = Len(list) + 1
      /\ Append(list, r)[Len(list) + 1] = r
      /\ \A i \in 1 .. Len(list) : Append(list, r)[i] = list[i]
  BY AppendProperties
<1>2. Len(list) \in Nat
  OBVIOUS
<1>3. \A i \in 1 .. Len(list) + 1 : i \in 1 .. Len(list) \/ i = Len(list) + 1
  BY <1>2
<1> QED BY <1>1, <1>3

LEMMA MineGrow ==
  ASSUME BenchInv, NEW r \in ResultSet, BuckerResult(r, Len(results.bucker) + 1)
  PROVE  LET list == Append(results.bucker, r)
         IN  /\ list \in Seq(ResultSet) /\ Len(list) = Len(results.bucker) + 1
             /\ \A i \in 1 .. Len(list) : BuckerResult(list[i], i)
BY BenchCounts, ListGrows DEF BenchInv, ListInv

LEMMA TheirsGrow ==
  ASSUME BenchInv, NEW r \in ResultSet, BaselineResult(r, Len(results.baseline) + 1)
  PROVE  LET list == Append(results.baseline, r)
         IN  /\ list \in Seq(ResultSet) /\ Len(list) = Len(results.baseline) + 1
             /\ \A i \in 1 .. Len(list) : BaselineResult(list[i], i)
BY BenchCounts, ListGrows DEF BenchInv, ListInv

LEMMA ResultIs ==
  ASSUME BenchTyping, NEW s \in BOOLEAN, NEW e \in BOOLEAN, NEW d \in Int, NEW on \in SUBSET Int
  PROVE  /\ Result(s, e, d, on) \in ResultSet
         /\ (s => ~e) => BuckerResult(Result(s, e, d, on), bench.at)
         /\ (s => d # NoDiff) => BaselineResult(Result(s, e, d, on), bench.at)
<1>1. bench.at \in Nat
  BY BenchCounts
<1>2. Result(s, e, d, on) \in ResultSet
  BY <1>1 DEF Result, ResultSet
<1>3. /\ Result(s, e, d, on).instance = bench.at /\ Result(s, e, d, on).success = s
      /\ Result(s, e, d, on).error = e /\ Result(s, e, d, on).diff = d
  BY DEF Result
<1> QED BY <1>2, <1>3 DEF BuckerResult, BaselineResult

LEMMA ErroredIs ==
  ASSUME BenchTyping
  PROVE  /\ Errored \in ResultSet /\ BuckerResult(Errored, bench.at)
         /\ BaselineResult(Errored, bench.at)
<1>1. NoDiff \in Int /\ {} \in SUBSET Int
  BY DEF NoDiff
<1>2. Errored = Result(FALSE, TRUE, NoDiff, {})
  BY DEF Errored
<1> QED BY <1>1, <1>2, ResultIs

\* Before the harness is called there is no word of it.
LEMMA NotYetCalled ==
  ASSUME BenchInv, bench.pc \in EarlyStages, UNCHANGED verdict
  PROVE  HarnessInv'
BY DEF BenchInv, HarnessInv

\* A step that goes on to another and leaves the results.
LEMMA ResultsStay ==
  ASSUME BenchInv, BenchTyping', LengthInv', bench.pc \in EarlyStages, UNCHANGED <<results, verdict>>
  PROVE  BenchInv'
BY NotYetCalled DEF BenchInv, ListInv

LEMMA CloneStepsKeep ==
  ASSUME BenchInv, CloneInstance \/ CreateTask \/ Reclone \/ LoseRun
  PROVE  BenchInv'
<1>1. bench.pc \in EarlyStages /\ UNCHANGED <<results, verdict>>
  BY DEF CloneInstance, CreateTask, Reclone, LoseRun, EarlyStages
<1>2. PICK pc \in {"row", "bucker", "baseline", "lost"} : bench' = [bench EXCEPT !.pc = pc]
  BY DEF CloneInstance, CreateTask, Reclone, LoseRun
<1>3. /\ bench' \in [pc : EarlyStages \cup {"log", "stats", "over", "lost"}, at : 1 .. BenchInstances]
      /\ bench'.pc = pc /\ bench'.at = bench.at
  BY <1>2 DEF BenchInv, BenchTyping, EarlyStages
<1>4. loop' \in [iteration : Nat, last : Int] /\ tree' \in SUBSET Int
      /\ (Reclone => loop'.iteration = 1)
  <2>1. loop \in [iteration : Nat, last : Int] /\ tree \in SUBSET Int
    BY DEF BenchInv, BenchTyping
  <2>2. CASE Reclone
    <3>1. loop' = [iteration |-> 1, last |-> 0] /\ UNCHANGED tree
      BY <2>2 DEF Reclone, NoLoop
    <3> QED BY <2>1, <3>1
  <2>3. CASE CloneInstance \/ CreateTask \/ LoseRun
    <3>1. loop' = loop /\ tree' \in {tree, {}} /\ ~Reclone
      BY <2>3 DEF CloneInstance, CreateTask, LoseRun, Reclone, BenchInv, BenchTyping, EarlyStages
    <3> QED BY <2>1, <3>1
  <2> QED BY <2>2, <2>3
<1>5. BenchTyping'
  BY <1>1, <1>3, <1>4 DEF BenchInv, BenchTyping
<1>6. \/ bench.pc = "clone" /\ pc = "row"
      \/ bench.pc = "row" /\ pc = "bucker"
      \/ bench.pc = "reclone" /\ pc = "baseline" /\ loop'.iteration = 1
      \/ pc = "lost"
  <2>1. \A x : bench' = [bench EXCEPT !.pc = x] => bench'.pc = x
    BY DEF BenchInv, BenchTyping
  <2> QED BY <1>3, <1>4, <2>1 DEF CloneInstance, CreateTask, Reclone, LoseRun
<1>7. LengthInv'
  BY <1>1, <1>3, <1>6 DEF BenchInv, LengthInv, NoDiff
<1> QED BY <1>1, <1>5, <1>7, ResultsStay

LEMMA FailureKeeps ==
  ASSUME BenchInv, RecordFailure
  PROVE  BenchInv'
<1>1. /\ bench.pc \in {"clone", "row"} /\ NextInstance /\ UNCHANGED <<tree, loop, verdict>>
      /\ results' = [bucker |-> Append(results.bucker, Errored),
                     baseline |-> Append(results.baseline, Errored)]
  BY DEF RecordFailure
<1>2. /\ BenchTyping /\ bench.at \in Nat /\ BenchInstances \in Nat
      /\ Len(results.bucker) = bench.at - 1 /\ Len(results.baseline) = bench.at - 1
  BY <1>1, BenchCounts DEF BenchInv, LengthInv
<1>3. Len(results.bucker) + 1 = bench.at /\ Len(results.baseline) + 1 = bench.at
  BY <1>2
<1>4. /\ Append(results.bucker, Errored) \in Seq(ResultSet)
      /\ Len(Append(results.bucker, Errored)) = bench.at
      /\ \A i \in 1 .. Len(Append(results.bucker, Errored)) : BuckerResult(Append(results.bucker, Errored)[i], i)
  BY <1>2, <1>3, ErroredIs, MineGrow
<1>5. /\ Append(results.baseline, Errored) \in Seq(ResultSet)
      /\ Len(Append(results.baseline, Errored)) = bench.at
      /\ \A i \in 1 .. Len(Append(results.baseline, Errored)) :
           BaselineResult(Append(results.baseline, Errored)[i], i)
  BY <1>2, <1>3, ErroredIs, TheirsGrow
<1>6. BenchTyping'
  BY <1>1, <1>2, <1>4, <1>5, InstanceEnds DEF BenchTyping
<1>7. LengthInv'
  <2>1. results'.bucker = Append(results.bucker, Errored) /\ results'.baseline = Append(results.baseline, Errored)
    BY <1>1
  <2>2. (bench'.pc = "evaluate" /\ bench.at = BenchInstances)
        \/ (bench'.pc = "clone" /\ bench'.at = bench.at + 1)
    BY <1>1, <1>2, InstanceEnds
  <2> QED BY <1>2, <1>4, <1>5, <2>1, <2>2 DEF LengthInv
<1>8. ListInv'
  BY <1>1, <1>4, <1>5 DEF ListInv
<1>9. HarnessInv'
  BY <1>1, NotYetCalled DEF EarlyStages
<1> QED BY <1>6, <1>7, <1>8, <1>9 DEF BenchInv

LEMMA BuckerKeeps ==
  ASSUME BenchInv, RunBucker
  PROVE  BenchInv'
<1>1. bench.pc = "bucker" /\ bench' = [bench EXCEPT !.pc = "reclone"] /\ UNCHANGED <<loop, verdict>>
  BY DEF RunBucker
<1>2. /\ BenchTyping /\ bench.at \in Nat
      /\ Len(results.bucker) = bench.at - 1 /\ Len(results.baseline) = bench.at - 1
  BY <1>1, BenchCounts DEF BenchInv, LengthInv
<1>3. Len(results.bucker) + 1 = bench.at
  BY <1>2
<1>4. PICK r \in ResultSet : /\ BuckerResult(r, bench.at)
                             /\ results' = [results EXCEPT !.bucker = Append(results.bucker, r)]
                             /\ tree' \in SUBSET Int
  <2>1. PICK made \in {NoDiff, BuckerDiff}, lands \in BOOLEAN, end \in {"passed", "failed", "raised"} :
          /\ tree' = IF lands THEN {BuckerDiff} ELSE {}
          /\ results' = [results EXCEPT !.bucker = Append(@,
               IF end = "raised" THEN Errored
               ELSE Result(end = "passed", FALSE, made, IF end = "passed" THEN tree' ELSE {}))]
    BY DEF RunBucker
  <2>2. tree' \in SUBSET Int /\ made \in Int
    BY <2>1 DEF BuckerDiff, NoDiff
  <2>3. CASE end = "raised"
    BY <1>2, <2>1, <2>2, <2>3, ErroredIs
  <2>4. CASE end = "passed"
    <3>1. (end = "passed") = TRUE
      BY <2>4
    <3>2. results' = [results EXCEPT !.bucker = Append(results.bucker, Result(TRUE, FALSE, made, tree'))]
      BY <2>1, <2>4, <3>1
    <3>3. Result(TRUE, FALSE, made, tree') \in ResultSet
          /\ BuckerResult(Result(TRUE, FALSE, made, tree'), bench.at)
      BY <1>2, <2>2, ResultIs
    <3> QED BY <2>2, <3>2, <3>3
  <2>5. CASE end = "failed"
    <3>1. (end = "passed") = FALSE
      BY <2>5
    <3>2. results' = [results EXCEPT !.bucker = Append(results.bucker, Result(FALSE, FALSE, made, {}))]
      BY <2>1, <2>5, <3>1
    <3>3. Result(FALSE, FALSE, made, {}) \in ResultSet
          /\ BuckerResult(Result(FALSE, FALSE, made, {}), bench.at)
      BY <1>2, <2>2, ResultIs
    <3> QED BY <2>2, <3>2, <3>3
  <2> QED BY <2>3, <2>4, <2>5
<1>5. LET list == Append(results.bucker, r)
      IN  /\ list \in Seq(ResultSet) /\ Len(list) = bench.at
          /\ \A i \in 1 .. Len(list) : BuckerResult(list[i], i)
  BY <1>3, <1>4, MineGrow
<1>6. results' = [bucker |-> Append(results.bucker, r), baseline |-> results.baseline]
  BY <1>2, <1>4 DEF BenchTyping
<1>7. BenchTyping'
  <2>1. bench' \in [pc : EarlyStages \cup {"log", "stats", "over", "lost"}, at : 1 .. BenchInstances]
    BY <1>1, <1>2 DEF BenchTyping, EarlyStages
  <2> QED BY <1>1, <1>2, <1>4, <1>5, <1>6, <2>1 DEF BenchTyping
<1>8. LengthInv'
  <2>1. bench'.pc = "reclone" /\ bench'.at = bench.at
    BY <1>1, <1>2 DEF BenchTyping
  <2> QED BY <1>2, <1>5, <1>6, <2>1 DEF LengthInv
<1>9. ListInv'
  BY <1>5, <1>6 DEF BenchInv, ListInv
<1>10. HarnessInv'
  BY <1>1, NotYetCalled DEF EarlyStages
<1> QED BY <1>7, <1>8, <1>9, <1>10 DEF BenchInv

\* The baseline, or what keeps it from running, has its result.
LEMMA BaselineEnds ==
  ASSUME BenchInv, bench.pc \in {"reclone", "baseline"}, NEW r \in ResultSet,
         BaselineResult(r, bench.at), NextInstance, UNCHANGED verdict,
         results' = [results EXCEPT !.baseline = Append(results.baseline, r)],
         tree' \in SUBSET Int, loop' \in [iteration : Nat, last : Int]
  PROVE  BenchInv'
<1>1. /\ BenchTyping /\ bench.at \in Nat
      /\ Len(results.bucker) = bench.at /\ Len(results.baseline) = bench.at - 1
  BY BenchCounts DEF BenchInv, LengthInv
<1>2. Len(results.baseline) + 1 = bench.at
  BY <1>1
<1>3. LET list == Append(results.baseline, r)
      IN  /\ list \in Seq(ResultSet) /\ Len(list) = bench.at
          /\ \A i \in 1 .. Len(list) : BaselineResult(list[i], i)
  BY <1>2, TheirsGrow
<1>4. results' = [bucker |-> results.bucker, baseline |-> Append(results.baseline, r)]
  BY <1>1 DEF BenchTyping
<1>5. BenchTyping'
  BY <1>1, <1>3, <1>4, InstanceEnds DEF BenchTyping
<1>6. LengthInv'
  <2>1. (bench'.pc = "evaluate" /\ bench.at = BenchInstances)
        \/ (bench'.pc = "clone" /\ bench'.at = bench.at + 1)
    BY <1>1, InstanceEnds
  <2> QED BY <1>1, <1>3, <1>4, <2>1 DEF LengthInv
<1>7. ListInv'
  BY <1>3, <1>4 DEF BenchInv, ListInv
<1>8. HarnessInv'
  BY NotYetCalled DEF EarlyStages
<1> QED BY <1>5, <1>6, <1>7, <1>8 DEF BenchInv

\* The baseline tries once more, or has come to its last iteration.
LEMMA IterationKeeps ==
  ASSUME BenchInv, bench.pc = "baseline", NEW last \in Int, NextIteration(last), tree' \in SUBSET Int
  PROVE  BenchInv'
<1>1. BenchTyping /\ loop \in [iteration : Nat, last : Int]
  BY DEF BenchInv, BenchTyping
<1>2. CASE loop.iteration = MaxIterations
  <2>1. EndBaseline(Result(FALSE, FALSE, last, {}))
    BY <1>2 DEF NextIteration
  <2>2. Result(FALSE, FALSE, last, {}) \in ResultSet
        /\ BaselineResult(Result(FALSE, FALSE, last, {}), bench.at)
    BY <1>1, ResultIs
  <2>3. loop' \in [iteration : Nat, last : Int]
    BY <2>1 DEF EndBaseline, NoLoop
  <2> QED BY <2>1, <2>2, <2>3, BaselineEnds DEF EndBaseline
<1>3. CASE loop.iteration # MaxIterations
  <2>1. loop' = [loop EXCEPT !.iteration = @ + 1, !.last = last] /\ UNCHANGED <<bench, results, verdict>>
    BY <1>3 DEF NextIteration
  <2>2. loop.iteration + 1 \in Nat \ {0}
    BY <1>1
  <2>3. loop' = [iteration |-> loop.iteration + 1, last |-> last]
    BY <1>1, <2>1
  <2>4. BenchTyping' /\ LengthInv'
    BY <2>1, <2>2, <2>3 DEF BenchInv, BenchTyping, LengthInv, NoDiff
  <2> QED BY <2>1, <2>4, ResultsStay DEF EarlyStages
<1> QED BY <1>2, <1>3

LEMMA BaselineKeeps ==
  ASSUME BenchInv, \/ RecloneFails \/ BaselineRaises \/ BudgetGone \/ NothingUsable \/ TryDiff \/ DeclareDone
  PROVE  BenchInv'
<1>1. BenchTyping /\ loop \in [iteration : Nat, last : Int] /\ tree \in SUBSET Int
      /\ loop.iteration \in Int /\ loop.last \in Int
      /\ (bench.pc = "baseline" => loop.iteration # NoDiff)
  <2>1. BenchTyping /\ loop \in [iteration : Nat, last : Int] /\ tree \in SUBSET Int
    BY DEF BenchInv, BenchTyping
  <2>2. loop.iteration \in Int /\ loop.last \in Int
    BY <2>1
  <2> QED BY <2>1, <2>2 DEF BenchInv, LengthInv
<1>2. ASSUME NEW r \in ResultSet, BaselineResult(r, bench.at), EndBaseline(r), InBaseline, tree' \in SUBSET Int
      PROVE  BenchInv'
  <2>1. loop' \in [iteration : Nat, last : Int]
    BY <1>2 DEF EndBaseline, NoLoop
  <2> QED BY <1>2, <2>1, BaselineEnds DEF EndBaseline, InBaseline
<1>3. CASE RecloneFails
  BY <1>1, <1>3, ErroredIs, BaselineEnds DEF RecloneFails
<1>4. CASE BaselineRaises
  BY <1>1, <1>2, <1>4, ErroredIs DEF BaselineRaises
<1>5. CASE BudgetGone
  <2>1. Result(FALSE, FALSE, NoDiff, {}) \in ResultSet
        /\ BaselineResult(Result(FALSE, FALSE, NoDiff, {}), bench.at)
    <3>1. NoDiff \in Int
      BY DEF NoDiff
    <3> QED BY <1>1, <3>1, ResultIs
  <2> QED BY <1>1, <1>2, <1>5, <2>1 DEF BudgetGone
<1>6. CASE NothingUsable
  BY <1>1, <1>6, IterationKeeps DEF NothingUsable, InBaseline
<1>7. CASE TryDiff
  <2>1. PICK lands \in BOOLEAN, green \in BOOLEAN :
          /\ tree' = IF lands THEN tree \cup {loop.iteration} ELSE tree
          /\ IF green THEN EndBaseline(Result(TRUE, FALSE, loop.iteration, tree'))
             ELSE NextIteration(loop.iteration)
    BY <1>7 DEF TryDiff
  <2>2. tree' \in SUBSET Int /\ InBaseline /\ loop.iteration # NoDiff
    BY <1>1, <1>7, <2>1 DEF TryDiff, InBaseline
  <2>3. CASE green
    <3>1. Result(TRUE, FALSE, loop.iteration, tree') \in ResultSet
          /\ BaselineResult(Result(TRUE, FALSE, loop.iteration, tree'), bench.at)
      BY <1>1, <2>2, ResultIs
    <3> QED BY <1>2, <2>1, <2>2, <2>3, <3>1
  <2>4. CASE ~green
    BY <1>1, <2>1, <2>2, <2>4, IterationKeeps DEF InBaseline
  <2> QED BY <2>3, <2>4
<1>8. CASE DeclareDone
  <2>1. InBaseline
    BY <1>8 DEF DeclareDone
  <2>2. CASE loop.last = NoDiff
    <3>1. Result(FALSE, FALSE, NoDiff, {}) \in ResultSet
          /\ BaselineResult(Result(FALSE, FALSE, NoDiff, {}), bench.at)
      <4>1. NoDiff \in Int
        BY DEF NoDiff
      <4> QED BY <1>1, <4>1, ResultIs
    <3> QED BY <1>1, <1>2, <1>8, <2>1, <2>2, <3>1 DEF DeclareDone
  <2>3. CASE loop.last # NoDiff
    <3>1. PICK lands \in BOOLEAN, green \in BOOLEAN :
            /\ tree' = IF lands THEN tree \cup {loop.last} ELSE tree
            /\ EndBaseline(Result(green, FALSE, loop.last, IF green THEN tree' ELSE {}))
      BY <1>8, <2>3 DEF DeclareDone
    <3>2. tree' \in SUBSET Int /\ (IF green THEN tree' ELSE {}) \in SUBSET Int
      BY <1>1, <3>1
    <3>3. Result(green, FALSE, loop.last, IF green THEN tree' ELSE {}) \in ResultSet
          /\ BaselineResult(Result(green, FALSE, loop.last, IF green THEN tree' ELSE {}), bench.at)
      BY <1>1, <2>3, <3>2, ResultIs
    <3> QED BY <1>2, <2>1, <3>1, <3>2, <3>3
  <2> QED BY <2>2, <2>3
<1> QED BY <1>3, <1>4, <1>5, <1>6, <1>7, <1>8

LEMMA ReportKeeps ==
  ASSUME BenchInv, Evaluate \/ WriteLog \/ Analyze
  PROVE  BenchInv'
<1>1. /\ UNCHANGED <<tree, loop, results>> /\ bench.pc \in {"evaluate", "log", "stats"}
      /\ bench' = [bench EXCEPT !.pc = IF bench.pc = "evaluate" THEN "log"
                                       ELSE IF bench.pc = "log" THEN "stats" ELSE "over"]
  BY DEF Evaluate, WriteLog, Analyze
<1>2. /\ bench' \in [pc : EarlyStages \cup {"log", "stats", "over", "lost"}, at : 1 .. BenchInstances]
      /\ bench'.pc \in {"log", "stats", "over"}
  BY <1>1 DEF BenchInv, BenchTyping, EarlyStages
<1>3. PICK l \in BOOLEAN, h \in {"none", "skipped", "called"},
           d \in {"none", "too few", "raised", "INCONCLUSIVE", "PROCEED", "STOP"} :
        /\ verdict' = [verdict EXCEPT !.logged = l, !.harness = h, !.decision = d]
        /\ h = "called" => verdict.harness = "called"
                           \/ Diffs(results.bucker) \cup Diffs(results.baseline) # {}
  <2>1. verdict \in [logged : BOOLEAN, harness : {"none", "skipped", "called"},
                     decision : {"none", "too few", "raised", "INCONCLUSIVE", "PROCEED", "STOP"}]
    BY DEF BenchInv, BenchTyping
  <2>2. CASE Evaluate
    <3>1. PICK h \in {"skipped", "called"} :
            /\ verdict' = [verdict EXCEPT !.harness = h]
            /\ h = "called" => Diffs(results.bucker) \cup Diffs(results.baseline) # {}
      BY <2>2 DEF Evaluate
    <3>2. verdict' = [verdict EXCEPT !.logged = verdict.logged, !.harness = h, !.decision = verdict.decision]
      BY <2>1, <3>1
    <3> QED BY <2>1, <3>1, <3>2
  <2>3. CASE WriteLog
    <3>1. verdict' = [verdict EXCEPT !.logged = TRUE]
      BY <2>3 DEF WriteLog
    <3>2. verdict' = [verdict EXCEPT !.logged = TRUE, !.harness = verdict.harness, !.decision = verdict.decision]
      BY <2>1, <3>1
    <3> QED BY <2>1, <3>2
  <2>4. CASE Analyze
    <3>1. PICK d \in {"too few", "raised", "INCONCLUSIVE", "PROCEED", "STOP"} :
            verdict' = [verdict EXCEPT !.decision = d]
      BY <2>4 DEF Analyze, Decision
    <3>2. verdict' = [verdict EXCEPT !.logged = verdict.logged, !.harness = verdict.harness, !.decision = d]
      BY <2>1, <3>1
    <3> QED BY <2>1, <3>2
  <2> QED BY <2>2, <2>3, <2>4
<1>4. /\ verdict' \in [logged : BOOLEAN, harness : {"none", "skipped", "called"},
                       decision : {"none", "too few", "raised", "INCONCLUSIVE", "PROCEED", "STOP"}]
      /\ verdict'.harness = h
  BY <1>3 DEF BenchInv, BenchTyping
<1>5. BenchTyping'
  BY <1>1, <1>2, <1>4 DEF BenchInv, BenchTyping
<1>6. Len(results.bucker) = BenchInstances /\ Len(results.baseline) = BenchInstances
  BY <1>1 DEF BenchInv, LengthInv
<1>7. LengthInv' /\ ListInv'
  BY <1>1, <1>2, <1>6 DEF BenchInv, LengthInv, ListInv
<1>8. HarnessInv'
  <2> SUFFICES ASSUME h = "called"
               PROVE  \E i \in 1 .. BenchInstances :
                        results.bucker[i].diff # NoDiff \/ results.baseline[i].diff # NoDiff
    BY <1>1, <1>2, <1>4 DEF HarnessInv, EarlyStages
  <2>1. CASE verdict.harness = "called"
    BY <2>1 DEF BenchInv, HarnessInv
  <2>2. CASE Diffs(results.bucker) \cup Diffs(results.baseline) # {}
    BY <1>6, <2>2 DEF Diffs
  <2> QED BY <1>3, <2>1, <2>2
<1> QED BY <1>5, <1>7, <1>8 DEF BenchInv

\* Whatever fails along the way, the two lists of a benchmark hold the same instances in
\* the same order, each once, and an errored result is no success (bench/runner.py,
\* bench/baseline.py, scripts/m2_gate.py).
THEOREM BenchmarksArePaired == BenchSpec => []ResultsArePaired
<1>1. BenchInit => BenchInv
  <2> SUFFICES ASSUME BenchInit PROVE BenchInv
    OBVIOUS
  <2>1. 1 \in 1 .. BenchInstances
    BY BenchAssumption
  <2>2. BenchTyping
    BY <2>1 DEF BenchInit, BenchTyping, EarlyStages, NoLoop
  <2>3. LengthInv /\ ListInv /\ HarnessInv
    BY DEF BenchInit, LengthInv, ListInv, HarnessInv
  <2> QED BY <2>2, <2>3 DEF BenchInv
<1>2. BenchInv /\ [BenchNext]_benchVars => BenchInv'
  <2> SUFFICES ASSUME BenchInv, [BenchNext]_benchVars PROVE BenchInv'
    OBVIOUS
  <2>1. CASE UNCHANGED benchVars
    BY <2>1, ZenonT(60) DEF BenchInv, BenchTyping, LengthInv, ListInv, HarnessInv, benchVars
  <2> QED BY <2>1, CloneStepsKeep, FailureKeeps, BuckerKeeps, BaselineKeeps, ReportKeeps DEF BenchNext
<1>3. BenchInv => ResultsArePaired
  <2> SUFFICES ASSUME BenchInv, bench.pc \in {"clone", "evaluate", "log", "stats", "over"}
               PROVE  /\ Len(results.bucker) = Len(results.baseline)
                      /\ Len(results.bucker) = IF bench.pc = "clone" THEN bench.at - 1 ELSE BenchInstances
                      /\ \A i \in 1 .. Len(results.bucker) :
                           /\ results.bucker[i].instance = i /\ results.baseline[i].instance = i
                           /\ results.bucker[i].success => ~results.bucker[i].error
                           /\ results.baseline[i].success => results.baseline[i].diff # NoDiff
                      /\ verdict.harness = "called" =>
                           \E i \in 1 .. BenchInstances :
                             results.bucker[i].diff # NoDiff \/ results.baseline[i].diff # NoDiff
    BY DEF ResultsArePaired
  <2>1. /\ Len(results.bucker) = Len(results.baseline)
        /\ Len(results.bucker) = IF bench.pc = "clone" THEN bench.at - 1 ELSE BenchInstances
    BY DEF BenchInv, LengthInv
  <2>2. ListInv /\ HarnessInv
    BY DEF BenchInv
  <2> QED BY <2>1, <2>2 DEF ListInv, HarnessInv, BuckerResult, BaselineResult
<1> QED BY <1>1, <1>2, <1>3, PTL DEF BenchSpec

-----------------------------------------------------------------------------
(* Promotion: how many configurations are active *)

Idlers == {p \in Promoters : promoters[p] = "idle"}

PromotionInv ==
  /\ DOMAIN rows = Candidates /\ promoters \in [Promoters -> Candidates \cup {"idle"}]
  /\ IsFiniteSet(InStatus("promoted"))
  \* Each promotion that has ended since the last rollback has promoted one row at most.
  /\ Cardinality(InStatus("promoted")) <= Cardinality(Idlers)
  /\ ~overlap => /\ Cardinality(InStatus("promoted")) <= 1
                 /\ \A p \in Promoters : promoters[p] # "idle" =>
                      InStatus("promoted") = {} /\ \A q \in Promoters : promoters[q] # "idle" => p = q

LEMMA IdlersFinite ==
  /\ IsFiniteSet(Promoters)
  /\ IsFiniteSet(Idlers) /\ Cardinality(Idlers) \in Nat /\ Cardinality(Idlers) <= Cardinality(Promoters)
  /\ IsFiniteSet(Idlers') /\ Cardinality(Idlers') \in Nat
BY PromotionAssumption, FS_Subset, FS_CardinalityType DEF Idlers

LEMMA RollbackEmpties ==
  ASSUME PromotionInv, rows' = RolledBack
  PROVE  /\ InStatus("promoted")' = {} /\ DOMAIN rows' = Candidates
         /\ IsFiniteSet(InStatus("promoted")') /\ Cardinality(InStatus("promoted")') = 0
<1>1. InStatus("promoted")' = {} /\ DOMAIN rows' = Candidates
  BY DEF InStatus, RolledBack
<1> QED BY <1>1, FS_EmptySet

LEMMA PromotionStarts ==
  ASSUME PromotionInv, NEW p \in Promoters, NEW c \in Candidates, BeginPromotion(p, c)
  PROVE  PromotionInv'
<1>1. rows' = RolledBack /\ promoters' = [promoters EXCEPT ![p] = c]
      /\ overlap' = (overlap \/ \E q \in Promoters : promoters[q] # "idle")
  BY DEF BeginPromotion
<1>2. promoters' \in [Promoters -> Candidates \cup {"idle"}]
      /\ \A q \in Promoters \ {p} : promoters'[q] = promoters[q]
  BY <1>1 DEF PromotionInv
<1>3. overlap' \/ \A q \in Promoters \ {p} : promoters'[q] = "idle"
  BY <1>1, <1>2
<1>4. /\ InStatus("promoted")' = {} /\ DOMAIN rows' = Candidates
      /\ IsFiniteSet(InStatus("promoted")') /\ Cardinality(InStatus("promoted")') = 0
  BY <1>1, RollbackEmpties
<1>5. Cardinality(InStatus("promoted")') <= Cardinality(Idlers') /\ Cardinality(InStatus("promoted")') <= 1
  BY <1>4, IdlersFinite
<1> QED BY <1>2, <1>3, <1>4, <1>5 DEF PromotionInv

LEMMA PromotionEnds ==
  ASSUME PromotionInv, NEW p \in Promoters, EndPromotion(p)
  PROVE  PromotionInv'
<1>1. /\ promoters[p] # "idle" /\ promoters' = [promoters EXCEPT ![p] = "idle"] /\ UNCHANGED overlap
      /\ rows' = [c \in Candidates |->
                    IF c = promoters[p] /\ rows[c] = "approved" THEN "promoted" ELSE rows[c]]
  BY DEF EndPromotion
<1>2. /\ promoters' \in [Promoters -> Candidates \cup {"idle"}] /\ DOMAIN rows' = Candidates
      /\ promoters'[p] = "idle" /\ \A q \in Promoters \ {p} : promoters'[q] = promoters[q]
  BY <1>1 DEF PromotionInv
<1>3. Idlers' = Idlers \cup {p} /\ p \notin Idlers
  BY <1>1, <1>2 DEF Idlers
<1>4. Cardinality(Idlers') = Cardinality(Idlers) + 1
  BY <1>3, IdlersFinite, FS_AddElement
<1>5. InStatus("promoted") \subseteq InStatus("promoted")'
      /\ InStatus("promoted")' \subseteq InStatus("promoted") \cup {promoters[p]}
  BY <1>1 DEF InStatus
<1>6. /\ IsFiniteSet(InStatus("promoted")') /\ Cardinality(InStatus("promoted")) \in Nat
      /\ Cardinality(InStatus("promoted")') \in Nat
      /\ Cardinality(InStatus("promoted")') <= Cardinality(InStatus("promoted")) + 1
  <2>1. IsFiniteSet(InStatus("promoted")) /\ Cardinality(InStatus("promoted")) \in Nat
    BY FS_CardinalityType DEF PromotionInv
  <2>2. CASE InStatus("promoted")' = InStatus("promoted")
    BY <2>1, <2>2
  <2>3. CASE InStatus("promoted")' = InStatus("promoted") \cup {promoters[p]}
    <3>1. promoters[p] \notin InStatus("promoted") \/ InStatus("promoted")' = InStatus("promoted")
      BY <2>3
    <3>2. CASE promoters[p] \notin InStatus("promoted")
      <4>1. IsFiniteSet(InStatus("promoted")')
            /\ Cardinality(InStatus("promoted")') = Cardinality(InStatus("promoted")) + 1
        BY <2>1, <2>3, <3>2, FS_AddElement
      <4> QED BY <2>1, <4>1
    <3> QED BY <2>2, <3>1, <3>2
  <2> QED BY <1>5, <2>2, <2>3
<1>7. ~overlap => InStatus("promoted") = {} /\ Cardinality(InStatus("promoted")) = 0
  BY <1>1, FS_EmptySet DEF PromotionInv
<1>8. ~overlap' => \A q \in Promoters : promoters'[q] = "idle"
  BY <1>1, <1>2 DEF PromotionInv
<1> QED BY <1>1, <1>2, <1>4, <1>6, <1>7, <1>8, IdlersFinite DEF PromotionInv

\* There is one active configuration at most while promotions do not overlap, and never
\* more than there are promoters (bench/promotion.py).
THEOREM FewAreActive == PromotionSpec => []ActiveAreFew
<1>1. PromotionInit => PromotionInv
  <2> SUFFICES ASSUME PromotionInit PROVE PromotionInv
    OBVIOUS
  <2>1. InStatus("promoted") = {}
    BY DEF PromotionInit, InStatus
  <2> QED BY <2>1, IdlersFinite, FS_EmptySet DEF PromotionInit, PromotionInv
<1>2. PromotionInv /\ [PromotionNext]_promotionVars => PromotionInv'
  <2> SUFFICES ASSUME PromotionInv, [PromotionNext]_promotionVars PROVE PromotionInv'
    OBVIOUS
  <2>1. CASE UNCHANGED promotionVars
    BY <2>1 DEF PromotionInv, promotionVars, InStatus, Idlers
  <2>2. ASSUME NEW c \in Candidates, Propose(c) \/ Decide(c)  PROVE PromotionInv'
    <3>1. UNCHANGED <<promoters, overlap>>
      BY <2>2 DEF Propose, Decide
    <3>2. PICK s : rows' = [rows EXCEPT ![c] = s] /\ s # "promoted" /\ rows[c] # "promoted"
      BY <2>2 DEF Propose, Decide
    <3>3. InStatus("promoted")' = InStatus("promoted") /\ DOMAIN rows' = Candidates
      BY <3>2 DEF InStatus, PromotionInv
    <3>4. Idlers' = Idlers
      BY <3>1 DEF Idlers
    <3> QED BY <3>1, <3>3, <3>4 DEF PromotionInv
  <2>3. ASSUME NEW p \in Promoters, NEW c \in Candidates, BeginPromotion(p, c)  PROVE PromotionInv'
    BY <2>3, PromotionStarts
  <2>4. ASSUME NEW p \in Promoters, EndPromotion(p)  PROVE PromotionInv'
    BY <2>4, PromotionEnds
  <2>5. CASE rollback
    <3>1. UNCHANGED <<promoters, overlap>> /\ rows' = RolledBack
      BY <2>5 DEF rollback
    <3>2. Idlers' = Idlers
      BY <3>1 DEF Idlers
    <3> QED BY <3>1, <3>2, RollbackEmpties, IdlersFinite DEF PromotionInv
  <2> QED BY <2>1, <2>2, <2>3, <2>4, <2>5 DEF PromotionNext
<1>3. PromotionInv => ActiveAreFew
  <2> SUFFICES ASSUME PromotionInv PROVE ActiveAreFew
    OBVIOUS
  <2>1. Cardinality(InStatus("promoted")) \in Nat /\ Cardinality(Promoters) \in Nat
    BY IdlersFinite, FS_CardinalityType DEF PromotionInv
  <2> QED BY <2>1, IdlersFinite DEF PromotionInv, ActiveAreFew
<1> QED BY <1>1, <1>2, <1>3, PTL DEF PromotionSpec

-----------------------------------------------------------------------------
(* The parts of a server *)

\* A behaviour of the whole is one of each of its parts: a step of one leaves the others.
LEMMA ServersAreParts ==
  ServerSpec => /\ Spec /\ DoorSpec /\ SandboxSpec /\ ArchiveSpec /\ LiteSpec /\ ReplaySpec
                /\ HandoffSpec /\ BenchSpec /\ PromotionSpec
<1>1. ServerInit => /\ Init /\ DoorInit /\ SandboxInit /\ ArchiveInit /\ LiteInit /\ ReplayInit
                    /\ HandoffInit /\ BenchInit /\ PromotionInit
  BY DEF ServerInit, DoorRests, SandboxRests, ReplayRests, PromotionRests
<1>2. [ServerNext]_serverVars =>
        /\ [Next]_vars /\ [DoorNext]_doorVars /\ [SandboxNext]_sandboxVars
        /\ [ArchiveNext]_archiveVars /\ [LiteNext]_liteVars /\ [ReplayNext]_replayVars
        /\ [HandoffNext]_handoffVars /\ [BenchNext]_benchVars /\ [PromotionNext]_promotionVars
  BY DEF ServerNext, serverVars, Only
<1> QED BY <1>1, <1>2, PTL DEF ServerSpec, Spec, DoorSpec, SandboxSpec, ArchiveSpec, LiteSpec,
                              ReplaySpec, HandoffSpec, BenchSpec, PromotionSpec

\* A mismatch that a replay reports is a change, and what a handoff pack says is what was
\* done (replay/engine.py, core/handoff.py).
THEOREM EvidenceSound == ServerSpec => []EvidenceIsSound
<1>1. MismatchMeansChange /\ HandoffIsSound => EvidenceIsSound
  BY DEF EvidenceIsSound
<1> QED BY <1>1, ServersAreParts, MismatchesMeanChange, HandoffsAreSound, PTL

\* A store gives back what was put there, unless two writers clash over one file
\* (core/blob.py, router/client.py, lite/pool.py).
THEOREM StorageFaithful == ServerSpec => []StorageIsFaithful
<1>1. OnlyClashesTear /\ LiteFaithful => StorageIsFaithful
  BY DEF StorageIsFaithful
<1> QED BY <1>1, ServersAreParts, FilesAreWhole, PoolIsFaithful, PTL

\* What DoorsAreHonest, SandboxHonest, HumanJudgesEscalated and RowIsHonest say of their
\* parts, for the behaviours of the whole.
THEOREM ServersAreHonest ==
  ServerSpec => [](DoorsAreHonest /\ SandboxHonest /\ HumanJudgesEscalated /\ RowIsHonest)
BY ServersAreParts, DoorsHonest, SandboxesAreHonest, HumansJudgeEscalations, RowsAreHonest, PTL
=============================================================================
