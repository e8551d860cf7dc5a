------------------------------ MODULE LiveProofs ------------------------------
(***************************************************************************)
(* Proofs about the parts that follow, show or record a task beside its    *)
(* workflow: the followers of a stream, the desktop's window, demo tasks.  *)
(* The last section puts them together with graphs, as they are checked.   *)
(***************************************************************************)
EXTENDS MCLive, GraphProofs

(* Follow: the fold of a stream *)

\* The statuses after each event of a stream, up to a number of them.
Folds(s, f, k) == f = [i \in 0..k |-> IF i = 0 THEN "unknown" ELSE FoldStatus(f[i - 1], s[i])]

LEMMA FoldExists ==
  ASSUME NEW s, NEW k \in Nat
  PROVE  \E f : Folds(s, f, k)
<1> DEFINE Folded(n) == \E f : Folds(s, f, n)
           Bad == {n \in Nat : ~Folded(n)}
<1>1. Folded(0)
  <2> DEFINE g == [i \in 0..0 |-> "unknown"]
  <2>1. Folds(s, g, 0)
    BY DEF Folds
  <2> QED BY <2>1
<1>2. ASSUME NEW n \in Nat, Folded(n)  PROVE Folded(n + 1)
  <2>1. PICK f : Folds(s, f, n)
    BY <1>2
  <2> DEFINE g == [i \in 0..(n + 1) |-> IF i \in 0..n THEN f[i] ELSE FoldStatus(f[n], s[n + 1])]
  <2>2. \A i \in 0..n : g[i] = f[i]
    OBVIOUS
  <2>3. \A i \in 0..(n + 1) : g[i] = IF i = 0 THEN "unknown" ELSE FoldStatus(g[i - 1], s[i])
    <3> TAKE i \in 0..(n + 1)
    <3>1. CASE i \in 0..n
      <4>1. f[i] = IF i = 0 THEN "unknown" ELSE FoldStatus(f[i - 1], s[i])
        BY <2>1, <3>1 DEF Folds
      <4>2. i # 0 => i - 1 \in 0..n
        BY <3>1
      <4> QED BY <2>2, <3>1, <4>1, <4>2
    <3>2. CASE i = n + 1
      <4>1. g[i] = FoldStatus(f[n], s[n + 1]) /\ i # 0 /\ i - 1 = n /\ g[n] = f[n]
        BY <2>2, <3>2
      <4> QED BY <3>2, <4>1
    <3> QED BY <3>1, <3>2
  <2>4. g = [i \in 0..(n + 1) |-> g[i]]
    OBVIOUS
  <2> HIDE DEF g
  <2>5. Folds(s, g, n + 1)
    BY <2>3, <2>4 DEF Folds
  <2> QED BY <2>5
<1>3. Bad = {}
  <2> SUFFICES ASSUME Bad # {}  PROVE FALSE
    OBVIOUS
  <2>1. Bad \in SUBSET Nat /\ \A n \in Nat : n \in Bad <=> ~Folded(n)
    OBVIOUS
  <2> HIDE DEF Folded, Bad
  <2>2. PICK n \in Bad : \A m \in Bad : n <= m
    BY <2>1, LeastOf
  <2>3. n # 0 /\ n \in Nat /\ ~Folded(n)
    BY <1>1, <2>1
  <2>4. PICK j \in Nat : j + 1 = n
    BY <2>3
  <2>5. j \notin Bad
    BY <2>2, <2>3, <2>4
  <2> QED BY <1>2, <2>1, <2>3, <2>4, <2>5
<1> QED BY <1>3

\* A fold looks at no event behind the one it is asked for.
LEMMA FoldsAgree ==
  ASSUME NEW s, NEW t, NEW n \in Nat, NEW m \in Nat, n <= m,
         \A i \in 1..n : s[i] = t[i],
         NEW f, Folds(s, f, n), NEW g, Folds(t, g, m)
  PROVE  \A i \in 0..n : f[i] = g[i]
<1> DEFINE Bad == {i \in 0..n : f[i] # g[i]}
<1> SUFFICES ASSUME Bad # {}  PROVE FALSE
  OBVIOUS
<1>1. Bad \in SUBSET Nat
  OBVIOUS
<1>2. PICK i \in Bad : \A j \in Bad : i <= j
  BY <1>1, LeastOf
<1>3. /\ f[i] = IF i = 0 THEN "unknown" ELSE FoldStatus(f[i - 1], s[i])
      /\ g[i] = IF i = 0 THEN "unknown" ELSE FoldStatus(g[i - 1], t[i])
  BY <1>2 DEF Folds
<1>4. i # 0 => f[i - 1] = g[i - 1] /\ s[i] = t[i]
  BY <1>2
<1> QED BY <1>2, <1>3, <1>4

FoldOf(s, k) ==
  LET f[i \in 0..k] == IF i = 0 THEN "unknown" ELSE FoldStatus(f[i - 1], s[i]) IN f[k]

LEMMA FoldIsFold ==
  ASSUME NEW s, NEW k \in Nat
  PROVE  \E f : Folds(s, f, k) /\ FoldOf(s, k) = f[k]
<1> DEFINE f == CHOOSE g : Folds(s, g, k)
<1>1. Folds(s, f, k)
  BY FoldExists
<1>2. FoldOf(s, k) = f[k]
  BY DEF FoldOf, Folds
<1> QED BY <1>1, <1>2

LEMMA FoldsOn ==
  ASSUME NEW s, NEW k \in Nat
  PROVE  /\ FoldOf(s, 0) = "unknown"
         /\ FoldOf(s, k + 1) = FoldStatus(FoldOf(s, k), s[k + 1])
<1>1. PICK f : Folds(s, f, k) /\ FoldOf(s, k) = f[k]
  BY FoldIsFold
<1>2. PICK g : Folds(s, g, k + 1) /\ FoldOf(s, k + 1) = g[k + 1]
  BY FoldIsFold
<1>3. PICK h : Folds(s, h, 0) /\ FoldOf(s, 0) = h[0]
  BY FoldIsFold
<1>4. f[k] = g[k]
  <2>1. PICK m \in Nat : m = k + 1
    OBVIOUS
  <2>2. PICK t : t = s
    OBVIOUS
  <2>3. k <= m /\ Folds(t, g, m) /\ \A i \in 1..k : s[i] = t[i]
    BY <1>2, <2>1, <2>2
  <2>4. \A i \in 0..k : f[i] = g[i]
    BY <1>1, <2>3, FoldsAgree
  <2> QED BY <2>4
<1>5. g[k + 1] = FoldStatus(g[k], s[k + 1])
  BY <1>2 DEF Folds
<1>6. h[0] = "unknown"
  BY <1>3 DEF Folds
<1> QED BY <1>1, <1>2, <1>3, <1>4, <1>5, <1>6

\* An event that is appended changes no earlier status.
LEMMA FoldKept ==
  ASSUME NEW s, NEW t, NEW k \in Nat, \A i \in 1..k : s[i] = t[i]
  PROVE  FoldOf(s, k) = FoldOf(t, k)
<1>1. PICK f : Folds(s, f, k) /\ FoldOf(s, k) = f[k]
  BY FoldIsFold
<1>2. PICK g : Folds(t, g, k) /\ FoldOf(t, k) = g[k]
  BY FoldIsFold
<1>3. k <= k
  OBVIOUS
<1>4. \A i \in 0..k : f[i] = g[i]
  BY <1>1, <1>2, <1>3, FoldsAgree
<1> QED BY <1>1, <1>2, <1>4

LEMMA StatusIsFold ==
  /\ \A k \in Nat : StatusAfter(k) = FoldOf(stream, k)
  /\ \A k \in Nat : StatusAfter(k)' = FoldOf(stream', k)
BY DEF StatusAfter, FoldOf

-----------------------------------------------------------------------------
(* Follow: what followers say *)

EventTypes == {"TaskCreated", "ScheduleFailed", "PlanRequested", "WorkerCompleted",
               "GraphStepCompleted"} \cup TerminalEvents
FollowEvents ==
  {e \in [type : EventTypes, step : {None, "__graph__", "step"}, failures : BOOLEAN,
          status : {None, "produced", "started", "completed", "failed", "needs_human_review"}] :
     /\ e.failures => e.type = "GraphStepCompleted" /\ e.step = "__graph__" /\ e.status # "started"
     /\ e.status = "started" => e.step = "__graph__"}
Reports == TerminalStatuses \cup {None, TimedOut}

FollowTyping ==
  /\ stream \in Seq(FollowEvents)
  /\ watch \in [at : {"first", "tail", "done"}, read : Nat, said : Reports]
  /\ watch.read <= Len(stream)
  /\ watch.at = "first" => watch.read = 0
  /\ waiter \in Reports
  /\ pages \in [read : Nat, whole : Nat, done : BOOLEAN] /\ pages.read <= Len(stream)

\* A verdict is the status from then on, except that a human may judge an escalation; and
\* both the events of a stream and what was said of it are such verdicts.
Stands(v) ==
  Undisturbed /\ v \in TerminalStatuses =>
     Status = v \/ (v = "needs_human_review" /\ Status \in {"human_approved", "human_rejected"})
VerdictEventsStand ==
  \A i \in DOMAIN stream :
     stream[i].type \in TerminalEvents => Stands(FoldStatus(None, stream[i]))
HeardInv ==
  /\ FollowTyping /\ VerdictEventsStand
  /\ Stands(watch.said) /\ Stands(waiter)
  /\ WatchSaysWhatItPrinted /\ PagesAreWhole

\* An undisturbed task has no verdict before its workflow gives one; humans are asked by
\* an escalation; and a human's verdict is in the stream.
Decides == Undisturbed /\ workflow \in {"waiting", "running"} => Status \notin TerminalStatuses
Escalates ==
  (workflow = "escalates" \/ escalated \/ \E j \in Judgements : review[j] # "none")
     => Recorded("NeedsHumanReview")
Judged ==
  /\ Status = "human_approved" => Recorded("HumanApproved")
  /\ Status = "human_rejected" => Recorded("HumanRejected")
ReviewStates == {"none", "checked", "written", "done"}
DecidedInv == review \in [Judgements -> ReviewStates] /\ Decides /\ Escalates /\ Judged

FollowInv == HeardInv /\ DecidedInv

\* What ends a watch folds to a status of its own.
LEMMA VerdictsFold ==
  ASSUME NEW e \in FollowEvents, e.type \in TerminalEvents, NEW old
  PROVE  /\ FoldStatus(old, e) = FoldStatus(None, e)
         /\ FoldStatus(old, e) \in TerminalStatuses
         /\ e.type \in Judgements => FoldStatus(old, e) \in {"human_approved", "human_rejected"}
<1>1. ~e.failures
  BY DEF FollowEvents, TerminalEvents, Decisions, Judgements
<1>2. \/ e.type = "TaskCompleted" \/ e.type = "TaskFailed" \/ e.type = "BudgetExceeded"
      \/ e.type = "DeadlineExceeded" \/ e.type = "NeedsHumanReview"
      \/ e.type = "HumanApproved" \/ e.type = "HumanRejected"
  BY DEF TerminalEvents, Decisions, Judgements
<1> QED BY <1>1, <1>2 DEF FoldStatus, Judgements, TerminalStatuses

\* What the other events fold to.
LEMMA FoldsTo ==
  ASSUME NEW e \in FollowEvents, NEW old
  PROVE  /\ e.type = "TaskCreated" => FoldStatus(old, e) = "pending"
         /\ e.type = "ScheduleFailed" => FoldStatus(old, e) = "schedule_failed"
         /\ e.type \in {"PlanRequested", "WorkerCompleted"} => FoldStatus(old, e) = "in_progress"
         /\ e.type = "NeedsHumanReview" => FoldStatus(old, e) = "needs_human_review"
         /\ e.type = "HumanApproved" => FoldStatus(old, e) = "human_approved"
         /\ e.type = "HumanRejected" => FoldStatus(old, e) = "human_rejected"
         /\ e.type = "GraphStepCompleted" =>
              /\ e.step # "__graph__" => FoldStatus(old, e) = old
              /\ e.step = "__graph__" /\ e.status = "started" => FoldStatus(old, e) = "in_progress"
         /\ FoldStatus(old, e) = "human_approved" => old = "human_approved" \/ e.type = "HumanApproved"
         /\ FoldStatus(old, e) = "human_rejected" => old = "human_rejected" \/ e.type = "HumanRejected"
<1>1. /\ e.failures \in BOOLEAN /\ e.status \notin {"human_approved", "human_rejected"}
      /\ e.failures => e.type = "GraphStepCompleted" /\ e.step = "__graph__" /\ e.status # "started"
      /\ e.status = "started" => e.step = "__graph__"
      /\ \/ e.type = "TaskCreated" \/ e.type = "ScheduleFailed" \/ e.type = "PlanRequested"
         \/ e.type = "WorkerCompleted" \/ e.type = "GraphStepCompleted"
         \/ e.type = "TaskCompleted" \/ e.type = "TaskFailed" \/ e.type = "BudgetExceeded"
         \/ e.type = "DeadlineExceeded" \/ e.type = "NeedsHumanReview"
         \/ e.type = "HumanApproved" \/ e.type = "HumanRejected"
  BY DEF FollowEvents, EventTypes, TerminalEvents, Decisions, Judgements, None
<1>2. CASE e.type # "GraphStepCompleted"
  BY <1>1, <1>2 DEF FoldStatus
<1>3. CASE e.type = "GraphStepCompleted"
  <2>1. CASE e.step # "__graph__"
    BY <1>1, <1>3, <2>1 DEF FoldStatus
  <2>2. CASE e.step = "__graph__" /\ e.status = "started"
    BY <1>1, <1>3, <2>2 DEF FoldStatus
  <2>3. CASE e.step = "__graph__" /\ e.status # "started" /\ e.failures
    BY <1>1, <1>3, <2>3 DEF FoldStatus
  <2>4. CASE e.step = "__graph__" /\ e.status # "started" /\ ~e.failures
    BY <1>1, <1>3, <2>4 DEF FoldStatus
  <2> QED BY <1>1, <2>1, <2>2, <2>3, <2>4
<1> QED BY <1>2, <1>3

\* What an event does to the statuses.
LEMMA RecordFolds ==
  ASSUME FollowTyping, NEW e \in FollowEvents, stream' = Append(stream, e)
  PROVE  /\ stream' \in Seq(FollowEvents) /\ Len(stream') = Len(stream) + 1
         /\ \A i \in 1..Len(stream) : stream'[i] = stream[i]
         /\ stream'[Len(stream) + 1] = e
         /\ \A k \in 0..Len(stream) : StatusAfter(k)' = StatusAfter(k)
         /\ Status' = FoldStatus(Status, e)
<1>0. stream \in Seq(FollowEvents) /\ Len(stream) \in Nat
  BY DEF FollowTyping
<1>1. /\ stream' \in Seq(FollowEvents) /\ Len(stream') = Len(stream) + 1
      /\ \A i \in 1..Len(stream) : stream'[i] = stream[i]
      /\ stream'[Len(stream) + 1] = e
  BY <1>0
<1>2. ASSUME NEW k \in 0..Len(stream)  PROVE StatusAfter(k)' = StatusAfter(k)
  <2>1. k \in Nat /\ \A i \in 1..k : stream[i] = stream'[i]
    BY <1>0, <1>1
  <2>2. FoldOf(stream, k) = FoldOf(stream', k)
    BY <2>1, FoldKept
  <2> QED BY <2>1, <2>2, StatusIsFold
<1>3. Status' = FoldStatus(Status, e)
  <2>1. PICK n \in Nat : n = Len(stream) /\ n + 1 \in Nat
    BY <1>0
  <2>2. Status' = FoldOf(stream', n + 1)
    BY <1>1, <2>1, StatusIsFold DEF Status
  <2>3. FoldOf(stream', n + 1) = FoldStatus(FoldOf(stream', n), stream'[n + 1])
    BY FoldsOn
  <2>4. FoldOf(stream', n) = Status
    <3>1. StatusAfter(n)' = StatusAfter(n)
      BY <1>2, <2>1
    <3> QED BY <2>1, <3>1, StatusIsFold DEF Status
  <2> QED BY <1>1, <2>1, <2>2, <2>3, <2>4
<1> QED BY <1>1, <1>2, <1>3

\* What has been recorded stays recorded, and what disturbs a task disturbs it for good.
LEMMA RecordsStay ==
  ASSUME FollowTyping, NEW e \in FollowEvents, stream' = Append(stream, e),
         mishaps \subseteq mishaps'
  PROVE  /\ \A t : Recorded(t)' <=> Recorded(t) \/ e.type = t
         /\ Undisturbed' => Undisturbed
<1>1. /\ stream \in Seq(FollowEvents) /\ Len(stream) \in Nat /\ Len(stream') = Len(stream) + 1
      /\ \A i \in 1..Len(stream) : stream'[i] = stream[i]
      /\ stream'[Len(stream) + 1] = e /\ stream' \in Seq(FollowEvents)
  BY RecordFolds DEF FollowTyping
<1>2. ASSUME NEW t  PROVE Recorded(t)' <=> Recorded(t) \/ e.type = t
  <2>1. DOMAIN stream = 1..Len(stream) /\ DOMAIN stream' = 1..(Len(stream) + 1)
    BY <1>1
  <2> QED BY <1>1, <2>1 DEF Recorded
<1>3. Undisturbed' => Undisturbed
  BY <1>2 DEF Undisturbed
<1> QED BY <1>2, <1>3

LEMMA StreamStays ==
  ASSUME UNCHANGED stream, mishaps \subseteq mishaps'
  PROVE  /\ Status' = Status /\ \A k \in Nat : StatusAfter(k)' = StatusAfter(k)
         /\ \A t : Recorded(t)' <=> Recorded(t)
         /\ Undisturbed' => Undisturbed
BY DEF Status, StatusAfter, Recorded, Undisturbed

\* An event that may come to the stream: any where no verdict has been given yet, after an
\* escalation a human's, one that says the same again.
MayCome(e) ==
  \/ Status \notin TerminalStatuses
  \/ Status = "needs_human_review" /\ e.type \in Judgements
  \/ FoldStatus(Status, e) = Status

\* So nothing that was said is taken back, unless the task is disturbed.
LEMMA RecordKeeps ==
  ASSUME HeardInv, NEW e \in FollowEvents, Record(e), mishaps \subseteq mishaps',
         Undisturbed' => MayCome(e)
  PROVE  HeardInv'
<1> USE DEF HeardInv
<1>1. stream' = Append(stream, e) /\ UNCHANGED <<watch, waiter, pages>>
  BY DEF Record, followers
<1>2. /\ stream' \in Seq(FollowEvents) /\ Len(stream') = Len(stream) + 1
      /\ \A i \in 1..Len(stream) : stream'[i] = stream[i]
      /\ stream'[Len(stream) + 1] = e
      /\ \A k \in 0..Len(stream) : StatusAfter(k)' = StatusAfter(k)
      /\ Status' = FoldStatus(Status, e)
      /\ Undisturbed' => Undisturbed
  BY <1>1, RecordFolds, RecordsStay
<1>3. stream \in Seq(FollowEvents) /\ Len(stream) \in Nat
  BY DEF FollowTyping
<1>4. ASSUME NEW v, Stands(v)  PROVE Stands(v)'
  <2> SUFFICES ASSUME Undisturbed', v \in TerminalStatuses
               PROVE  \/ Status' = v
                      \/ v = "needs_human_review" /\ Status' \in {"human_approved", "human_rejected"}
    BY DEF Stands
  <2>1. /\ Undisturbed /\ MayCome(e)
        /\ \/ Status = v
           \/ v = "needs_human_review" /\ Status \in {"human_approved", "human_rejected"}
    BY <1>2, <1>4 DEF Stands
  <2>2. CASE FoldStatus(Status, e) = Status
    BY <1>2, <2>1, <2>2
  <2>3. CASE Status = "needs_human_review" /\ e.type \in Judgements
    <3>1. e.type \in TerminalEvents
      BY <2>3 DEF TerminalEvents
    <3> QED BY <1>2, <2>1, <2>3, <3>1, VerdictsFold
  <2>4. Status \in TerminalStatuses
    BY <2>1 DEF TerminalStatuses
  <2> QED BY <2>1, <2>2, <2>3, <2>4 DEF MayCome
<1>5. FollowTyping'
  BY <1>1, <1>2, <1>3 DEF FollowTyping
<1>6. VerdictEventsStand'
  <2> SUFFICES ASSUME NEW i \in DOMAIN stream', stream'[i].type \in TerminalEvents,
                      NEW v, v = FoldStatus(None, stream'[i])
               PROVE  Stands(v)'
    BY DEF VerdictEventsStand, Stands
  <2>1. CASE i \in DOMAIN stream
    <3>1. stream'[i] = stream[i]
      BY <1>2, <1>3, <2>1
    <3>2. Stands(v)
      BY <2>1, <3>1 DEF VerdictEventsStand
    <3> QED BY <1>4, <3>2
  <2>2. CASE i = Len(stream) + 1
    <3>1. stream'[i] = e /\ e.type \in TerminalEvents
      BY <1>2, <2>2
    <3>2. Status' = v
      BY <1>2, <3>1, VerdictsFold
    <3> QED BY <3>2 DEF Stands
  <2>3. i \in DOMAIN stream \/ i = Len(stream) + 1
    BY <1>2, <1>3
  <2> QED BY <2>1, <2>2, <2>3
<1>7. Stands(watch.said)' /\ Stands(waiter)'
  BY <1>1, <1>4 DEF Stands
<1>8. WatchSaysWhatItPrinted'
  BY <1>1, <1>2, <1>3 DEF WatchSaysWhatItPrinted, FollowTyping, Record
<1>9. PagesAreWhole'
  BY <1>1 DEF PagesAreWhole
<1> QED BY <1>5, <1>6, <1>7, <1>8, <1>9

\* A step that records nothing and that no follower takes.
LEMMA NothingKeeps ==
  ASSUME HeardInv, RecordsNothing, mishaps \subseteq mishaps'
  PROVE  HeardInv'
<1>1. UNCHANGED <<stream, kind, watch, waiter, pages>>
  BY DEF RecordsNothing, followers
<1>2. /\ Status' = Status /\ \A k \in Nat : StatusAfter(k)' = StatusAfter(k)
      /\ Undisturbed' => Undisturbed
  BY <1>1, StreamStays
<1>3. VerdictEventsStand' /\ Stands(watch.said)' /\ Stands(waiter)'
  BY <1>1, <1>2 DEF HeardInv, VerdictEventsStand, Stands
<1> QED BY <1>1, <1>2, <1>3 DEF HeardInv, FollowTyping, WatchSaysWhatItPrinted, PagesAreWhole

\* A watch prints something when there is something.
LEMMA PrintsSome ==
  ASSUME FollowTyping, watch.read < Len(stream)
  PROVE  Prints(TerminalEvents) \in (watch.read + 1)..Len(stream)
<1> DEFINE ends == {i \in watch.read + 1 .. Len(stream) : stream[i].type \in TerminalEvents}
<1>1. watch.read \in Nat /\ Len(stream) \in Nat
  BY DEF FollowTyping
<1>2. ends \in SUBSET Nat /\ ends \subseteq (watch.read + 1)..Len(stream)
  BY <1>1
<1>3. Prints(TerminalEvents) =
        IF ends = {} THEN Len(stream) ELSE CHOOSE i \in ends : \A j \in ends : i <= j
  BY DEF Prints
<1> HIDE DEF ends
<1>4. ends # {} => \E i \in ends : \A j \in ends : i <= j
  BY <1>2, LeastOf
<1>5. CASE ends # {}
  <2>1. (CHOOSE i \in ends : \A j \in ends : i <= j) \in ends
    BY <1>4, <1>5
  <2> QED BY <1>2, <1>3, <1>5, <2>1
<1> QED BY <1>1, <1>3, <1>5

\* What a watch that reads the n-th event reports is the status after it.
LEMMA VerdictIsStatus ==
  ASSUME FollowTyping, NEW n \in 1..Len(stream), stream[n].type \in TerminalEvents
  PROVE  Verdict(n) = StatusAfter(n) /\ Verdict(n) \in TerminalStatuses
<1>1. stream[n] \in FollowEvents
  BY DEF FollowTyping
<1>2. PICK k \in Nat : k + 1 = n /\ n \in Nat
  BY DEF FollowTyping
<1>3. FoldOf(stream, n) = FoldStatus(FoldOf(stream, k), stream[n])
  BY <1>2, FoldsOn
<1>4. FoldStatus(FoldOf(stream, k), stream[n]) = FoldStatus(None, stream[n])
  BY <1>1, VerdictsFold
<1> QED BY <1>1, <1>2, <1>3, <1>4, VerdictsFold, StatusIsFold DEF Verdict

LEMMA WatchKeeps ==
  ASSUME HeardInv, WatchBegins \/ WatchPolls \/ WatchTimesOut
  PROVE  HeardInv'
<1> USE DEF HeardInv
<1>1. UNCHANGED <<stream, waiter, pages, kind, mishaps>>
  BY DEF WatchBegins, WatchPolls, WatchTimesOut, Unfollowed, followed
<1>2. /\ Status' = Status /\ \A k \in Nat : StatusAfter(k)' = StatusAfter(k)
      /\ Undisturbed' => Undisturbed
  BY <1>1, StreamStays
<1>3. VerdictEventsStand' /\ Stands(waiter)' /\ PagesAreWhole'
  BY <1>1, <1>2 DEF VerdictEventsStand, Stands, PagesAreWhole
<1>4. CASE WatchBegins
  <2>1. watch.at = "first" /\ watch.read = 0
    BY <1>4 DEF WatchBegins, FollowTyping
  <2>2. CASE Status \in TerminalStatuses
    <3>1. PICK v \in TerminalStatuses : v = Status
      BY <2>2
    <3>2. watch' = [watch EXCEPT !.at = "done", !.said = v]
      BY <1>4, <3>1 DEF WatchBegins
    <3>3. Status' = v
      BY <1>2, <3>1
    <3>4. watch' = [at |-> "done", read |-> 0, said |-> v]
      BY <2>1, <3>2 DEF FollowTyping
    <3>5. FollowTyping'
      BY <1>1, <3>4 DEF FollowTyping, Reports
    <3>6. Stands(watch.said)' /\ WatchSaysWhatItPrinted'
      BY <3>3, <3>4 DEF Stands, WatchSaysWhatItPrinted
    <3> QED BY <1>3, <3>5, <3>6
  <2>3. CASE Status \notin TerminalStatuses
    <3>1. watch' = [watch EXCEPT !.at = "tail"]
      BY <1>4, <2>3 DEF WatchBegins
    <3> QED BY <1>1, <1>2, <1>3, <2>1, <3>1 DEF FollowTyping, Stands, WatchSaysWhatItPrinted
  <2> QED BY <2>2, <2>3
<1>5. CASE WatchPolls
  <2> DEFINE n == Prints(TerminalEvents)
  <2>0. watch.at = "tail" /\ watch.read < Len(stream)
    BY <1>5 DEF WatchPolls
  <2>1. n \in (watch.read + 1)..Len(stream) /\ n \in Nat /\ n \in 1..Len(stream)
    BY <2>0, PrintsSome DEF FollowTyping
  <2>2. watch' = IF stream[n].type \in TerminalEvents
                 THEN [at |-> "done", read |-> n, said |-> Verdict(n)]
                 ELSE [watch EXCEPT !.read = n]
    BY <1>5 DEF WatchPolls
  <2> HIDE DEF n
  <2>3. CASE stream[n].type \in TerminalEvents
    <3>1. Verdict(n) = StatusAfter(n) /\ Verdict(n) \in TerminalStatuses
      BY <2>1, <2>3, VerdictIsStatus
    <3>2. Stands(Verdict(n))
      BY <2>1, <2>3 DEF VerdictEventsStand, Verdict
    <3>3. PICK v : v = Verdict(n)
      OBVIOUS
    <3>4. watch'.at = "done" /\ watch'.read = n /\ watch'.said = v
          /\ watch' = [at |-> "done", read |-> n, said |-> v]
      BY <2>2, <2>3, <3>3
    <3>5. Stands(v)'
      BY <1>2, <3>2, <3>3 DEF Stands
    <3>6. Stands(watch.said)'
      BY <3>4, <3>5
    <3>7. WatchSaysWhatItPrinted'
      BY <1>2, <2>1, <3>1, <3>3, <3>4 DEF WatchSaysWhatItPrinted
    <3>8. FollowTyping'
      BY <1>1, <2>1, <3>1, <3>3, <3>4 DEF FollowTyping, Reports
    <3> QED BY <1>3, <3>6, <3>7, <3>8
  <2>4. CASE stream[n].type \notin TerminalEvents
    <3>1. watch' = [watch EXCEPT !.read = n]
      BY <2>2, <2>4
    <3> QED BY <1>1, <1>2, <1>3, <2>0, <2>1, <3>1 DEF FollowTyping, Stands, WatchSaysWhatItPrinted
  <2> QED BY <2>3, <2>4
<1>6. CASE WatchTimesOut
  <2>1. watch' = [watch EXCEPT !.at = "done", !.said = TimedOut]
    BY <1>6 DEF WatchTimesOut
  <2>2. TimedOut \notin TerminalStatuses /\ TimedOut \in Reports
    BY DEF TimedOut, TerminalStatuses, Reports
  <2> QED BY <1>1, <1>2, <1>3, <2>1, <2>2 DEF FollowTyping, Stands, WatchSaysWhatItPrinted
<1> QED BY <1>4, <1>5, <1>6

LEMMA OthersKeep ==
  ASSUME HeardInv, UNCHANGED <<stream, watch, kind, mishaps>>,
         waiter' \in Reports, waiter' \in TerminalStatuses => waiter' = waiter \/ waiter' = Status,
         UNCHANGED pages \/ PageComes
  PROVE  HeardInv'
<1> USE DEF HeardInv
<1>1. /\ Status' = Status /\ \A k \in Nat : StatusAfter(k)' = StatusAfter(k)
      /\ Undisturbed' => Undisturbed
  BY StreamStays
<1>2. VerdictEventsStand' /\ Stands(watch.said)' /\ WatchSaysWhatItPrinted'
  BY <1>1 DEF VerdictEventsStand, Stands, WatchSaysWhatItPrinted, FollowTyping
<1>3. Stands(waiter)'
  <2>1. PICK v : v = waiter'
    OBVIOUS
  <2>2. Stands(v)
    BY <2>1 DEF Stands
  <2> QED BY <1>1, <2>1, <2>2 DEF Stands
<1>4. CASE UNCHANGED pages
  BY <1>2, <1>3, <1>4 DEF FollowTyping, PagesAreWhole
<1>5. CASE PageComes
  <2>1. /\ pages.read \in Nat /\ Len(stream) \in Nat /\ pages.read <= Len(stream)
        /\ PageSize \in Nat
    BY FollowAssumption DEF FollowTyping
  <2>2. PICK n \in Nat : n = PageLength(pages.read)
    BY <2>1 DEF PageLength
  <2>3. /\ n <= Len(stream) - pages.read
        /\ n < PageSize => n = Len(stream) - pages.read
    BY <2>1, <2>2 DEF PageLength
  <2>4. pages' = [read |-> pages.read + n, whole |-> Len(stream), done |-> n < PageSize]
    BY <1>5, <2>2 DEF PageComes
  <2>5. PagesAreWhole'
    <3>1. (pages.done)' = (n < PageSize) /\ pages'.read = pages.read + n /\ pages'.whole = Len(stream)
      BY <2>4
    <3>2. n < PageSize => pages.read + n = Len(stream)
      BY <2>1, <2>3
    <3> QED BY <3>1, <3>2 DEF PagesAreWhole
  <2>6. pages' \in [read : Nat, whole : Nat, done : BOOLEAN] /\ pages'.read <= Len(stream)
    BY <2>1, <2>3, <2>4
  <2> QED BY <1>2, <1>3, <2>5, <2>6 DEF FollowTyping
<1> QED BY <1>4, <1>5

LEMMA FollowInvInit == FollowInit => FollowInv
<1> SUFFICES ASSUME FollowInit  PROVE FollowInv
  OBVIOUS
<1>1. /\ watch = [at |-> "first", read |-> 0, said |-> None] /\ waiter = None
      /\ pages = [read |-> 0, whole |-> 0, done |-> FALSE]
      /\ stream = <<>> \/ stream = <<Plain("TaskCreated")>>
      /\ stream = <<>> => workflow = "over"
      /\ workflow # "escalates" /\ ~escalated /\ review = [j \in Judgements |-> "none"]
  BY DEF FollowInit
<1>2. Plain("TaskCreated") \in FollowEvents /\ Plain("TaskCreated").type = "TaskCreated"
  BY DEF None, Plain, Event, FollowEvents, EventTypes, TerminalEvents, Decisions, Judgements
<1>3. /\ stream \in Seq(FollowEvents) /\ \A i \in DOMAIN stream : stream[i].type \notin TerminalEvents
      /\ stream = <<>> \/ (Len(stream) = 1 /\ stream[1].type = "TaskCreated")
  <2>1. PICK e \in FollowEvents : e = Plain("TaskCreated") /\ e.type = "TaskCreated"
    BY <1>2
  <2>2. e.type \notin TerminalEvents
    BY <2>1 DEF TerminalEvents, Decisions, Judgements
  <2>3. CASE stream = <<>>
    BY <2>3
  <2>4. CASE stream = <<e>>
    <3>1. stream \in Seq(FollowEvents) /\ DOMAIN stream = {1} /\ stream[1] = e
      BY <2>4
    <3> QED BY <2>1, <2>2, <2>4, <3>1
  <2> QED BY <1>1, <2>1, <2>3, <2>4
<1>4. None \notin TerminalStatuses
  BY DEF None, TerminalStatuses
<1>5. HeardInv
  BY <1>1, <1>3, <1>4
     DEF HeardInv, FollowTyping, Reports, VerdictEventsStand, Stands, WatchSaysWhatItPrinted, PagesAreWhole
<1>6. (Status = "unknown" /\ workflow = "over") \/ Status = "pending"
  <2>1. CASE stream = <<>>
    <3>1. Len(stream) = 0
      BY <2>1
    <3> QED BY <1>1, <2>1, <3>1, StatusIsFold, FoldsOn DEF Status
  <2>2. CASE Len(stream) = 1 /\ stream[1].type = "TaskCreated"
    <3>1. FoldOf(stream, 0 + 1) = FoldStatus(FoldOf(stream, 0), stream[0 + 1])
      BY FoldsOn
    <3>2. FoldOf(stream, 1) = "pending"
      <4>1. stream[1] \in FollowEvents
        BY <1>3, <2>2
      <4> QED BY <2>2, <3>1, <4>1, FoldsTo
    <3> QED BY <2>2, <3>2, StatusIsFold DEF Status
  <2> QED BY <1>3, <2>1, <2>2
<1>7. DecidedInv
  <2>1. review \in [Judgements -> ReviewStates] /\ \A j \in Judgements : review[j] = "none"
    BY <1>1 DEF ReviewStates
  <2> QED BY <1>1, <1>6, <2>1 DEF DecidedInv, Decides, Escalates, Judged, TerminalStatuses
<1> QED BY <1>5, <1>7 DEF FollowInv

Types == {"TaskCreated", "ScheduleFailed", "PlanRequested", "WorkerCompleted",
          "GraphStepCompleted", "TaskCompleted", "TaskFailed", "BudgetExceeded",
          "DeadlineExceeded", "NeedsHumanReview", "HumanApproved", "HumanRejected"}

LEMMA EventsKnown ==
  /\ \A d \in Types : Plain(d) \in FollowEvents /\ Plain(d).type = d
  /\ /\ Event("WorkerCompleted", None, "produced", FALSE) \in FollowEvents
     /\ Event("WorkerCompleted", None, "produced", FALSE).type = "WorkerCompleted"
  /\ \A s \in {"started", "completed", "failed", "needs_human_review"}, f \in BOOLEAN :
        /\ (f => s = "completed") => GraphEvent("__graph__", s, f) \in FollowEvents
        /\ GraphEvent("__graph__", s, f).type = "GraphStepCompleted"
        /\ GraphEvent("__graph__", s, f).status = s /\ GraphEvent("__graph__", s, f).step = "__graph__"
  /\ \A s \in {"completed", "failed", "needs_human_review"} :
        /\ GraphEvent("step", s, FALSE) \in FollowEvents
        /\ GraphEvent("step", s, FALSE).type = "GraphStepCompleted"
        /\ GraphEvent("step", s, FALSE).step = "step"
<1>1. \A d \in Types : Plain(d) \in FollowEvents /\ Plain(d).type = d
  BY DEF None, Plain, Event, FollowEvents, EventTypes, TerminalEvents, Decisions, Judgements, Types
<1>2. /\ Event("WorkerCompleted", None, "produced", FALSE) \in FollowEvents
      /\ Event("WorkerCompleted", None, "produced", FALSE).type = "WorkerCompleted"
  BY DEF None, Event, FollowEvents, EventTypes
<1>3. ASSUME NEW s \in {"started", "completed", "failed", "needs_human_review"}, NEW f \in BOOLEAN
      PROVE  /\ (f => s = "completed") => GraphEvent("__graph__", s, f) \in FollowEvents
             /\ GraphEvent("__graph__", s, f).type = "GraphStepCompleted"
             /\ GraphEvent("__graph__", s, f).status = s
             /\ GraphEvent("__graph__", s, f).step = "__graph__"
  BY DEF Event, GraphEvent, FollowEvents, EventTypes
<1>4. ASSUME NEW s \in {"completed", "failed", "needs_human_review"}
      PROVE  /\ GraphEvent("step", s, FALSE) \in FollowEvents
             /\ GraphEvent("step", s, FALSE).type = "GraphStepCompleted"
             /\ GraphEvent("step", s, FALSE).step = "step"
  BY DEF Event, GraphEvent, FollowEvents, EventTypes
<1> QED BY <1>1, <1>2, <1>3, <1>4

\* A human's verdict comes of a human's event only.
LEMMA JudgedKept ==
  ASSUME FollowInv, NEW e \in FollowEvents, Record(e), mishaps \subseteq mishaps'
  PROVE  /\ Judged' /\ Status' = FoldStatus(Status, e)
         /\ \A t : Recorded(t)' <=> Recorded(t) \/ e.type = t
         /\ Undisturbed' => Undisturbed
<1>1. stream' = Append(stream, e) /\ FollowTyping
  BY DEF Record, FollowInv, HeardInv
<1>2. /\ Status' = FoldStatus(Status, e) /\ \A t : Recorded(t)' <=> Recorded(t) \/ e.type = t
      /\ Undisturbed' => Undisturbed
  BY <1>1, RecordFolds, RecordsStay
<1>3. Judged'
  BY <1>2, FoldsTo DEF Judged, FollowInv, DecidedInv
<1> QED BY <1>2, <1>3

\* A step of the task's that records an event.
LEMMA TaskRecords ==
  ASSUME FollowInv, NEW e \in FollowEvents, Record(e), mishaps \subseteq mishaps',
         review' \in [Judgements -> ReviewStates],
         Undisturbed' => MayCome(e),
         Undisturbed' /\ workflow' \in {"waiting", "running"} => FoldStatus(Status, e) \notin TerminalStatuses,
         \/ e.type = "NeedsHumanReview" \/ Recorded("NeedsHumanReview")
         \/ workflow' # "escalates" /\ UNCHANGED <<escalated, review>>
  PROVE  FollowInv'
<1>1. HeardInv'
  BY RecordKeeps DEF FollowInv
<1>2. /\ Judged' /\ Status' = FoldStatus(Status, e)
      /\ \A t : Recorded(t)' <=> Recorded(t) \/ e.type = t
  BY JudgedKept
<1>3. Decides'
  BY <1>2 DEF Decides
<1>4. Escalates'
  BY <1>2 DEF Escalates, FollowInv, DecidedInv
<1> QED BY <1>1, <1>2, <1>3, <1>4 DEF FollowInv, DecidedInv

LEMMA TaskIsSilent ==
  ASSUME FollowInv, RecordsNothing, mishaps \subseteq mishaps',
         review' \in [Judgements -> ReviewStates],
         Undisturbed' /\ workflow' \in {"waiting", "running"} => Status \notin TerminalStatuses,
         Escalates'
  PROVE  FollowInv'
<1>1. HeardInv'
  BY NothingKeeps DEF FollowInv
<1>2. UNCHANGED stream
  BY DEF RecordsNothing
<1>3. Status' = Status /\ \A t : Recorded(t)' <=> Recorded(t)
  BY <1>2, StreamStays
<1> QED BY <1>1, <1>3 DEF FollowInv, DecidedInv, Decides, Judged

LEMMA SurprisesKeep ==
  ASSUME FollowInv, ScheduleFails \/ Swept \/ RowOverwritten \/ Restarted \/ WorksOn
  PROVE  FollowInv'
<1>0. review \in [Judgements -> ReviewStates] /\ Decides /\ Escalates
  BY DEF FollowInv, DecidedInv
<1>1. CASE ScheduleFails
  <2>1. PICK e \in FollowEvents : e.type = "ScheduleFailed" /\ Record(e)
    BY <1>1, EventsKnown DEF ScheduleFails, Types
  <2>2. /\ UNCHANGED <<workflow, escalated, review>> /\ mishaps \subseteq mishaps'
        /\ Undisturbed' => workflow = "waiting"
    BY <1>1 DEF ScheduleFails, Befalls, Undisturbed
  <2>3. Undisturbed' => Undisturbed
    BY <2>1, <2>2, JudgedKept
  <2>4. FoldStatus(Status, e) = "schedule_failed"
    BY <2>1, FoldsTo
  <2>5. Undisturbed' => Status \notin TerminalStatuses
    BY <1>0, <2>2, <2>3 DEF Decides
  <2>6. "schedule_failed" \notin TerminalStatuses
    BY DEF TerminalStatuses
  <2>7. Recorded("NeedsHumanReview") \/ (workflow' # "escalates" /\ UNCHANGED <<escalated, review>>)
    BY <1>0, <2>2 DEF Escalates
  <2> QED BY <1>0, <2>1, <2>2, <2>4, <2>5, <2>6, <2>7, TaskRecords DEF MayCome
<1>2. CASE Swept \/ WorksOn
  <2>1. PICK e \in FollowEvents : Record(e)
    BY <1>2, EventsKnown DEF Swept, WorksOn, Types
  <2>2. /\ UNCHANGED <<workflow, escalated, review>> /\ mishaps \subseteq mishaps'
        /\ ~Undisturbed'
    BY <1>2 DEF Swept, WorksOn, Befalls, Undisturbed
  <2>3. Recorded("NeedsHumanReview") \/ (workflow' # "escalates" /\ UNCHANGED <<escalated, review>>)
    BY <1>0, <2>2 DEF Escalates
  <2> QED BY <1>0, <2>1, <2>2, <2>3, TaskRecords
<1>3. CASE RowOverwritten \/ Restarted
  <2>1. RecordsNothing /\ mishaps \subseteq mishaps' /\ UNCHANGED review
    BY <1>3 DEF RowOverwritten, Restarted, Befalls
  <2>2. UNCHANGED stream
    BY <2>1 DEF RecordsNothing
  <2>3. \A t : Recorded(t)' <=> Recorded(t)
    BY <2>1, <2>2, StreamStays
  <2>4. ~Undisturbed'
    BY <1>3 DEF RowOverwritten, Restarted, Befalls, Undisturbed
  <2>5. Escalates'
    BY <1>0, <1>3, <2>1, <2>3 DEF Escalates, RowOverwritten, Restarted
  <2> QED BY <1>0, <2>1, <2>4, <2>5, TaskIsSilent
<1> QED BY <1>1, <1>2, <1>3

LEMMA WorkflowKeeps ==
  ASSUME FollowInv,
         \/ CodeStarts \/ CodeWorks \/ CodeDecides \/ RowWritten \/ Cancelled
         \/ GraphStarts \/ GraphProceeds \/ GraphEnds
  PROVE  FollowInv'
<1>0. review \in [Judgements -> ReviewStates] /\ Decides /\ Escalates
  BY DEF FollowInv, DecidedInv
<1>a. UNCHANGED <<mishaps, review>> /\ mishaps \subseteq mishaps'
  BY DEF CodeStarts, CodeWorks, CodeDecides, RowWritten, Cancelled, GraphStarts, GraphProceeds,
         GraphEnds, Moves, followed
<1>b. ASSUME workflow \in {"waiting", "running"}, NEW e \in FollowEvents, Record(e),
             UNCHANGED escalated,
             workflow' = "running" => FoldStatus(Status, e) \notin TerminalStatuses
                                      \/ FoldStatus(Status, e) = Status,
             workflow' # "waiting", workflow' = "escalates" => e.type = "NeedsHumanReview"
      PROVE  FollowInv'
  <2>1. Undisturbed' => Undisturbed /\ Status \notin TerminalStatuses
    BY <1>0, <1>a, <1>b, JudgedKept DEF Decides
  <2> QED BY <1>0, <1>a, <1>b, <2>1, TaskRecords DEF MayCome
<1>c. ASSUME RecordsNothing, workflow' \notin {"waiting", "running"},
             escalated' \/ workflow' = "escalates" =>
               escalated \/ workflow = "escalates" \/ Recorded("NeedsHumanReview")
      PROVE  FollowInv'
  <2>1. UNCHANGED stream
    BY <1>c DEF RecordsNothing
  <2>2. \A t : Recorded(t)' <=> Recorded(t)
    BY <1>a, <2>1, StreamStays
  <2>3. Escalates'
    BY <1>0, <1>a, <1>c, <2>2 DEF Escalates
  <2> QED BY <1>0, <1>a, <1>c, <2>3, TaskIsSilent
<1>1. CASE CodeStarts \/ CodeWorks
  <2>1. PICK e \in FollowEvents : e.type \in {"PlanRequested", "WorkerCompleted"} /\ Record(e)
    BY <1>1, EventsKnown DEF CodeStarts, CodeWorks, Types
  <2>2. FoldStatus(Status, e) = "in_progress" /\ "in_progress" \notin TerminalStatuses
    BY <2>1, FoldsTo DEF TerminalStatuses
  <2>3. UNCHANGED escalated /\ workflow \in {"waiting", "running"} /\ workflow' = "running"
    BY <1>1 DEF CodeStarts, CodeWorks, Moves, followed
  <2> QED BY <1>b, <2>1, <2>2, <2>3
<1>2. CASE CodeDecides
  <2>1. PICK d \in Decisions : /\ Record(Plain(d)) \/ (Recorded(d) /\ RecordsNothing)
                               /\ Moves(IF d = "NeedsHumanReview" THEN "escalates" ELSE "writes")
    BY <1>2, FollowAssumption DEF CodeDecides
  <2>2. UNCHANGED escalated /\ workflow = "running"
    BY <1>2, <2>1 DEF CodeDecides, Moves
  <2>3. workflow' \in {"escalates", "writes"} /\ (workflow' = "escalates" => d = "NeedsHumanReview")
    BY <2>1 DEF Moves
  <2>4. CASE Record(Plain(d))
    <3>1. Plain(d) \in FollowEvents /\ Plain(d).type = d
      BY EventsKnown DEF Types, Decisions
    <3> QED BY <1>b, <2>2, <2>3, <2>4, <3>1
  <2>5. CASE Recorded(d) /\ RecordsNothing
    BY <1>c, <2>2, <2>3, <2>5
  <2> QED BY <2>1, <2>4, <2>5
<1>3. CASE RowWritten \/ Cancelled
  BY <1>c, <1>3 DEF RowWritten, Cancelled, Moves
<1>4. CASE GraphStarts \/ GraphProceeds
  <2>1. PICK e \in FollowEvents :
          /\ Record(e) /\ e.type = "GraphStepCompleted"
          /\ \/ e.step = "__graph__" /\ (e.status = "started" \/ workflow' = "over")
             \/ e.step # "__graph__"
    <3>1. CASE GraphStarts
      <4>1. CASE Record(GraphEvent("__graph__", "started", FALSE))
        BY <4>1, EventsKnown
      <4>2. CASE Record(GraphEvent("__graph__", "failed", FALSE)) /\ Moves("over")
        <5>1. workflow' = "over"
          BY <4>2 DEF Moves
        <5> QED BY <4>2, <5>1, EventsKnown
      <4> QED BY <3>1, <4>1, <4>2 DEF GraphStarts
    <3>2. CASE GraphProceeds
      BY <3>2, EventsKnown DEF GraphProceeds
    <3> QED BY <1>4, <3>1, <3>2
  <2>2. /\ UNCHANGED escalated /\ workflow \in {"waiting", "running"}
        /\ workflow' \in {"running", "over"}
    BY <1>4 DEF GraphStarts, GraphProceeds, Moves, followed
  <2>3. \/ workflow' = "over" \/ FoldStatus(Status, e) = Status
        \/ FoldStatus(Status, e) \notin TerminalStatuses
    BY <2>1, FoldsTo DEF TerminalStatuses
  <2> QED BY <1>b, <2>1, <2>2, <2>3
<1>5. CASE GraphEnds
  <2>1. UNCHANGED escalated /\ workflow = "running" /\ workflow' = "over"
    BY <1>5 DEF GraphEnds, Moves
  <2>2. CASE RecordsNothing
    BY <1>c, <2>1, <2>2
  <2>3. CASE \E f \in BOOLEAN : Record(GraphEvent("__graph__", "completed", f))
    BY <1>b, <2>1, <2>3, EventsKnown
  <2> QED BY <1>5, <2>2, <2>3 DEF GraphEnds
<1> QED BY <1>1, <1>2, <1>3, <1>4, <1>5

LEMMA HumansKeep ==
  ASSUME FollowInv, NEW j \in Judgements, HumanLooks(j) \/ HumanWrites(j) \/ HumanJudges(j)
  PROVE  FollowInv'
<1>0. review \in [Judgements -> ReviewStates] /\ Decides /\ Escalates /\ Judged
  BY DEF FollowInv, DecidedInv
<1>1. /\ review' \in [Judgements -> ReviewStates] /\ UNCHANGED <<mishaps, workflow>>
      /\ escalated' => escalated
      /\ Recorded("NeedsHumanReview")
  <2>1. CASE HumanLooks(j)
    BY <1>0, <2>1 DEF HumanLooks, Escalates, ReviewStates
  <2>2. CASE HumanWrites(j)
    BY <1>0, <2>2 DEF HumanWrites, Escalates, ReviewStates
  <2>3. CASE HumanJudges(j)
    BY <1>0, <2>3 DEF HumanJudges, Escalates, ReviewStates
  <2> QED BY <2>1, <2>2, <2>3
<1>2. CASE HumanLooks(j) \/ HumanWrites(j)
  <2>1. RecordsNothing /\ UNCHANGED stream
    BY <1>2 DEF HumanLooks, HumanWrites, RecordsNothing
  <2>2. (\A t : Recorded(t)' <=> Recorded(t)) /\ (Undisturbed' => Undisturbed)
    BY <1>1, <2>1, StreamStays
  <2>3. Escalates'
    BY <1>1, <2>2 DEF Escalates
  <2> QED BY <1>0, <1>1, <2>1, <2>2, <2>3, TaskIsSilent DEF Decides
<1>3. CASE HumanJudges(j)
  <2>1. PICK e \in FollowEvents : e.type = j /\ Record(e)
    BY <1>3, EventsKnown DEF HumanJudges, Types, Judgements
  <2>2. /\ \A t : Recorded(t)' <=> Recorded(t) \/ e.type = t
        /\ Undisturbed' => Undisturbed
    BY <1>1, <2>1, JudgedKept
  <2>3. Undisturbed => Status \in {"needs_human_review", "human_approved", "human_rejected"}
    <3>1. PICK i \in DOMAIN stream : stream[i].type = "NeedsHumanReview"
      BY <1>1 DEF Recorded
    <3>2. Stands(FoldStatus(None, stream[i]))
      BY <3>1 DEF FollowInv, HeardInv, VerdictEventsStand, TerminalEvents, Decisions
    <3>3. FoldStatus(None, stream[i]) = "needs_human_review"
      <4>1. stream[i] \in FollowEvents
        BY <3>1 DEF FollowInv, HeardInv, FollowTyping
      <4> QED BY <3>1, <4>1, FoldsTo
    <3> QED BY <3>2, <3>3 DEF Stands, TerminalStatuses
  <2>4. FoldStatus(Status, e) = IF j = "HumanApproved" THEN "human_approved" ELSE "human_rejected"
    BY <2>1, FoldsTo DEF Judgements
  <2>5. Undisturbed' => MayCome(e)
    <3>1. Undisturbed' /\ Status = "human_approved" => j = "HumanApproved"
      BY <1>0, <2>1, <2>2 DEF Undisturbed, Judged, Judgements
    <3>2. Undisturbed' /\ Status = "human_rejected" => j = "HumanRejected"
      BY <1>0, <2>1, <2>2 DEF Undisturbed, Judged, Judgements
    <3> QED BY <2>1, <2>2, <2>3, <2>4, <3>1, <3>2 DEF MayCome
  <2>6. Undisturbed' => workflow' \notin {"waiting", "running"}
    BY <1>0, <1>1, <2>2, <2>3 DEF Decides, TerminalStatuses
  <2> QED BY <1>1, <2>1, <2>5, <2>6, TaskRecords
<1> QED BY <1>2, <1>3

LEMMA FollowersKeepDecided ==
  ASSUME FollowInv, UNCHANGED <<stream, followed>>
  PROVE  DecidedInv'
<1>1. UNCHANGED <<workflow, escalated, review, mishaps>> /\ mishaps \subseteq mishaps'
  BY DEF followed
<1>2. /\ Status' = Status /\ \A t : Recorded(t)' <=> Recorded(t)
      /\ Undisturbed' => Undisturbed
  BY <1>1, StreamStays
<1> QED BY <1>1, <1>2 DEF FollowInv, DecidedInv, Decides, Escalates, Judged

LEMMA FollowInvStep == FollowInv /\ [FollowNext]_followVars => FollowInv'
<1> SUFFICES ASSUME FollowInv, [FollowNext]_followVars  PROVE FollowInv'
  OBVIOUS
<1>0. HeardInv /\ waiter \in Reports /\ None \notin TerminalStatuses
  BY DEF FollowInv, HeardInv, FollowTyping, None, TerminalStatuses
<1>a. Unfollowed => UNCHANGED <<stream, kind, mishaps>> /\ DecidedInv'
  BY FollowersKeepDecided DEF Unfollowed, followed
<1>1. CASE WatchBegins \/ WatchPolls \/ WatchTimesOut
  <2>1. Unfollowed
    BY <1>1 DEF WatchBegins, WatchPolls, WatchTimesOut
  <2> QED BY <1>0, <1>a, <1>1, <2>1, WatchKeeps DEF FollowInv
<1>2. CASE WaitSees
  BY <1>0, <1>a, <1>2, OthersKeep DEF WaitSees, Reports, FollowInv
<1>3. CASE WaitTimesOut
  <2>1. TimedOut \notin TerminalStatuses
    BY DEF TimedOut, TerminalStatuses
  <2> QED BY <1>0, <1>a, <1>3, <2>1, OthersKeep DEF WaitTimesOut, Reports, FollowInv
<1>4. CASE ClientSees \/ ClientTimesOut \/ SocketOpens \/ SocketPolls \/ SocketLeaves \/ PageComes
  <2>1. Unfollowed /\ UNCHANGED <<watch, waiter>>
    BY <1>4 DEF ClientSees, ClientTimesOut, SocketOpens, SocketPolls, SocketLeaves, PageComes
  <2>2. UNCHANGED pages \/ PageComes
    BY <1>4 DEF ClientSees, ClientTimesOut, SocketOpens, SocketPolls, SocketLeaves
  <2> QED BY <1>0, <1>a, <2>1, <2>2, OthersKeep DEF FollowInv
<1>5. CASE UNCHANGED followVars
  <2>1. Unfollowed /\ UNCHANGED <<watch, waiter, pages>>
    BY <1>5 DEF followVars, Unfollowed, followers
  <2> QED BY <1>0, <1>a, <2>1, OthersKeep DEF FollowInv
<1> QED BY <1>1, <1>2, <1>3, <1>4, <1>5, SurprisesKeep, WorkflowKeeps, HumansKeep DEF FollowNext

\* Whatever order reads, events, time limits and humans come in: a watch reports what it
\* printed, pages are whole, and what a watch and a wait report of a task that no sweep,
\* second run, late try, late start or second judgement disturbs stands unless a human is
\* asked.
THEOREM FollowersHearTheTruth == FollowSpec => []FollowersAreRight
<1>1. FollowInv => FollowersAreRight
  <2> SUFFICES ASSUME FollowInv  PROVE VerdictsStand
    BY DEF FollowInv, HeardInv, FollowersAreRight
  <2>1. ASSUME Undisturbed,
               NEW v \in {watch.said, waiter} \ {None, TimedOut}, ExitCode(v) # ExitCode(Status)
        PROVE  v = "needs_human_review" /\ Status # v
    <3>1. v \in TerminalStatuses /\ Stands(v)
      BY DEF FollowInv, HeardInv, FollowTyping, Reports
    <3> QED BY <2>1, <3>1 DEF Stands
  <2> QED BY <2>1 DEF VerdictsStand
<1> QED BY <1>1, FollowInvInit, FollowInvStep, PTL DEF FollowSpec

-----------------------------------------------------------------------------
(* DesktopAgent *)

Prompts == {Silent, [busy |-> TRUE, pending |-> TRUE, works |-> TRUE],
            [busy |-> FALSE, pending |-> FALSE, works |-> TRUE]}
PromptKnown == prompting \in Prompts

\* The window is busy while its prompt is pending and only then: through timeouts, late
\* answers, agents that exit or are replaced, and folders that change.
THEOREM WindowIsHonest == DesktopInit /\ [][DesktopNext]_desktopVars => []BusyWhilePending
<1>1. DesktopInit => PromptKnown
  BY DEF DesktopInit, PromptKnown, Prompts
<1>2. PromptKnown /\ [DesktopNext]_desktopVars => PromptKnown'
  <2> USE DEF PromptKnown
  <2> SUFFICES ASSUME prompting \in Prompts, [DesktopNext]_desktopVars  PROVE prompting' \in Prompts
    OBVIOUS
  <2>1. CASE PromptTimesOut
    <3>1. prompting' = [prompting EXCEPT !.busy = FALSE, !.pending = FALSE]
      BY <2>1 DEF PromptTimesOut
    <3>2. CASE prompting = Silent
      <4>1. prompting' = Silent
        BY <3>1, <3>2 DEF Silent
      <4> QED BY <4>1 DEF Prompts
    <3>3. CASE prompting = [busy |-> TRUE, pending |-> TRUE, works |-> TRUE]
      <4>1. prompting' = [busy |-> FALSE, pending |-> FALSE, works |-> TRUE]
        BY <3>1, <3>3
      <4> QED BY <4>1 DEF Prompts
    <3>4. CASE prompting = [busy |-> FALSE, pending |-> FALSE, works |-> TRUE]
      <4>1. prompting' = [busy |-> FALSE, pending |-> FALSE, works |-> TRUE]
        BY <3>1, <3>4
      <4> QED BY <4>1 DEF Prompts
    <3> QED BY <3>2, <3>3, <3>4 DEF Prompts
  <2>2. CASE Prompt
    BY <2>2 DEF Prompt, Prompts
  <2>3. CASE UNCHANGED prompting \/ prompting' = Silent
    BY <2>3 DEF Prompts
  <2> QED BY <2>1, <2>2, <2>3
          DEF DesktopNext, SpawnGateway, GatewayReady, GatewayNotReady, EditConnections, CloseIfOn,
              CloseAgent, Connect, LookForAgent, NoAgentFound, SpawnAgent, SessionStarts, SessionFails,
              AgentExits, OpenFolder, ResetSession, PromptAnswered, Ask, ShowCard, AnswerCard, desktopVars
<1>3. PromptKnown => BusyWhilePending
  BY DEF PromptKnown, Prompts, Silent, BusyWhilePending
<1> QED BY <1>1, <1>2, <1>3, PTL

-----------------------------------------------------------------------------
(* Demo: tries *)

Underway == {"look", "work", "crash?", "record"}
Tries == [job : Job, try : Nat, pc : {"begin", "row"} \cup Underway]
DemoTyping ==
  /\ demo \in [job : Job, tries : 0..DemoTries, awaits : BOOLEAN, over : {"no", "failed", "completed"}]
  /\ inside \in SUBSET Tries
  /\ crashed \in BOOLEAN /\ faults \in Nat

\* A job has each try once, and none before the workflow is there.
TriesInv ==
  /\ \A r, q \in inside : r.job = q.job /\ r.try = q.try => r = q
  /\ \A r \in inside : r.job <= demo.job /\ (r.job = demo.job => r.try <= demo.tries)

\* Every try of the job there is, but for the one that is awaited and runs, was lost to a
\* fault or to the one crash that is injected.
Held == \E r \in inside : Awaited(r)
LostInv ==
  demo.over # "completed" =>
     demo.tries <= faults + (IF crashed THEN 1 ELSE 0) + (IF Held THEN 1 ELSE 0)
TryInv == DemoTyping /\ TriesInv /\ LostInv

LEMMA MovesOnKeeps ==
  ASSUME TryInv, NEW r \in inside, NEW pc \in {"begin", "row"} \cup Underway, MovesOn(r, pc),
         UNCHANGED <<demo, crashed, faults>>
  PROVE  TryInv'
<1> DEFINE m == [r EXCEPT !.pc = pc]
<1>1. r \in Tries /\ inside \subseteq Tries
  BY DEF TryInv, DemoTyping
<1>2. m \in Tries /\ m.job = r.job /\ m.try = r.try
  BY <1>1 DEF Tries
<1>3. inside' = (inside \ {r}) \cup {m}
  BY DEF MovesOn
<1> HIDE DEF m
<1>4. DemoTyping'
  BY <1>1, <1>2, <1>3 DEF TryInv, DemoTyping
<1>5. TriesInv'
  BY <1>2, <1>3 DEF TryInv, TriesInv
<1>6. Held' <=> Held
  BY <1>2, <1>3 DEF Held, Awaited
<1>7. LostInv'
  <2>1. CASE Held
    BY <1>6, <2>1 DEF TryInv, LostInv
  <2>2. CASE ~Held
    BY <1>6, <2>2 DEF TryInv, LostInv
  <2> QED BY <2>1, <2>2
<1> QED BY <1>4, <1>5, <1>7 DEF TryInv

LEMMA ReturnKeeps ==
  ASSUME TryInv, NEW r \in inside, Return(r), UNCHANGED crashed, faults' \in {faults, faults + 1}
  PROVE  TryInv'
<1>1. /\ demo \in [job : Job, tries : 0..DemoTries, awaits : BOOLEAN, over : {"no", "failed", "completed"}]
      /\ inside \in SUBSET Tries /\ crashed \in BOOLEAN /\ faults \in Nat
      /\ faults' \in Nat /\ faults <= faults' /\ DemoSteps \in Nat /\ DemoTries \in Nat
  BY DemoAssumption DEF TryInv, DemoTyping
<1>2. inside' = inside \ {r}
  BY DEF Return
<1>3. \A q \in inside : q.job \in Nat /\ q.job <= demo.job /\ demo.job \in Nat
  BY <1>1 DEF TryInv, TriesInv, Tries, Job
<1>4. CASE ~Awaited(r)
  <2>1. demo' = demo
    BY <1>4 DEF Return
  <2>2. Held' <=> Held
    BY <1>2, <1>4, <2>1 DEF Held, Awaited
  <2>3. DemoTyping' /\ TriesInv'
    BY <1>1, <1>2, <2>1 DEF TryInv, DemoTyping, TriesInv
  <2>4. LostInv'
    <3>1. CASE Held
      BY <1>1, <2>1, <2>2, <3>1 DEF TryInv, LostInv
    <3>2. CASE ~Held
      BY <1>1, <2>1, <2>2, <3>2 DEF TryInv, LostInv
    <3> QED BY <3>1, <3>2
  <2> QED BY <2>3, <2>4 DEF TryInv
<1>5. CASE Awaited(r) /\ r.job = DemoSteps + 1
  <2>1. demo' = [demo EXCEPT !.awaits = FALSE, !.over = "completed"]
    BY <1>5 DEF Return
  <2>2. /\ demo' \in [job : Job, tries : 0..DemoTries, awaits : BOOLEAN, over : {"no", "failed", "completed"}]
        /\ demo'.job = demo.job /\ demo'.tries = demo.tries /\ demo'.over = "completed"
    BY <1>1, <2>1
  <2>3. DemoTyping' /\ TriesInv'
    BY <1>1, <1>2, <2>2 DEF TryInv, DemoTyping, TriesInv
  <2> QED BY <2>2, <2>3 DEF TryInv, LostInv
<1>6. CASE Awaited(r) /\ r.job # DemoSteps + 1
  <2>1. PICK n \in Nat : n = demo.job + 1
    BY <1>1 DEF Job
  <2>2. r.job = demo.job /\ n \in Job
    BY <1>1, <1>6, <2>1 DEF Awaited, Tries, Job
  <2>3. demo' = [demo EXCEPT !.job = n, !.tries = 0, !.awaits = FALSE]
    BY <1>6, <2>1 DEF Return
  <2>4. /\ demo' \in [job : Job, tries : 0..DemoTries, awaits : BOOLEAN, over : {"no", "failed", "completed"}]
        /\ demo'.job = n /\ demo'.tries = 0
    <3>1. demo' = [job |-> n, tries |-> 0, awaits |-> FALSE, over |-> demo.over]
      BY <1>1, <2>3
    <3>2. 0 \in 0..DemoTries /\ demo.over \in {"no", "failed", "completed"}
      BY <1>1
    <3> QED BY <2>2, <3>1, <3>2
  <2>5. DemoTyping'
    BY <1>1, <1>2, <2>4 DEF DemoTyping
  <2>6. TriesInv'
    BY <1>2, <1>3, <2>1, <2>4 DEF TryInv, TriesInv
  <2>7. LostInv'
    <3>1. PICK c \in Nat : c = IF crashed' THEN 1 ELSE 0
      OBVIOUS
    <3>2. PICK h \in Nat : h = IF Held' THEN 1 ELSE 0
      OBVIOUS
    <3>3. PICK f \in Nat : f = faults'
      BY <1>1
    <3>4. 0 <= f + c /\ f + c \in Nat
      OBVIOUS
    <3>5. 0 <= f + c + h
      BY <3>4
    <3> QED BY <2>4, <3>1, <3>2, <3>3, <3>5 DEF LostInv
  <2> QED BY <2>5, <2>6, <2>7 DEF TryInv
<1> QED BY <1>4, <1>5, <1>6

\* A try that ends without an answer costs a fault, or is the one that is crashed.
LEMMA TriesAreLost ==
  ASSUME TryInv, inside' \in SUBSET inside, crashed' \in BOOLEAN, crashed => crashed',
         NEW more \in Nat, faults' = faults + more,
         demo' \in {demo, [demo EXCEPT !.awaits = FALSE]},
         \/ Held' <=> Held
         \/ more = 1
         \/ crashed' /\ ~crashed
  PROVE  TryInv'
<1>1. /\ demo \in [job : Job, tries : 0..DemoTries, awaits : BOOLEAN, over : {"no", "failed", "completed"}]
      /\ inside \in SUBSET Tries /\ crashed \in BOOLEAN /\ faults \in Nat
  BY DEF TryInv, DemoTyping
<1>2. /\ demo' \in [job : Job, tries : 0..DemoTries, awaits : BOOLEAN, over : {"no", "failed", "completed"}]
      /\ demo'.job = demo.job /\ demo'.tries = demo.tries /\ demo'.over = demo.over
  BY <1>1
<1>3. DemoTyping'
  BY <1>1, <1>2 DEF DemoTyping
<1>4. TriesInv'
  BY <1>2 DEF TryInv, TriesInv
<1>5. LostInv'
  <2> SUFFICES ASSUME demo.over # "completed"
               PROVE  demo.tries <= faults' + (IF crashed' THEN 1 ELSE 0) + (IF Held' THEN 1 ELSE 0)
    BY <1>2 DEF LostInv
  <2>1. PICK c \in Nat : c = (IF crashed THEN 1 ELSE 0) /\ c <= 1
    OBVIOUS
  <2>2. PICK h \in Nat : h = (IF Held THEN 1 ELSE 0) /\ h <= 1
    OBVIOUS
  <2>3. PICK d \in Nat : d = (IF crashed' THEN 1 ELSE 0) /\ c <= d
    BY <1>1, <2>1
  <2>4. PICK k \in Nat : k = (IF Held' THEN 1 ELSE 0)
    OBVIOUS
  <2>5. k = h \/ more = 1 \/ d = c + 1
    BY <2>1, <2>2, <2>3, <2>4
  <2>6. PICK t \in Nat, f \in Nat, g \in Nat :
           t = demo.tries /\ f = faults /\ g = faults' /\ g = f + more
    BY <1>1 DEF TryInv
  <2>7. t <= f + c + h
    BY <2>1, <2>2, <2>6 DEF TryInv, LostInv
  <2>8. t <= g + d + k
    BY <2>2, <2>3, <2>5, <2>6, <2>7
  <2> QED BY <2>3, <2>4, <2>6, <2>8
<1> QED BY <1>3, <1>4, <1>5 DEF TryInv

LEMMA ScheduleKeeps == TryInv /\ Schedule => TryInv'
<1> SUFFICES ASSUME TryInv, Schedule  PROVE TryInv'
  OBVIOUS
<1>1. /\ demo \in [job : Job, tries : 0..DemoTries, awaits : BOOLEAN, over : {"no", "failed", "completed"}]
      /\ inside \in SUBSET Tries /\ crashed \in BOOLEAN /\ faults \in Nat
      /\ ~demo.awaits /\ demo.tries < DemoTries /\ UNCHANGED <<crashed, faults>>
  BY DEF TryInv, DemoTyping, Schedule
<1>2. PICK t \in Nat, n \in 0..DemoTries : t = demo.tries /\ n = t + 1
  BY <1>1, DemoAssumption
<1> DEFINE r == [job |-> demo.job, try |-> n, pc |-> "begin"]
<1>3. demo' = [demo EXCEPT !.tries = n, !.awaits = TRUE] /\ inside' = inside \cup {r}
  BY <1>2 DEF Schedule
<1>4. demo' = [job |-> demo.job, tries |-> n, awaits |-> TRUE, over |-> demo.over]
  BY <1>1, <1>3
<1>5. r \in Tries
  BY <1>1, <1>2 DEF Tries
<1>6. DemoTyping'
  BY <1>1, <1>3, <1>4, <1>5 DEF DemoTyping
<1>7. TriesInv'
  <2>1. \A q \in inside : q.try \in Nat /\ q.job \in Nat /\ (q.job = demo.job => q.try <= t)
    BY <1>1, <1>2 DEF TryInv, TriesInv, Tries, Job
  <2>2. \A q \in inside : ~(q.job = demo.job /\ q.try = n)
    BY <1>2, <2>1
  <2>3. \A q \in inside : q.job <= demo.job /\ (q.job = demo.job => q.try <= n)
    BY <1>2, <2>1 DEF TryInv, TriesInv
  <2>4. r.job = demo.job /\ r.try = n /\ demo'.job = demo.job /\ demo'.tries = n
    BY <1>4
  <2>5. demo.job <= demo.job /\ n <= n
    BY <1>1, <1>2, DemoAssumption DEF Job
  <2> HIDE DEF r
  <2> QED BY <1>3, <2>2, <2>3, <2>4, <2>5 DEF TryInv, TriesInv
<1>8. LostInv'
  <2>2. Held' /\ ~Held
    <3>1. ~Held
      BY <1>1 DEF Held, Awaited
    <3>2. r \in inside' /\ r.job = demo.job /\ r.try = n
      BY <1>3
    <3> HIDE DEF r
    <3>3. demo'.awaits /\ demo'.job = demo.job /\ demo'.tries = n
      BY <1>4
    <3>4. Held'
      BY <3>2, <3>3 DEF Held, Awaited
    <3> QED BY <3>1, <3>4
  <2>3. PICK c \in Nat : c = (IF crashed THEN 1 ELSE 0)
    OBVIOUS
  <2>4. PICK f \in Nat : f = faults
    BY <1>1
  <2>5. demo.over # "completed" => t <= f + c + 0
    BY <1>2, <2>2, <2>3, <2>4 DEF TryInv, LostInv
  <2>6. demo.over # "completed" => n <= f + c + 1
    BY <1>2, <2>5
  <2> QED BY <1>1, <1>4, <2>2, <2>3, <2>4, <2>6 DEF LostInv
<1> QED BY <1>6, <1>7, <1>8 DEF TryInv

LEMMA ExhaustedKeeps == TryInv /\ Exhausted => TryInv'
<1> SUFFICES ASSUME TryInv, Exhausted  PROVE TryInv'
  OBVIOUS
<1>1. /\ demo \in [job : Job, tries : 0..DemoTries, awaits : BOOLEAN, over : {"no", "failed", "completed"}]
      /\ demo' = [demo EXCEPT !.over = "failed"]
      /\ UNCHANGED <<inside, crashed, faults>> /\ demo.over = "no"
  BY DEF TryInv, DemoTyping, Exhausted
<1>2. /\ demo' \in [job : Job, tries : 0..DemoTries, awaits : BOOLEAN, over : {"no", "failed", "completed"}]
      /\ demo'.job = demo.job /\ demo'.tries = demo.tries /\ demo'.awaits = demo.awaits
  BY <1>1
<1>3. Held' <=> Held
  BY <1>1, <1>2 DEF Held, Awaited
<1>4. DemoTyping' /\ TriesInv'
  BY <1>1, <1>2 DEF TryInv, DemoTyping, TriesInv
<1>5. LostInv'
  <2>1. CASE Held
    BY <1>1, <1>2, <1>3, <2>1 DEF TryInv, LostInv
  <2>2. CASE ~Held
    BY <1>1, <1>2, <1>3, <2>2 DEF TryInv, LostInv
  <2> QED BY <2>1, <2>2
<1> QED BY <1>4, <1>5 DEF TryInv

LEMMA LossesKeep ==
  ASSUME TryInv, NEW r \in inside, TimesOut \/ WorkerDies \/ Raises(r) \/ CrashOrNot(r)
  PROVE  TryInv'
<1>1. /\ demo \in [job : Job, tries : 0..DemoTries, awaits : BOOLEAN, over : {"no", "failed", "completed"}]
      /\ crashed \in BOOLEAN /\ faults \in Nat
  BY DEF TryInv, DemoTyping
<1>2. CASE TimesOut
  <2>1. PICK more \in Nat : faults' = faults + more /\ (Held => more = 1)
    <3>1. CASE Held
      BY <1>2, <3>1 DEF TimesOut, Held
    <3>2. CASE ~Held
      <4>1. faults' = faults + 0
        BY <1>1, <1>2, <3>2 DEF TimesOut, Held
      <4> QED BY <3>2, <4>1
    <3> QED BY <3>1, <3>2
  <2>2. UNCHANGED <<inside, crashed>> /\ demo' = [demo EXCEPT !.awaits = FALSE]
    BY <1>2 DEF TimesOut
  <2>3. ~Held'
    BY <1>1, <2>2 DEF Held, Awaited
  <2> QED BY <1>1, <2>1, <2>2, <2>3, TriesAreLost
<1>3. CASE WorkerDies
  <2>1. faults' = faults + 1 /\ inside' \in SUBSET inside /\ UNCHANGED <<demo, crashed>>
    BY <1>3 DEF WorkerDies
  <2> QED BY <1>1, <2>1, TriesAreLost
<1>4. CASE Raises(r)
  <2>1. /\ faults' = faults + 1 /\ inside' \in SUBSET inside /\ UNCHANGED crashed
        /\ demo' \in {demo, [demo EXCEPT !.awaits = FALSE]}
    BY <1>4 DEF Raises
  <2> QED BY <1>1, <2>1, TriesAreLost
<1>5. CASE CrashOrNot(r)
  <2>1. CASE Injects(r)
    <3>1. /\ inside' \in SUBSET inside /\ UNCHANGED <<demo, faults>>
          /\ crashed' /\ ~crashed /\ crashed' \in BOOLEAN
      BY <1>5, <2>1 DEF CrashOrNot, Injects
    <3>2. faults' = faults + 0 /\ demo' = demo
      BY <1>1, <3>1
    <3> QED BY <3>1, <3>2, TriesAreLost
  <2>2. CASE ~Injects(r)
    BY <1>5, <2>2, MovesOnKeeps DEF CrashOrNot, Underway
  <2> QED BY <2>1, <2>2
<1> QED BY <1>2, <1>3, <1>4, <1>5

LEMMA RunsKeep ==
  ASSUME TryInv, NEW r \in inside, RunsOn(r)
  PROVE  TryInv'
<1>1. CASE RecordStart(r) \/ RecordStep(r)
  BY <1>1, ReturnKeeps DEF RecordStart, RecordStep
<1>2. CASE RecordRow(r)
  BY <1>2, ReturnKeeps DEF RecordRow
<1>3. CASE RecordEnd(r)
  BY <1>3, MovesOnKeeps DEF RecordEnd
<1>4. CASE BeginStep(r)
  BY <1>4, MovesOnKeeps DEF BeginStep, Underway
<1>5. CASE LookForMarker(r)
  BY <1>5, MovesOnKeeps DEF LookForMarker, Underway
<1>6. CASE WriteMarker(r)
  BY <1>6, MovesOnKeeps DEF WriteMarker, Underway
<1>7. CASE CrashOrNot(r)
  BY <1>7, LossesKeep
<1> QED BY <1>1, <1>2, <1>3, <1>4, <1>5, <1>6, <1>7 DEF RunsOn

LEMMA TriesKeep == TryInv /\ [DemoNext]_demoVars => TryInv'
<1> SUFFICES ASSUME TryInv, [DemoNext]_demoVars  PROVE TryInv'
  OBVIOUS
<1>1. CASE UNCHANGED demoVars
  BY <1>1 DEF TryInv, DemoTyping, TriesInv, LostInv, Held, Awaited, demoVars
<1>2. CASE Schedule \/ Exhausted
  BY <1>2, ScheduleKeeps, ExhaustedKeeps
<1>3. CASE TimesOut \/ WorkerDies
  <2>1. CASE inside # {}
    BY <1>3, <2>1, LossesKeep
  <2>2. CASE inside = {}
    <3>1. /\ demo \in [job : Job, tries : 0..DemoTries, awaits : BOOLEAN, over : {"no", "failed", "completed"}]
          /\ crashed \in BOOLEAN /\ faults \in Nat
      BY DEF TryInv, DemoTyping
    <3>2. TimesOut /\ ~Held /\ ~Held'
      BY <1>3, <2>2 DEF TimesOut, WorkerDies, Held
    <3>3. inside' = inside /\ crashed' = crashed /\ faults' = faults + 0
          /\ demo' = [demo EXCEPT !.awaits = FALSE]
      BY <3>1, <3>2 DEF TimesOut, Held
    <3> QED BY <3>1, <3>2, <3>3, TriesAreLost
  <2> QED BY <2>1, <2>2
<1>4. CASE \E r \in inside : RunsOn(r) \/ Raises(r)
  BY <1>4, RunsKeep, LossesKeep
<1> QED BY <1>1, <1>2, <1>3, <1>4 DEF DemoNext

LEMMA TriesBegin == DemoInit => TryInv
<1> SUFFICES ASSUME DemoInit  PROVE TryInv
  OBVIOUS
<1>1. demo = [job |-> 0, tries |-> 0, awaits |-> FALSE, over |-> "no"] /\ inside = {} /\ crashed = FALSE /\ faults = 0
  BY DEF DemoInit
<1>2. 0 \in Job /\ 0 \in 0..DemoTries
  BY DemoAssumption DEF Job
<1>3. DemoTyping /\ TriesInv
  BY <1>1, <1>2 DEF DemoTyping, TriesInv
<1>4. ~Held
  BY <1>1 DEF Held
<1>5. LostInv
  BY <1>1, <1>4 DEF LostInv
<1> QED BY <1>3, <1>5 DEF TryInv

\* A workflow that failed has used its tries up and waits for none.
FailedInv == demo.over = "failed" => ~demo.awaits /\ demo.tries = DemoTries

LEMMA FailureStands == TryInv /\ FailedInv /\ [DemoNext]_demoVars => FailedInv'
<1> SUFFICES ASSUME TryInv, FailedInv, [DemoNext]_demoVars  PROVE FailedInv'
  OBVIOUS
<1>1. demo \in [job : Job, tries : 0..DemoTries, awaits : BOOLEAN, over : {"no", "failed", "completed"}]
  BY DEF TryInv, DemoTyping
<1>2. CASE Exhausted
  BY <1>1, <1>2 DEF Exhausted, FailedInv
<1>3. CASE Schedule \/ TimesOut
  BY <1>1, <1>3 DEF Schedule, TimesOut, FailedInv
<1>4. CASE demo' = demo
  BY <1>4 DEF FailedInv
<1>5. ASSUME NEW r \in inside, Return(r)
      PROVE  FailedInv'
  BY <1>1, <1>5 DEF Return, Awaited, FailedInv
<1>6. ASSUME NEW r \in inside, Raises(r)
      PROVE  FailedInv'
  BY <1>1, <1>6 DEF Raises, Awaited, FailedInv
<1>7. ASSUME NEW r \in inside, RunsOn(r)
      PROVE  demo' = demo \/ Return(r)
  BY <1>7 DEF RunsOn, RecordStart, RecordEnd, RecordRow, BeginStep, LookForMarker, WriteMarker, CrashOrNot,
              RecordStep
<1> QED BY <1>2, <1>3, <1>4, <1>5, <1>6, <1>7 DEF DemoNext, WorkerDies, demoVars

-----------------------------------------------------------------------------
(* Demo: the stream *)

DemoEvents == [type : {"TaskStarted", "StepStarted", "StepCompleted", "TaskCompleted"}, job : Job]
Said(e) == \E i \in DOMAIN events : events[i] = e
Before(a, b) == \A i \in DOMAIN events : events[i] = b => \E j \in 1..(i - 1) : events[j] = a

StepBegins(s) == DemoEvent("StepStarted", s)
StepEnds(s) == DemoEvent("StepCompleted", s)
TaskEnds == DemoEvent("TaskCompleted", DemoSteps + 1)
\* What is said when a job other than the last is done.
Finished(j) == IF j = 0 THEN DemoEvent("TaskStarted", 0) ELSE StepEnds(j)

OnceEach == \A i, j \in DOMAIN events : events[i] = events[j] => i = j
OrderInv ==
  /\ events \in Seq(DemoEvents) /\ OnceEach
  /\ events # <<>> => events[1] = Finished(0)
  /\ \A s \in 1..DemoSteps :
       /\ Before(Finished(s - 1), StepBegins(s)) /\ Before(StepBegins(s), StepEnds(s))
       /\ Said(TaskEnds) => Said(StepEnds(s))

\* What is said of a job, and of what a try has done.
WorkInv ==
  /\ \A s \in 1..DemoSteps : Said(StepEnds(s)) => s \in marked
  /\ \A j \in 0..DemoSteps : j < demo.job => Said(Finished(j))
  /\ \A r \in inside :
       /\ r.pc \in Underway => r.job \in 1..DemoSteps /\ Said(StepBegins(r.job))
       /\ r.pc \in {"crash?", "record"} => r.job \in marked
       /\ r.pc = "row" => r.job = DemoSteps + 1 /\ Said(TaskEnds)

DemoRowInv ==
  /\ demoRow = "completed" => Said(TaskEnds)
  /\ demo.over = "completed" /\ faults = 0 => demoRow = "completed"

StreamInv == OrderInv /\ WorkInv /\ DemoRowInv

LEMMA SaysAdds ==
  ASSUME events \in Seq(DemoEvents), OnceEach, NEW e \in DemoEvents, Says(e)
  PROVE  /\ events' \in Seq(DemoEvents) /\ OnceEach'
         /\ \A x : Said(x)' <=> Said(x) \/ x = e
         /\ events' # <<>> => events'[1] = IF events = <<>> THEN e ELSE events[1]
         /\ \A a, b : Before(a, b) /\ (b = e => Said(a)) => Before(a, b)'
<1>1. CASE Said(e)
  <2>1. events' = events
    BY <1>1 DEF Says, Said
  <2> QED BY <1>1, <2>1 DEF OnceEach, Said, Before
<1>2. CASE ~Said(e)
  <2>1. events' = Append(events, e)
    BY <1>2 DEF Says, Said
  <2>2. PICK n \in Nat : n = Len(events)
    OBVIOUS
  <2>3. /\ events' \in Seq(DemoEvents) /\ DOMAIN events = 1..n /\ DOMAIN events' = 1..(n + 1)
        /\ events'[n + 1] = e /\ \A i \in 1..n : events'[i] = events[i]
    BY <2>1, <2>2
  <2>4. OnceEach'
    BY <1>2, <2>3 DEF OnceEach, Said
  <2>5. \A x : Said(x)' <=> Said(x) \/ x = e
    BY <2>2, <2>3 DEF Said
  <2>6. events' # <<>> => events'[1] = IF events = <<>> THEN e ELSE events[1]
    <3>1. CASE events = <<>>
      BY <2>2, <2>3, <3>1
    <3>2. CASE events # <<>>
      <4>1. 1 \in 1..n
        BY <2>2, <3>2
      <4> QED BY <2>3, <3>2, <4>1
    <3> QED BY <3>1, <3>2
  <2>7. ASSUME NEW a, NEW b, Before(a, b), b = e => Said(a)
        PROVE  Before(a, b)'
    <3> SUFFICES ASSUME NEW i \in 1..(n + 1), events'[i] = b
                 PROVE  \E j \in 1..(i - 1) : events'[j] = a
      BY <2>3 DEF Before
    <3>1. CASE i = n + 1
      <4>1. Said(a)
        BY <2>3, <2>7, <3>1
      <4>2. PICK j \in 1..n : events[j] = a
        BY <2>3, <4>1 DEF Said
      <4> QED BY <2>3, <3>1, <4>2
    <3>2. CASE i # n + 1
      <4>1. i \in 1..n /\ events[i] = b
        BY <2>3, <3>2
      <4>2. PICK j \in 1..(i - 1) : events[j] = a
        BY <2>3, <2>7, <4>1 DEF Before
      <4>3. j \in 1..n
        BY <4>1
      <4> QED BY <2>3, <4>2, <4>3
    <3> QED BY <3>1, <3>2
  <2> QED BY <2>3, <2>4, <2>5, <2>6, <2>7
<1> QED BY <1>1, <1>2

LEMMA OrderKeeps ==
  ASSUME OrderInv, NEW e \in DemoEvents, Says(e),
         e = Finished(0) \/ events # <<>>,
         \A s \in 1..DemoSteps : /\ e = StepBegins(s) => Said(Finished(s - 1))
                                 /\ e = StepEnds(s) => Said(StepBegins(s))
                                 /\ e = TaskEnds => Said(StepEnds(s))
  PROVE  OrderInv' /\ \A x : Said(x)' <=> Said(x) \/ x = e
<1>1. events \in Seq(DemoEvents) /\ OnceEach
  BY DEF OrderInv
<1>2. /\ events' \in Seq(DemoEvents) /\ OnceEach'
      /\ \A x : Said(x)' <=> Said(x) \/ x = e
      /\ events' # <<>> => events'[1] = IF events = <<>> THEN e ELSE events[1]
  BY <1>1, SaysAdds
<1>3. \A a, b : Before(a, b) /\ (b = e => Said(a)) => Before(a, b)'
  BY <1>1, SaysAdds
<1>4. events' # <<>> => events'[1] = Finished(0)
  BY <1>2 DEF OrderInv
<1>5. ASSUME NEW s \in 1..DemoSteps
      PROVE  /\ Before(Finished(s - 1), StepBegins(s))' /\ Before(StepBegins(s), StepEnds(s))'
             /\ Said(TaskEnds)' => Said(StepEnds(s))'
  <2>1. Before(Finished(s - 1), StepBegins(s))'
    BY <1>3 DEF OrderInv
  <2>2. Before(StepBegins(s), StepEnds(s))'
    BY <1>3 DEF OrderInv
  <2>3. Said(TaskEnds)' => Said(StepEnds(s))'
    BY <1>2 DEF OrderInv
  <2> QED BY <2>1, <2>2, <2>3
<1> QED BY <1>2, <1>4, <1>5 DEF OrderInv

LEMMA DemoEventsDiffer ==
  /\ Finished(0) \in DemoEvents /\ TaskEnds \in DemoEvents /\ TaskEnds # Finished(0)
  /\ \A s \in 1..DemoSteps :
       /\ StepBegins(s) \in DemoEvents /\ StepEnds(s) \in DemoEvents /\ Finished(s) = StepEnds(s)
       /\ StepBegins(s) # Finished(0) /\ StepEnds(s) # Finished(0)
       /\ StepBegins(s) # TaskEnds /\ StepEnds(s) # TaskEnds
       /\ \A t \in 1..DemoSteps : /\ StepBegins(s) # StepEnds(t)
                                  /\ StepBegins(s) = StepBegins(t) => s = t
                                  /\ StepEnds(s) = StepEnds(t) => s = t
<1>1. DemoSteps \in Nat \ {0} /\ 0 \in Job /\ DemoSteps + 1 \in Job
  BY DemoAssumption DEF Job
<1>2. Finished(0) \in DemoEvents /\ TaskEnds \in DemoEvents /\ TaskEnds # Finished(0)
  BY <1>1 DEF Finished, TaskEnds, DemoEvent, DemoEvents
<1>3. ASSUME NEW s \in 1..DemoSteps
      PROVE  /\ StepBegins(s) \in DemoEvents /\ StepEnds(s) \in DemoEvents /\ Finished(s) = StepEnds(s)
             /\ StepBegins(s) # Finished(0) /\ StepEnds(s) # Finished(0)
             /\ StepBegins(s) # TaskEnds /\ StepEnds(s) # TaskEnds
  <2>1. s \in Job /\ s # 0
    BY <1>1 DEF Job
  <2>2. StepBegins(s) \in DemoEvents /\ StepEnds(s) \in DemoEvents
    BY <2>1 DEF StepBegins, StepEnds, DemoEvent, DemoEvents
  <2>3. StepBegins(s).type = "StepStarted" /\ StepEnds(s).type = "StepCompleted"
        /\ TaskEnds.type = "TaskCompleted" /\ Finished(0).type = "TaskStarted"
    BY DEF StepBegins, StepEnds, TaskEnds, Finished, DemoEvent
  <2> QED BY <2>1, <2>2, <2>3 DEF Finished
<1>4. \A s, t : /\ StepBegins(s) # StepEnds(t)
                /\ StepBegins(s) = StepBegins(t) => s = t
                /\ StepEnds(s) = StepEnds(t) => s = t
  <2> TAKE s, t
  <2>1. /\ StepBegins(s).type = "StepStarted" /\ StepEnds(t).type = "StepCompleted"
        /\ StepBegins(s).job = s /\ StepBegins(t).job = t
        /\ StepEnds(s).job = s /\ StepEnds(t).job = t
    BY DEF StepBegins, StepEnds, DemoEvent
  <2> QED BY <2>1
<1> QED BY <1>2, <1>3, <1>4

LEMMA TryMoves ==
  ASSUME TryInv, WorkInv, NEW r \in inside, NEW pc, MovesOn(r, pc), UNCHANGED demo, marked \subseteq marked',
         \A x : Said(x) => Said(x)',
         \A s \in 1..DemoSteps : Said(StepEnds(s))' => s \in marked',
         pc \in Underway => r.job \in 1..DemoSteps /\ Said(StepBegins(r.job))',
         pc \in {"crash?", "record"} => r.job \in marked',
         pc = "row" => r.job = DemoSteps + 1 /\ Said(TaskEnds)'
  PROVE  WorkInv'
<1> DEFINE m == [r EXCEPT !.pc = pc]
<1>1. inside' = (inside \ {r}) \cup {m} /\ m.job = r.job /\ m.pc = pc
  BY DEF MovesOn, TryInv, DemoTyping, Tries
<1> HIDE DEF m
<1>2. \A q \in inside' :
        /\ q.pc \in Underway => q.job \in 1..DemoSteps /\ Said(StepBegins(q.job))'
        /\ q.pc \in {"crash?", "record"} => q.job \in marked'
        /\ q.pc = "row" => q.job = DemoSteps + 1 /\ Said(TaskEnds)'
  <2> TAKE q \in inside'
  <2>1. CASE q = m
    BY <1>1, <2>1
  <2>2. CASE q \in inside
    BY <2>2 DEF WorkInv
  <2> QED BY <1>1, <2>1, <2>2
<1>3. \A j \in 0..DemoSteps : j < demo'.job => Said(Finished(j))'
  BY DEF WorkInv
<1> QED BY <1>2, <1>3 DEF WorkInv

LEMMA TryReturns ==
  ASSUME TryInv, WorkInv, NEW r \in inside, Return(r), UNCHANGED marked,
         \A x : Said(x) => Said(x)',
         \A s \in 1..DemoSteps : Said(StepEnds(s))' => s \in marked',
         r.job \in 0..DemoSteps => Said(Finished(r.job))'
  PROVE  WorkInv'
<1>1. demo \in [job : Job, tries : 0..DemoTries, awaits : BOOLEAN, over : {"no", "failed", "completed"}]
  BY DEF TryInv, DemoTyping
<1>2. \A q \in inside' :
        /\ q.pc \in Underway => q.job \in 1..DemoSteps /\ Said(StepBegins(q.job))'
        /\ q.pc \in {"crash?", "record"} => q.job \in marked'
        /\ q.pc = "row" => q.job = DemoSteps + 1 /\ Said(TaskEnds)'
  BY DEF WorkInv, Return
<1>3. ASSUME NEW j \in 0..DemoSteps, j < demo'.job
      PROVE  Said(Finished(j))'
  <2>1. CASE j < demo.job
    BY <2>1 DEF WorkInv
  <2>2. CASE ~(j < demo.job)
    <3>1. Awaited(r) /\ r.job # DemoSteps + 1
      BY <1>1, <1>3, <2>2 DEF Return
    <3>2. r.job = demo.job /\ demo.job \in Job /\ DemoSteps \in Nat
      BY <1>1, <3>1, DemoAssumption DEF Awaited
    <3>3. demo'.job = demo.job + 1
      BY <1>1, <3>1 DEF Return
    <3>4. j = r.job
      BY <1>3, <2>2, <3>2, <3>3 DEF Job
    <3> QED BY <3>4
  <2> QED BY <2>1, <2>2
<1> QED BY <1>2, <1>3 DEF WorkInv

LEMMA WorkStands ==
  ASSUME WorkInv, inside' \subseteq inside, UNCHANGED <<events, marked>>, demo'.job = demo.job
  PROVE  WorkInv'
BY DEF WorkInv, Said

LEMMA StreamWaits ==
  ASSUME StreamInv, UNCHANGED events
  PROVE  OrderInv' /\ \A x : Said(x)' <=> Said(x)
BY DEF StreamInv, OrderInv, OnceEach, Before, Said

\* The steps of a try, each of which says something, writes something, or only looks.
LEMMA SayersKeep ==
  ASSUME TryInv, StreamInv, NEW r \in inside,
         RecordStart(r) \/ RecordEnd(r) \/ BeginStep(r) \/ RecordStep(r)
  PROVE  OrderInv' /\ WorkInv' /\ \A x : Said(x) => Said(x)'
<1>1. /\ OrderInv /\ WorkInv /\ DemoSteps \in Nat \ {0} /\ r \in Tries
      /\ demo \in [job : Job, tries : 0..DemoTries, awaits : BOOLEAN, over : {"no", "failed", "completed"}]
      /\ r.job \in Nat /\ r.job <= demo.job /\ demo.job \in Nat
  BY DemoAssumption DEF StreamInv, TryInv, DemoTyping, TriesInv, Tries, Job
<1>2. \A x : Said(x) => events # <<>>
  BY DEF Said
<1>3. CASE RecordStart(r)
  <2>1. Says(Finished(0)) /\ r.job = 0 /\ Return(r) /\ UNCHANGED marked
    BY <1>3 DEF RecordStart, Finished
  <2>2. OrderInv' /\ \A x : Said(x)' <=> Said(x) \/ x = Finished(0)
    BY <1>1, <2>1, DemoEventsDiffer, OrderKeeps
  <2>3. \A s \in 1..DemoSteps : Said(StepEnds(s))' => s \in marked'
    BY <1>1, <2>1, <2>2, DemoEventsDiffer DEF WorkInv
  <2>4. WorkInv'
    BY <1>1, <2>1, <2>2, <2>3, TryReturns
  <2> QED BY <2>2, <2>4
<1>4. CASE RecordEnd(r)
  <2>1. Says(TaskEnds) /\ r.job = DemoSteps + 1 /\ MovesOn(r, "row") /\ UNCHANGED <<demo, marked>>
    BY <1>4 DEF RecordEnd, TaskEnds
  <2>2. \A s \in 1..DemoSteps : Said(StepEnds(s))
    <3> TAKE s \in 1..DemoSteps
    <3>1. s \in 0..DemoSteps /\ s < demo.job
      BY <1>1, <2>1
    <3> QED BY <1>1, <3>1, DemoEventsDiffer DEF WorkInv
  <2>3. events # <<>>
    BY <1>1, <1>2, <2>2
  <2>4. OrderInv' /\ \A x : Said(x)' <=> Said(x) \/ x = TaskEnds
    BY <1>1, <2>1, <2>2, <2>3, DemoEventsDiffer, OrderKeeps
  <2>5. \A s \in 1..DemoSteps : Said(StepEnds(s))' => s \in marked'
    BY <1>1, <2>1, <2>4, DemoEventsDiffer DEF WorkInv
  <2>6. WorkInv'
    BY <1>1, <2>1, <2>4, <2>5, TryMoves DEF Underway
  <2> QED BY <2>4, <2>6
<1>5. CASE BeginStep(r)
  <2>1. PICK s \in 1..DemoSteps : s = r.job
    BY <1>5 DEF BeginStep
  <2>2. Says(StepBegins(s)) /\ MovesOn(r, "look") /\ UNCHANGED <<demo, marked>>
    BY <1>5, <2>1 DEF BeginStep, StepBegins
  <2>3. Said(Finished(s - 1))
    <3>1. s - 1 \in 0..DemoSteps /\ s - 1 < demo.job
      BY <1>1, <2>1
    <3> QED BY <1>1, <3>1 DEF WorkInv
  <2>4. OrderInv' /\ \A x : Said(x)' <=> Said(x) \/ x = StepBegins(s)
    BY <1>1, <1>2, <2>2, <2>3, DemoEventsDiffer, OrderKeeps
  <2>5. \A t \in 1..DemoSteps : Said(StepEnds(t))' => t \in marked'
    BY <1>1, <2>2, <2>4, DemoEventsDiffer DEF WorkInv
  <2>6. WorkInv'
    BY <1>1, <2>1, <2>2, <2>4, <2>5, TryMoves DEF Underway
  <2> QED BY <2>4, <2>6
<1>6. CASE RecordStep(r)
  <2>1. r.pc = "record" /\ r.job \in 1..DemoSteps /\ Said(StepBegins(r.job)) /\ r.job \in marked
    BY <1>1, <1>6 DEF RecordStep, WorkInv, Underway
  <2>2. PICK s \in 1..DemoSteps : s = r.job
    BY <2>1
  <2>3. Says(StepEnds(s)) /\ Return(r) /\ UNCHANGED marked
    BY <1>6, <2>2 DEF RecordStep, StepEnds
  <2>4. OrderInv' /\ \A x : Said(x)' <=> Said(x) \/ x = StepEnds(s)
    BY <1>1, <1>2, <2>1, <2>2, <2>3, DemoEventsDiffer, OrderKeeps
  <2>5. \A t \in 1..DemoSteps : Said(StepEnds(t))' => t \in marked'
    BY <1>1, <2>1, <2>2, <2>3, <2>4, DemoEventsDiffer DEF WorkInv
  <2>6. WorkInv'
    BY <1>1, <2>2, <2>3, <2>4, <2>5, DemoEventsDiffer, TryReturns
  <2> QED BY <2>4, <2>6
<1> QED BY <1>3, <1>4, <1>5, <1>6

LEMMA OtherTriesKeep ==
  ASSUME TryInv, StreamInv, NEW r \in inside,
         RecordRow(r) \/ LookForMarker(r) \/ WriteMarker(r) \/ CrashOrNot(r) \/ Raises(r)
  PROVE  OrderInv' /\ WorkInv' /\ \A x : Said(x) => Said(x)'
<1>1. WorkInv /\ UNCHANGED events
      /\ demo \in [job : Job, tries : 0..DemoTries, awaits : BOOLEAN, over : {"no", "failed", "completed"}]
  BY DEF StreamInv, TryInv, DemoTyping, RecordRow, LookForMarker, WriteMarker, CrashOrNot, Raises
<1>2. OrderInv' /\ \A x : Said(x)' <=> Said(x)
  BY <1>1, StreamWaits
<1>3. \A s \in 1..DemoSteps : Said(StepEnds(s))' => s \in marked
  BY <1>1, <1>2 DEF WorkInv
<1>4. CASE RecordRow(r)
  <2>1. r.job = DemoSteps + 1 /\ DemoSteps \in Nat
    BY <1>1, <1>4, DemoAssumption DEF RecordRow, WorkInv
  <2> QED BY <1>1, <1>2, <1>3, <1>4, <2>1, TryReturns DEF RecordRow
<1>5. CASE LookForMarker(r)
  <2>1. r.job \in 1..DemoSteps /\ Said(StepBegins(r.job))
    BY <1>1, <1>5 DEF LookForMarker, WorkInv, Underway
  <2>2. PICK pc \in {"crash?", "work"} : pc = IF r.job \in marked THEN "crash?" ELSE "work"
    OBVIOUS
  <2> QED BY <1>1, <1>2, <1>3, <1>5, <2>1, <2>2, TryMoves DEF LookForMarker
<1>6. CASE WriteMarker(r)
  <2>1. r.job \in 1..DemoSteps /\ Said(StepBegins(r.job)) /\ marked' = marked \cup {r.job}
    BY <1>1, <1>6 DEF WriteMarker, WorkInv, Underway
  <2> QED BY <1>1, <1>2, <1>3, <1>6, <2>1, TryMoves DEF WriteMarker
<1>7. CASE CrashOrNot(r)
  <2>1. CASE Injects(r)
    BY <1>1, <1>2, <1>7, <2>1, WorkStands DEF CrashOrNot
  <2>2. CASE ~Injects(r)
    <3>1. r.job \in 1..DemoSteps /\ Said(StepBegins(r.job)) /\ r.job \in marked
      BY <1>1, <1>7 DEF CrashOrNot, WorkInv, Underway
    <3> QED BY <1>1, <1>2, <1>3, <1>7, <2>2, <3>1, TryMoves DEF CrashOrNot
  <2> QED BY <2>1, <2>2
<1>8. CASE Raises(r)
  <2>1. inside' \subseteq inside /\ demo'.job = demo.job /\ UNCHANGED marked
    BY <1>1, <1>8 DEF Raises
  <2> QED BY <1>1, <1>2, <2>1, WorkStands
<1> QED BY <1>4, <1>5, <1>6, <1>7, <1>8

LEMMA StreamKeeps == TryInv /\ StreamInv /\ [DemoNext]_demoVars => OrderInv' /\ WorkInv' /\ \A x : Said(x) => Said(x)'
<1> SUFFICES ASSUME TryInv, StreamInv, [DemoNext]_demoVars
             PROVE  OrderInv' /\ WorkInv' /\ \A x : Said(x) => Said(x)'
  OBVIOUS
<1>1. WorkInv /\ demo \in [job : Job, tries : 0..DemoTries, awaits : BOOLEAN, over : {"no", "failed", "completed"}]
  BY DEF StreamInv, TryInv, DemoTyping
<1>2. CASE Schedule
  <2>1. UNCHANGED <<events, marked>> /\ demo'.job = demo.job
        /\ inside' = inside \cup {[job |-> demo.job, try |-> demo.tries + 1, pc |-> "begin"]}
    BY <1>1, <1>2 DEF Schedule
  <2>2. OrderInv' /\ \A x : Said(x)' <=> Said(x)
    BY <2>1, StreamWaits
  <2>3. \A r \in inside' : r \in inside \/ r.pc = "begin"
    BY <2>1
  <2>4. WorkInv'
    BY <1>1, <2>1, <2>2, <2>3 DEF WorkInv, Underway
  <2> QED BY <2>2, <2>4
<1>3. CASE Exhausted \/ TimesOut \/ WorkerDies \/ UNCHANGED demoVars
  <2>1. inside' \subseteq inside /\ demo'.job = demo.job /\ UNCHANGED <<events, marked>>
    BY <1>1, <1>3 DEF Exhausted, TimesOut, WorkerDies, demoVars
  <2> QED BY <1>1, <2>1, StreamWaits, WorkStands
<1>4. CASE \E r \in inside : RunsOn(r) \/ Raises(r)
  BY <1>4, SayersKeep, OtherTriesKeep DEF RunsOn
<1> QED BY <1>2, <1>3, <1>4 DEF DemoNext

LEMMA RowKeeps ==
  ASSUME TryInv, StreamInv, [DemoNext]_demoVars, \A x : Said(x) => Said(x)'
  PROVE  DemoRowInv'
<1>1. /\ WorkInv /\ DemoRowInv /\ faults \in Nat /\ DemoSteps \in Nat
      /\ demo \in [job : Job, tries : 0..DemoTries, awaits : BOOLEAN, over : {"no", "failed", "completed"}]
  BY DemoAssumption DEF StreamInv, TryInv, DemoTyping
<1> DEFINE Slight == /\ demoRow' = demoRow
                    /\ (demo'.over = "completed" => demo.over = "completed")
                    /\ (faults' = faults \/ faults' = faults + 1)
<1>2. Slight => DemoRowInv'
  <2>1. Slight => (faults' = 0 => faults = 0)
    BY <1>1
  <2> QED BY <1>1, <2>1 DEF DemoRowInv
<1>3. CASE \E r \in inside : RecordRow(r)
  <2>1. PICK r \in inside : RecordRow(r)
    BY <1>3
  <2>2. r.job = DemoSteps + 1 /\ Said(TaskEnds)' /\ UNCHANGED events
    BY <1>1, <2>1 DEF RecordRow, WorkInv
  <2>3. CASE demoRow' = "completed"
    BY <2>2, <2>3 DEF DemoRowInv
  <2>4. CASE faults' = faults + 1 /\ demoRow' = demoRow
    BY <1>1, <2>2, <2>4 DEF DemoRowInv
  <2> QED BY <2>1, <2>3, <2>4 DEF RecordRow
<1>4. CASE Schedule \/ Exhausted \/ TimesOut \/ WorkerDies \/ UNCHANGED demoVars
  <2>1. Slight
    BY <1>1, <1>4 DEF Schedule, Exhausted, TimesOut, WorkerDies, demoVars
  <2> QED BY <1>2, <2>1
<1>5. ASSUME NEW r \in inside, (RunsOn(r) /\ ~RecordRow(r)) \/ Raises(r)
      PROVE  DemoRowInv'
  <2>1. CASE RecordStart(r) \/ RecordStep(r)
    <3>1. r.job # DemoSteps + 1
      BY <1>1, <2>1 DEF RecordStart, RecordStep, WorkInv, Underway
    <3>2. Return(r) /\ UNCHANGED <<demoRow, faults>>
      BY <2>1 DEF RecordStart, RecordStep
    <3>3. Slight
      BY <1>1, <3>1, <3>2 DEF Return
    <3> QED BY <1>2, <3>3
  <2>2. CASE Raises(r)
    <3>1. Slight
      BY <1>1, <2>2 DEF Raises
    <3> QED BY <1>2, <3>1
  <2>3. CASE RecordEnd(r) \/ BeginStep(r) \/ LookForMarker(r) \/ WriteMarker(r) \/ CrashOrNot(r)
    <3>1. Slight
      BY <2>3 DEF RecordEnd, BeginStep, LookForMarker, WriteMarker, CrashOrNot
    <3> QED BY <1>2, <3>1
  <2> QED BY <1>5, <2>1, <2>2, <2>3 DEF RunsOn
<1> QED BY <1>3, <1>4, <1>5 DEF DemoNext

\* Place is where an event is said, and 0 where it is not.
LEMMA PlaceIsUnique ==
  ASSUME OrderInv, NEW type, NEW job
  PROVE  /\ Place(type, job) = 0 <=> ~Said(DemoEvent(type, job))
         /\ \A i \in DOMAIN events : events[i] = DemoEvent(type, job) => Place(type, job) = i
<1> DEFINE at == {i \in DOMAIN events : events[i] = DemoEvent(type, job)}
<1>1. at = {} => Place(type, job) = 0
  BY DEF Place
<1>2. ASSUME NEW i \in at
      PROVE  Place(type, job) = i /\ i \in Nat \ {0}
  <2>1. at = {i} /\ i \in Nat \ {0}
    BY <1>2 DEF OrderInv, OnceEach
  <2>2. Place(type, job) = CHOOSE k \in at : \A j \in at : k <= j
    BY <1>2 DEF Place
  <2>3. \A k : (k \in at /\ \A j \in at : k <= j) <=> k = i
    BY <2>1
  <2>4. \A k : k \in at /\ (\A j \in at : k <= j) => k = i
    BY <2>3
  <2>5. Place(type, job) = i
    BY <2>1, <2>2, <2>4
  <2> QED BY <2>1, <2>5
<1>3. Said(DemoEvent(type, job)) <=> at # {}
  BY DEF Said
<1> QED BY <1>1, <1>2, <1>3

LEMMA PlacesAreOrdered ==
  ASSUME OrderInv, NEW type, NEW job, NEW sort, NEW work, Before(DemoEvent(type, job), DemoEvent(sort, work)),
         Place(sort, work) # 0
  PROVE  Place(type, job) \in 1 .. Place(sort, work) - 1
<1>1. PICK i \in DOMAIN events : events[i] = DemoEvent(sort, work) /\ Place(sort, work) = i
  BY PlaceIsUnique DEF Said
<1>2. PICK j \in 1..(i - 1) : events[j] = DemoEvent(type, job)
  BY <1>1 DEF Before
<1>3. i \in 1..Len(events)
  BY <1>1 DEF OrderInv
<1>4. j \in DOMAIN events
  BY <1>2, <1>3 DEF OrderInv
<1>5. Place(type, job) = j
  BY <1>2, <1>4, PlaceIsUnique
<1> QED BY <1>1, <1>2, <1>5

LEMMA OrderIsExact == OrderInv /\ WorkInv => DemoIsExact
<1> SUFFICES ASSUME OrderInv, WorkInv  PROVE DemoIsExact
  OBVIOUS
<1>1. \A i, j \in DOMAIN events : events[i] = events[j] => i = j
  BY DEF OrderInv, OnceEach
<1>2. ASSUME NEW s \in 1..DemoSteps
      PROVE  /\ Place("StepCompleted", s) # 0 =>
                  s \in marked /\ Place("StepStarted", s) \in 1 .. Place("StepCompleted", s) - 1
             /\ Place("StepStarted", s) # 0 =>
                  /\ s > 1 => Place("StepCompleted", s - 1) \in 1 .. Place("StepStarted", s) - 1
                  /\ s = 1 => Place("TaskStarted", 0) = 1
             /\ Place("TaskCompleted", DemoSteps + 1) # 0 => Place("StepCompleted", s) # 0
  <2>1. ASSUME Place("StepCompleted", s) # 0
        PROVE  s \in marked /\ Place("StepStarted", s) \in 1 .. Place("StepCompleted", s) - 1
    <3>1. Said(DemoEvent("StepCompleted", s)) /\ Before(DemoEvent("StepStarted", s), DemoEvent("StepCompleted", s))
      BY <2>1, PlaceIsUnique DEF OrderInv, StepBegins, StepEnds
    <3>2. s \in marked
      BY <3>1 DEF WorkInv, StepEnds
    <3> QED BY <2>1, <3>1, <3>2, PlacesAreOrdered
  <2>2. ASSUME Place("StepStarted", s) # 0, s > 1
        PROVE  Place("StepCompleted", s - 1) \in 1 .. Place("StepStarted", s) - 1
    <3>1. Finished(s - 1) = DemoEvent("StepCompleted", s - 1)
      BY <2>2 DEF Finished, StepEnds
    <3>2. Before(DemoEvent("StepCompleted", s - 1), DemoEvent("StepStarted", s))
      BY <3>1 DEF OrderInv, StepBegins
    <3> QED BY <2>2, <3>2, PlacesAreOrdered
  <2>3. ASSUME Place("StepStarted", s) # 0
        PROVE  Place("TaskStarted", 0) = 1
    <3>1. events # <<>>
      BY <2>3, PlaceIsUnique DEF Said
    <3>2. events[1] = DemoEvent("TaskStarted", 0) /\ 1 \in DOMAIN events
      BY <3>1 DEF OrderInv, Finished
    <3> QED BY <3>2, PlaceIsUnique
  <2>4. Place("TaskCompleted", DemoSteps + 1) # 0 => Place("StepCompleted", s) # 0
    BY PlaceIsUnique DEF OrderInv, TaskEnds, StepEnds
  <2> QED BY <2>1, <2>2, <2>3, <2>4
<1> QED BY <1>1, <1>2 DEF DemoIsExact

DemoInv == TryInv /\ FailedInv /\ StreamInv

LEMMA DemoInvInit == DemoInit => DemoInv
<1> SUFFICES ASSUME DemoInit  PROVE DemoInv
  OBVIOUS
<1>1. /\ demo = [job |-> 0, tries |-> 0, awaits |-> FALSE, over |-> "no"]
      /\ inside = {} /\ events = <<>> /\ demoRow = "pending" /\ DemoSteps \in Nat
  BY DemoAssumption DEF DemoInit
<1>2. OrderInv
  BY <1>1 DEF OrderInv, OnceEach, Before, Said
<1>3. WorkInv
  BY <1>1 DEF WorkInv, Said
<1>4. DemoRowInv /\ FailedInv
  BY <1>1 DEF DemoRowInv, FailedInv
<1> QED BY <1>2, <1>3, <1>4, TriesBegin DEF DemoInv, StreamInv

LEMMA DemoInvStep == DemoInv /\ [DemoNext]_demoVars => DemoInv'
BY TriesKeep, FailureStands, StreamKeeps, RowKeeps DEF DemoInv, StreamInv

LEMMA DemoInvGives == DemoInv => DemoIsDurable
<1> SUFFICES ASSUME DemoInv  PROVE DemoIsDurable
  OBVIOUS
<1>1. DemoIsExact
  BY OrderIsExact DEF DemoInv, StreamInv
<1>2. OneCrashIsSurvived
  <2> SUFFICES ASSUME demo.over = "failed"  PROVE faults + 1 >= DemoTries
    BY DEF OneCrashIsSurvived
  <2>1. ~Held /\ demo.tries = DemoTries
    BY DEF DemoInv, FailedInv, Held, Awaited
  <2>2. PICK f \in Nat, n \in Nat : f = faults /\ n = DemoTries
    BY DemoAssumption DEF DemoInv, TryInv, DemoTyping
  <2>3. PICK c \in Nat : c = (IF crashed THEN 1 ELSE 0) /\ c <= 1
    OBVIOUS
  <2>4. n <= f + c + 0
    BY <2>1, <2>2, <2>3 DEF DemoInv, TryInv, LostInv
  <2> QED BY <2>2, <2>3, <2>4
<1>3. DemoRowFollows
  BY PlaceIsUnique DEF DemoInv, StreamInv, DemoRowInv, DemoRowFollows, TaskEnds
<1> QED BY <1>1, <1>2, <1>3 DEF DemoIsDurable

\* tests/crash_test.py:6-11 and workflows/task_workflow.py, for any number of steps, tries
\* and faults: tries that overlap, workers that die and the one injected crash leave each
\* step recorded once, in order and after its effect; a task fails only after as many
\* other faults; and its row says completed of nothing else.
THEOREM DemosAreDurable == DemoSpec => []DemoIsDurable
<1>1. DemoInit => DemoInv
  BY DemoInvInit
<1>2. DemoInv /\ [DemoNext]_demoVars => DemoInv'
  BY DemoInvStep
<1>3. DemoInv => DemoIsDurable
  BY DemoInvGives
<1> QED BY <1>1, <1>2, <1>3, PTL DEF DemoSpec

-----------------------------------------------------------------------------
(* The parts as they are checked together *)

\* A behaviour of the whole is one of each part: steps of the others are its stuttering.
LEMMA LivesAreParts ==
  LiveSpec => /\ GraphSpec /\ FollowSpec /\ DemoSpec
              /\ DesktopInit /\ [][DesktopNext]_desktopVars
<1>1. LiveInit => GraphInit /\ FollowInit /\ DemoInit /\ DesktopInit
  BY DEF LiveInit, DesktopRests, FollowRests, DemoRests
<1>2. [LiveNext]_liveVars => /\ [GraphNext]_graphVars /\ [FollowNext]_followVars
                             /\ [DemoNext]_demoVars /\ [DesktopNext]_desktopVars
  BY DEF LiveNext, liveVars, Only
<1>3. LiveFairness => GraphFairness
  BY PTL DEF LiveFairness
<1> QED BY <1>1, <1>2, <1>3, PTL DEF LiveSpec, GraphSpec, FollowSpec, DemoSpec

\* Whatever is followed, shown or run beside a task: followers say of it what was decided
\* (core/watch.py, client.py), the window is busy while a prompt is pending
\* (desktop/src/main/acp.ts), and the row of a graph is true of its steps
\* (workflows/graph_workflow.py).
THEOREM ReportsRight == LiveSpec => []ReportsAreRight
<1>1. FollowersAreRight /\ BusyWhilePending /\ GraphIsSound => ReportsAreRight
  BY DEF ReportsAreRight
<1> QED BY <1>1, LivesAreParts, GraphsAreSound, FollowersHearTheTruth, WindowIsHonest, PTL

\* What DemosAreDurable says of a demo task, for the behaviours of the whole.
THEOREM LiveDemosAreDurable == LiveSpec => []DemoIsDurable
BY LivesAreParts, DemosAreDurable, PTL
=============================================================================
