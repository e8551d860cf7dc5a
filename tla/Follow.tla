-------------------------------- MODULE Follow --------------------------------
(***************************************************************************)
(* The ways to follow one task to its verdict: `bucker watch' and `bucker  *)
(* wait' (core/watch.py), wait_for_task and iter_events of the SDK         *)
(* (client.py) and the browser's socket (api/ws.py).  All read the task's  *)
(* stream, or the state folded from it, while the task goes on; each has a *)
(* vocabulary of its own for the end.                                      *)
(***************************************************************************)
EXTENDS Integers, Sequences, FiniteSets

CONSTANTS MaxWork,           \* events of work a task records: a bound
          MaxScheduleFails,  \* starts recorded as failed: a bound
          MaxMishaps,        \* kinds of mishap that befall one task: a bound
          Endings,           \* the decisions a code task may end in: a bound
          PageSize           \* events of a page of iter_events

Decisions == {"TaskCompleted", "TaskFailed", "BudgetExceeded", "DeadlineExceeded", "NeedsHumanReview"}

ASSUME FollowAssumption ==
  /\ Endings \subseteq Decisions
  /\ {MaxWork, MaxScheduleFails, MaxMishaps} \subseteq Nat /\ PageSize \in Nat \ {0}

VARIABLES
  who,     \* the one that follows: followers only read, one at a time is all of them
  kind,    \* what the id names: a "code" task, a "graph", or "none"
  stream,  \* the events of the task
  workflow,  \* "waiting" to be started, "running", "writes" or "escalates" (its row), "over"
  escalated, \* the row says needs_human_review
  review,    \* review_task for each judgement: "none", "checked", "written" or "done"
  mishaps,   \* ghost: what happened to the task that its workflow did not foresee
  watch,   \* [at: "first", "tail" or "done", read: events printed, said: its verdict]
  waiter,  \* what wait_for_status returns: None while it polls
  client,  \* what wait_for_task returns
  sock,    \* [at: "out", "open", "closed" or "left", read, said: the terminal message]
  listed,  \* the server's task_connections hold the socket
  pages    \* iter_events: [read, whole: the stream when it last asked, done]

followed == <<workflow, escalated, review, mishaps>>
followers == <<watch, waiter, client, sock, listed, pages>>
followVars == <<who, kind, stream, followed, followers>>

None == "none"
TimedOut == "timed out"

\* An event as followers see it; status is the payload's, None when it has none, and
\* failures tells whether a bookend's detail lists failed steps.
Event(type, step, status, failures) ==
  [type |-> type, step |-> step, status |-> status, failures |-> failures]
Plain(type) == Event(type, None, None, FALSE)
GraphEvent(step, status, failures) == Event("GraphStepCompleted", step, status, failures)

Judgements == {"HumanApproved", "HumanRejected"}

-----------------------------------------------------------------------------
\* The status an event folds to; old where its handler leaves the status alone.
FoldStatus(old, e) ==
  CASE e.type = "TaskCreated" -> "pending"
    [] e.type \in {"PlanRequested", "WorkerCompleted"} -> "in_progress"
    [] e.type = "ScheduleFailed" -> "schedule_failed"
    [] e.type = "TaskCompleted" -> "completed"
    [] e.type = "TaskFailed" -> "failed"
    [] e.type \in {"BudgetExceeded", "DeadlineExceeded"} -> "halted"
    [] e.type = "NeedsHumanReview" -> "needs_human_review"
    [] e.type = "HumanApproved" -> "human_approved"
    [] e.type = "HumanRejected" -> "human_rejected"
    [] e.type = "GraphStepCompleted" /\ e.step # "__graph__" -> old
    [] e.type = "GraphStepCompleted" /\ e.status = "started" -> "in_progress"
    [] e.failures -> "failed"
    [] OTHER -> e.status

\* The status after the first k events.
StatusAfter(k) ==
  LET f[i \in 0 .. k] == IF i = 0 THEN "unknown" ELSE FoldStatus(f[i - 1], stream[i]) IN f[k]
Status == StatusAfter(Len(stream))

\* TERMINAL_STATUSES of core/watch.py and CLIENT_TERMINAL_STATUSES of client.py.
TerminalStatuses == {"completed", "failed", "halted", "needs_human_review", "human_approved",
                     "human_rejected", "cancelled"}
ClientTerminal == TerminalStatuses \cup {"schedule_failed"}

ExitCode(status) ==
  CASE status \in {"completed", "human_approved"} -> 0
    [] status = "needs_human_review" -> 2
    [] status = TimedOut -> 3
    [] OTHER -> 1

\* Mutant: escalations are missing from the events that end a watch.
WithoutEscalation == {"TaskCompleted", "TaskFailed", "BudgetExceeded", "DeadlineExceeded",
                      "HumanApproved", "HumanRejected"}

\* The keys of TERMINAL_EVENT_STATUSES; each maps to what it folds to.
TerminalEvents == Decisions \cup Judgements

-----------------------------------------------------------------------------
FollowInit ==
  /\ who \in {"watch", "wait", "client", "socket", "pages"}
  /\ kind \in {"code", "graph", "none"}
  /\ stream = IF kind = "none" THEN <<>> ELSE <<Plain("TaskCreated")>>
  /\ workflow = IF kind = "none" THEN "over" ELSE "waiting"
  /\ escalated = FALSE /\ review = [j \in Judgements |-> "none"] /\ mishaps = {}
  /\ watch = [at |-> "first", read |-> 0, said |-> None]
  /\ waiter = None /\ client = None
  /\ sock = [at |-> "out", read |-> 0, said |-> None] /\ listed = FALSE
  /\ pages = [read |-> 0, whole |-> 0, done |-> FALSE]

Recorded(type) == \E i \in DOMAIN stream : stream[i].type = type
Worked == Cardinality({i \in DOMAIN stream : stream[i].type = "WorkerCompleted"
                                              \/ stream[i].step \notin {None, "__graph__"}})
Failures == Cardinality({i \in DOMAIN stream : stream[i].type = "ScheduleFailed"})

Record(e) == stream' = Append(stream, e) /\ UNCHANGED <<who, kind, followers>>
RecordsNothing == UNCHANGED <<who, kind, stream, followers>>
Befalls(mishap) == mishaps' = mishaps \cup {mishap} /\ Cardinality(mishaps') <= MaxMishaps

\* A start is put down as failed: by create_task, whose reply may be lost, and by every
\* reconcile_pending that finds the task running.  Neither looks at the stream.
ScheduleFails ==
  /\ kind # "none" /\ Failures < MaxScheduleFails /\ Record(Plain("ScheduleFailed"))
  /\ IF workflow = "waiting" THEN UNCHANGED mishaps ELSE Befalls("late start")
  /\ UNCHANGED <<workflow, escalated, review>>

\* halt_task: once per task, by its key, of a task that was active when it was selected.
Swept ==
  /\ kind # "none" /\ "swept" \notin mishaps /\ Record(Plain("TaskFailed"))
  /\ Befalls("swept") /\ UNCHANGED <<workflow, escalated, review>>

\* The UPDATE of one of these, or of a second run.
RowOverwritten ==
  /\ escalated /\ mishaps # {} /\ escalated' = FALSE
  /\ RecordsNothing /\ UNCHANGED <<workflow, review, mishaps>>

\* The reconciler starts a task that it had selected before its first run ended; what
\* the first run has recorded keeps its keys.
Restarted ==
  /\ kind # "none" /\ workflow = "over" /\ "run again" \notin mishaps
  /\ workflow' = "running" /\ Befalls("run again")
  /\ RecordsNothing /\ UNCHANGED <<escalated, review>>

Moves(to) == workflow' = to /\ UNCHANGED <<escalated, review, mishaps>>

CodeStarts ==
  /\ kind = "code" /\ workflow = "waiting"
  /\ Record(Plain("PlanRequested")) /\ Moves("running")

\* A worker's result: its own status is produced, blocked or no_change_needed.
CodeWorks ==
  /\ kind = "code" /\ workflow = "running" /\ Worked < MaxWork
  /\ Record(Event("WorkerCompleted", None, "produced", FALSE)) /\ UNCHANGED followed

\* A try that outlived its timeout records its work when the workflow is done with it.
WorksOn ==
  /\ kind = "code" /\ workflow \in {"writes", "escalates", "over"} /\ Recorded("PlanRequested")
  /\ Worked < MaxWork /\ Record(Event("WorkerCompleted", None, "produced", FALSE))
  /\ Befalls("worked on") /\ UNCHANGED <<workflow, escalated, review>>

\* record_decision and record_failure: the workflow's last event, whose key a second run
\* may share.
CodeDecides ==
  /\ kind = "code" /\ workflow = "running"
  /\ \E d \in Endings :
       /\ Record(Plain(d)) \/ (Recorded(d) /\ RecordsNothing)
       /\ Moves(IF d = "NeedsHumanReview" THEN "escalates" ELSE "writes")

\* Their UPDATE.
RowWritten ==
  /\ workflow \in {"writes", "escalates"}
  /\ escalated' = (workflow = "escalates") /\ workflow' = "over"
  /\ RecordsNothing /\ UNCHANGED <<review, mishaps>>

\* review_task: the row is looked at, then written, then the event is appended, under a
\* key of the judgement's.
HumanLooks(j) ==
  /\ escalated /\ review[j] = "none" /\ review' = [review EXCEPT ![j] = "checked"]
  /\ RecordsNothing /\ UNCHANGED <<workflow, escalated, mishaps>>

HumanWrites(j) ==
  /\ review[j] = "checked" /\ review' = [review EXCEPT ![j] = "written"] /\ escalated' = FALSE
  /\ RecordsNothing /\ UNCHANGED <<workflow, mishaps>>

HumanJudges(j) ==
  /\ review[j] = "written" /\ review' = [review EXCEPT ![j] = "done"] /\ Record(Plain(j))
  /\ UNCHANGED <<workflow, escalated, mishaps>>

\* A graph that does not validate ends at once.
GraphStarts ==
  /\ kind = "graph" /\ workflow = "waiting"
  /\ \/ Record(GraphEvent("__graph__", "started", FALSE)) /\ Moves("running")
     \/ Record(GraphEvent("__graph__", "failed", FALSE)) /\ Moves("over")

\* A step's event carries the status its child workflow returned.
GraphProceeds ==
  /\ kind = "graph" /\ workflow = "running" /\ Worked < MaxWork
  /\ \E s \in {"completed", "failed", "needs_human_review"} : Record(GraphEvent("step", s, FALSE))
  /\ UNCHANGED followed

\* The bookend says "completed" of every graph that ran; its detail lists the failures.
\* Its key lets it in once.
GraphEnds ==
  /\ kind = "graph" /\ workflow = "running" /\ Moves("over")
  /\ IF \E i \in DOMAIN stream : stream[i].step = "__graph__" /\ stream[i].status = "completed"
     THEN RecordsNothing
     ELSE Record(GraphEvent("__graph__", "completed",
                   \E i \in DOMAIN stream : stream[i] = GraphEvent("step", "failed", FALSE)))

\* Terminated from outside, or dead for good: nothing is recorded.
Cancelled ==
  workflow \in {"running", "writes", "escalates"} /\ Moves("over") /\ RecordsNothing

-----------------------------------------------------------------------------
Unfollowed == UNCHANGED <<who, kind, stream, followed>>

\* watch_task: a finished task is answered from its state ...
WatchBegins ==
  /\ who = "watch" /\ watch.at = "first"
  /\ watch' = IF Status \in TerminalStatuses
              THEN [watch EXCEPT !.at = "done", !.said = Status]
              ELSE [watch EXCEPT !.at = "tail"]
  /\ Unfollowed /\ UNCHANGED <<waiter, client, sock, listed, pages>>

\* The first event after the cursor that ends the watch, the length of the stream if none.
Prints(Ends) ==
  LET ends == {i \in watch.read + 1 .. Len(stream) : stream[i].type \in Ends}
  IN IF ends = {} THEN Len(stream) ELSE CHOOSE i \in ends : \A j \in ends : i <= j

\* Mutant: the verdict is asked of the state again, after the events are printed.
AskAgain(n) == Status

\* What a watch reports that has printed n events.
Verdict(n) == FoldStatus(None, stream[n])

\* ... another from the events it prints, one by one.
WatchPolls ==
  /\ who = "watch" /\ watch.at = "tail" /\ watch.read < Len(stream)
  /\ LET n == Prints(TerminalEvents)
     IN watch' = IF stream[n].type \in TerminalEvents
                 THEN [at |-> "done", read |-> n, said |-> Verdict(n)]
                 ELSE [watch EXCEPT !.read = n]
  /\ Unfollowed /\ UNCHANGED <<waiter, client, sock, listed, pages>>

\* The deadline is looked at after a read: what is there has been printed.
WatchTimesOut ==
  /\ who = "watch" /\ watch.at = "tail" /\ watch.read = Len(stream)
  /\ watch' = [watch EXCEPT !.at = "done", !.said = TimedOut]
  /\ Unfollowed /\ UNCHANGED <<waiter, client, sock, listed, pages>>

\* wait_for_status.
WaitSees ==
  /\ who = "wait" /\ waiter = None /\ Status \in TerminalStatuses /\ waiter' = Status
  /\ Unfollowed /\ UNCHANGED <<watch, client, sock, listed, pages>>

WaitTimesOut ==
  /\ who = "wait" /\ waiter = None /\ Status \notin TerminalStatuses /\ waiter' = TimedOut
  /\ Unfollowed /\ UNCHANGED <<watch, client, sock, listed, pages>>

\* GET /tasks/{id}: 404 for an id without events.
TaskAnswer == IF stream = <<>> THEN "not found" ELSE Status

\* wait_for_task: an error of the server's is raised, it ends the wait.
ClientSees ==
  /\ who = "client" /\ client = None /\ TaskAnswer \in ClientTerminal \cup {"not found"}
  /\ client' = TaskAnswer
  /\ Unfollowed /\ UNCHANGED <<watch, waiter, sock, listed, pages>>

ClientTimesOut ==
  /\ who = "client" /\ client = None
  /\ TaskAnswer \notin ClientTerminal \cup {"not found"} /\ client' = TimedOut
  /\ Unfollowed /\ UNCHANGED <<watch, waiter, sock, listed, pages>>

-----------------------------------------------------------------------------
SocketOpens ==
  /\ who = "socket" /\ sock.at = "out" /\ sock' = [sock EXCEPT !.at = "open"] /\ listed' = TRUE
  /\ Unfollowed /\ UNCHANGED <<watch, waiter, client, pages>>

\* The statuses of a payload that end the socket.
Closing == {"completed", "failed", "cancelled", "halted", "needs_human_review"}

\* One read: the events after the cursor go out until one carries a closing status;
\* the handler then says "terminal", closes and returns.
SocketPolls ==
  /\ who = "socket" /\ sock.at = "open" /\ sock.read < Len(stream)
  /\ LET ends == {i \in sock.read + 1 .. Len(stream) : stream[i].status \in Closing}
     IN IF ends = {} THEN sock' = [sock EXCEPT !.read = Len(stream)]
        ELSE LET n == CHOOSE i \in ends : \A j \in ends : i <= j
             IN sock' = [at |-> "closed", read |-> n, said |-> stream[n].status]
  /\ Unfollowed /\ UNCHANGED <<watch, waiter, client, listed, pages>>

\* The browser goes away; the next ping fails and the handler forgets the socket.
SocketLeaves ==
  /\ who = "socket" /\ sock.at = "open" /\ sock' = [sock EXCEPT !.at = "left"] /\ listed' = FALSE
  /\ Unfollowed /\ UNCHANGED <<watch, waiter, client, pages>>

\* GET /tasks/{id}/events: how many events a page after the first `after' has.
PageLength(after) ==
  IF Len(stream) - after < PageSize THEN Len(stream) - after ELSE PageSize

\* iter_events: pages after the cursor until one is short.
PageComes ==
  /\ who = "pages" /\ ~pages.done
  /\ LET n == PageLength(pages.read)
     IN pages' = [read |-> pages.read + n, whole |-> Len(stream), done |-> n < PageSize]
  /\ Unfollowed /\ UNCHANGED <<watch, waiter, client, sock, listed>>

-----------------------------------------------------------------------------
FollowNext ==
  \/ ScheduleFails \/ Swept \/ RowOverwritten \/ Restarted
  \/ CodeStarts \/ CodeWorks \/ WorksOn \/ CodeDecides \/ RowWritten \/ Cancelled
  \/ \E j \in Judgements : HumanLooks(j) \/ HumanWrites(j) \/ HumanJudges(j)
  \/ GraphStarts \/ GraphProceeds \/ GraphEnds
  \/ WatchBegins \/ WatchPolls \/ WatchTimesOut \/ WaitSees \/ WaitTimesOut
  \/ ClientSees \/ ClientTimesOut \/ SocketOpens \/ SocketPolls \/ SocketLeaves \/ PageComes

FollowSpec == FollowInit /\ [][FollowNext]_followVars

\* Every follower polls again; nothing is promised of the task, of a human, of a
\* deadline's coming or of a browser's staying.
FollowFairness ==
  /\ WF_followVars(WatchBegins) /\ WF_followVars(WatchPolls) /\ WF_followVars(WaitSees)
  /\ WF_followVars(ClientSees) /\ WF_followVars(SocketPolls)

-----------------------------------------------------------------------------
\* What a watch reports is what the events it has printed say: a verdict that lands
\* between its read and its answer is neither reported unprinted nor printed unreported
\* (core/watch.py:34-37).
WatchSaysWhatItPrinted ==
  (watch.at = "done" /\ watch.said # TimedOut /\ watch.read > 0) =>
    (kind = "code" => watch.said = StatusAfter(watch.read))

\* Nothing but the workflow and one judgement has spoken of the task: no start was put
\* down as failed once it had one, no sweep halted it, it ran once, no try outlived its
\* timeout and no two humans judged it both ways.
Undisturbed == mishaps = {} /\ ~(Recorded("HumanApproved") /\ Recorded("HumanRejected"))

\* A verdict the command line reported of such a task stands: afterwards only a human,
\* asked by an escalation, changes the status, so exit codes 0 and 1 are not taken back.
VerdictsStand ==
  Undisturbed =>
    \A said \in {watch.said, waiter} \ {None, TimedOut} :
       ExitCode(said) # ExitCode(Status) => said = "needs_human_review" /\ Status # said

\* Pages miss nothing: when iter_events stops it has yielded all there was.
PagesAreWhole == pages.done => pages.read = pages.whole

\* What any follower was told, printed or given is so (core/watch.py, client.py).
FollowersAreRight == WatchSaysWhatItPrinted /\ VerdictsStand /\ PagesAreWhole

\* A code task's verdict ends whatever follows it from the command line or the SDK,
\* however it was reached (core/watch.py:38-46 names an event for each): a watch even if
\* later events overwrite it, a poll of the state unless they do before it looks.
FollowersEnd ==
  (kind = "code" /\ Status \in TerminalStatuses)
     ~> CASE who = "watch" -> watch.at = "done"
          [] who = "wait" -> waiter # None \/ Status \notin TerminalStatuses
          [] who = "client" -> client # None \/ Status \notin TerminalStatuses
          [] OTHER -> TRUE

\* ws.py:106 "Closes automatically when the task reaches a terminal status."
SocketCloses ==
  (kind = "code" /\ sock.at = "open" /\ Status \in Closing) ~> (sock.at # "open")

\* What the socket calls terminal is the task's status.
SocketTellsTheVerdict == sock.said # None => sock.said = Status

\* core/watch.py:1 "follow a task's event stream until it reaches a verdict", of graphs.
GraphWatchEnds == (who = "watch" /\ kind = "graph" /\ Status \in TerminalStatuses) ~> (watch.at = "done")

\* core/watch.py:18 "Statuses after which no further events are expected", of the verdict
\* itself and whoever acts on the task.
VerdictsAreLast == [][kind = "code" /\ stream' # stream => Status \notin {"completed", "failed"}]_followVars

\* client.py:36 "A schedule-failed task will never run".
ClientVerdictStands == client = "schedule_failed" => Status = "schedule_failed"

\* ws.py:21-22: connections are cleaned up when their socket is gone.
SocketsAreForgotten == listed => sock.at = "open"
===============================================================================
