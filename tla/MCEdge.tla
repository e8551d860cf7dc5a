-------------------------------- MODULE MCEdge --------------------------------
(***************************************************************************)
(* One run for the components at the edges of the system: models,          *)
(* processes, files, calendars and graphs. They share nothing here: a      *)
(* behaviour picks one of them, and the others keep the state they begin   *)
(* in, so that the states of this run are the sum of theirs and not the    *)
(* product.                                                                *)
(***************************************************************************)
EXTENDS InferenceStream, ToolWire, Planning, DesktopEditor, ReplyText, Terminal,
        Stack, Gateway, Schedules, RemoteSchedule, Graph, TLC

CONSTANTS q1, q2, s1, s2

VARIABLE part

Parts == {"stream", "wire", "plan", "editor", "text", "terminal", "stack",
          "gateway", "schedules", "remote", "graph"}

edgeVars ==
  <<streamVars, wireVars, planningVars, editorVars, replyVars, terminalVars,
    stackVars, vars, scheduleVars, remoteVars, graphVars, part>>

\* A component that is not picked begins in one of its initial states.
StreamRests == StreamInit /\ request.consumer = "api"
WireRests == consumer = "api" /\ WireInit
PlanningRests == chain = <<CHOOSE m \in ModelIds : TRUE>> /\ PlanningInit
ReplyRests == replyText = <<>> /\ ReplyInit
StackRests == docker = "up" /\ cli = TRUE /\ postgres = TRUE /\ StackInit

EdgeInit ==
  /\ part \in Parts
  /\ EditorInit /\ TerminalInit /\ Init /\ ScheduleInit
  /\ RemoteInit /\ GraphInit
  /\ IF part = "stream" THEN StreamInit ELSE StreamRests
  /\ IF part = "wire" THEN WireInit ELSE WireRests
  /\ IF part = "plan" THEN PlanningInit ELSE PlanningRests
  /\ IF part = "text" THEN ReplyInit ELSE ReplyRests
  /\ IF part = "stack" THEN StackInit ELSE StackRests

\* A step of the part that was picked.
Only(p) ==
  /\ UNCHANGED part
  /\ p # "stream" => UNCHANGED streamVars
  /\ p # "wire" => UNCHANGED wireVars
  /\ p # "plan" => UNCHANGED planningVars
  /\ p # "editor" => UNCHANGED editorVars
  /\ p # "text" => UNCHANGED replyVars
  /\ p # "terminal" => UNCHANGED terminalVars
  /\ p # "stack" => UNCHANGED stackVars
  /\ p # "gateway" => UNCHANGED vars
  /\ p # "schedules" => UNCHANGED scheduleVars
  /\ p # "remote" => UNCHANGED remoteVars
  /\ p # "graph" => UNCHANGED graphVars

EdgeNext ==
  \/ part = "stream" /\ StreamNext /\ Only("stream")
  \/ part = "wire" /\ WireNext /\ Only("wire")
  \/ part = "plan" /\ PlanningNext /\ Only("plan")
  \/ part = "editor" /\ EditorNext /\ Only("editor")
  \/ part = "text" /\ ReadReply /\ Only("text")
  \/ part = "terminal" /\ TerminalNext /\ Only("terminal")
  \/ part = "stack" /\ StackNext /\ Only("stack")
  \/ part = "gateway" /\ Next /\ Only("gateway")
  \/ part = "schedules" /\ ScheduleNext /\ Only("schedules")
  \/ part = "remote" /\ RemoteNext /\ Only("remote")
  \/ part = "graph" /\ GraphNext /\ Only("graph")

EdgeSpec == EdgeInit /\ [][EdgeNext]_edgeVars

-----------------------------------------------------------------------------
(* Instances for TLC *)

\* Requests of the gateway are interchangeable, and so are schedules.
TwoRequests == {q1, q2}
TwoSchedules == {s1, s2}
Symmetry == Permutations(TwoRequests) \cup Permutations(TwoSchedules)

\* Answers of a provider: a status, and what its body hints at.
SomeReplies ==
  {<<401, "">>, <<429, "">>, <<429, "quota">>, <<503, "">>, <<404, "">>, <<400, "context">>,
   <<400, "">>, <<408, "">>}

\* Four models: a local one, a free one, one with a price, and one nobody has heard of.
FourModels == {"loc", "fre", "paid", "odd"}
Curated == <<"loc", "fre", "paid">>
Prices == [loc |-> -1, fre |-> -1, paid |-> 2, odd |-> -1]
Latencies == [loc |-> 3, fre |-> 1, paid |-> -1, odd |-> -1]

\* Cron expressions of a small calendar.
Star(f) == [bareStar |-> TRUE, parts |-> {[from |-> Lowest(f), to |-> Highest(f), step |-> 1]}]
Values(vs) == [bareStar |-> FALSE, parts |-> {[from |-> v, to |-> v, step |-> 1] : v \in vs}]
EveryMinute == [f \in CronFields |-> Star(f)]
Hourly == [EveryMinute EXCEPT !["minute"] = Values({0})]
Union == [Hourly EXCEPT !["hour"] = Values({0}), !["dom"] = Values({2}), !["dow"] = Values({0})]
Wrong == [Hourly EXCEPT !["hour"] = Values({HoursPerDay})]
Texts(c) ==
  CASE c = "minutely" -> EveryMinute
    [] c = "hourly" -> Hourly
    [] c = "union" -> Union
    [] c \in {"east", "west"} -> EveryMinute
    [] OTHER -> Wrong

\* A zone ahead of UTC whose summer time ends, and one behind it.
Zones(c, t) ==
  CASE c = "east" -> IF t < 4 THEN 2 ELSE 0
    [] c = "west" -> -2
    [] OTHER -> 0

-----------------------------------------------------------------------------
\* A consumer hears how a stream went, and the ledger says the same of it.
StreamIsHonest == LedgerMatchesStream /\ StreamEndsOnce

\* A model's text reaches its reader as it was meant: JSON that needs no repair is not
\* touched (planner.py), tool calls come whole (gateway/adapters.py).
TextsAreKept == ValidIsUnchanged /\ RepairIsFinal /\ CallsArriveWhole

\* Processes leave nothing of theirs behind: shells and their descriptors
\* (api/terminal.py), and what `bucker dev` starts (dev.py, setup.py).
ProcessesAreKept == DescriptorsAreSessions /\ StackIsKept

\* What a schedule fires is fired once, when it should be: in process (lite/scheduler.py),
\* by Temporal (workflows/scheduled_task_workflow.py), and as core/cron.py reads the clock.
FiringsAreSound == SlotRunsOnce /\ ScheduledTasksBounded /\ NextFireIsFirst
===============================================================================
