-------------------------------- MODULE MCLive --------------------------------
(***************************************************************************)
(* One run for the components whose promises are that something ends. They *)
(* share nothing here: a behaviour picks one of them, and the others keep  *)
(* the state they begin in, so that the states of this run are the sum of  *)
(* theirs and not the product.                                             *)
(***************************************************************************)
EXTENDS Graph, DesktopAgent, Follow, Demo, TaskControl, TLC

VARIABLE part

Parts == {"graph", "desktop", "follow", "demo", "control"}

liveVars ==
  <<graphVars, desktopVars, followVars, demoVars, vars, part>>

\* A component that is not picked begins in one of its initial states.
DesktopRests == conns = 0 /\ session = [id |-> FALSE, stored |-> FALSE] /\ DesktopInit
FollowRests == who = "pages" /\ kind = "code" /\ FollowInit
DemoRests == crashAt = 0 /\ DemoInit

LiveInit ==
  /\ part \in Parts
  /\ GraphInit /\ Init
  /\ IF part = "desktop" THEN DesktopInit ELSE DesktopRests
  /\ IF part = "follow" THEN FollowInit ELSE FollowRests
  /\ IF part = "demo" THEN DemoInit ELSE DemoRests

\* A step of the part that was picked.
Only(p) ==
  /\ UNCHANGED part
  /\ p # "graph" => UNCHANGED graphVars
  /\ p # "desktop" => UNCHANGED desktopVars
  /\ p # "follow" => UNCHANGED followVars
  /\ p # "demo" => UNCHANGED demoVars
  /\ p # "control" => UNCHANGED vars

LiveNext ==
  \/ part = "graph" /\ GraphNext /\ Only("graph")
  \/ part = "desktop" /\ DesktopNext /\ Only("desktop")
  \/ part = "follow" /\ FollowNext /\ Only("follow")
  \/ part = "demo" /\ DemoNext /\ Only("demo")
  \/ part = "control" /\ Next /\ Only("control")

\* The fairness of each component, which asks something of the one that is picked only:
\* of the others nothing is enabled where they rest, or nothing is asked.
LiveFairness ==
  /\ GraphFairness /\ DesktopFairness /\ FollowFairness
  /\ WF_demoVars(part = "demo" /\ DemoProgress)
  /\ WF_vars(part = "control" /\ Create)
  /\ WF_vars(part = "control" /\ Work)
  /\ WF_vars(part = "control" /\ RecordVerdict)
  /\ WF_vars(part = "control" /\ UpdateRow)
  /\ WF_vars(part = "control" /\ SelectPending)
  /\ WF_vars(part = "control" /\ RecordRestartFailed)
  /\ SF_vars(part = "control" /\ Restart)
  /\ WF_vars(part = "control" /\ RestartFails)

LiveSpec == LiveInit /\ [][LiveNext]_liveVars /\ LiveFairness

-----------------------------------------------------------------------------
NoReviewer == {}
NoSweeper == {}

\* What a follower says of a task is so (core/watch.py, client.py), the window says that
\* it is busy while a prompt is pending and only then (desktop/src/main/acp.ts), and a
\* graph keeps its order and its row is true of its steps, whoever reconciles beside it.
ReportsAreRight == FollowersAreRight /\ BusyWhilePending /\ GraphIsSound

\* Whoever follows a decided task is told (core/watch.py, client.py), and a demo task
\* that began ends (workflows/task_workflow.py).
EverybodyIsTold == FollowersEnd /\ DemoEnds
===============================================================================
