-------------------------------- MODULE Stack ---------------------------------
(***************************************************************************)
(* `bucker setup' and `bucker dev' (dev.py): one terminal prepares the     *)
(* machine and supervises the local stack.  What already listens on its    *)
(* port is left alone; several terminals may run the command.  Docker, the *)
(* Temporal CLI and the ports are the machine's.                           *)
(***************************************************************************)
EXTENDS Naturals, FiniteSets

CONSTANTS Terminals,  \* terminals the command is typed in
          Reboots     \* restarts of the machine: a bound

Nobody == "nobody"

ASSUME StackAssumption == Reboots \in Nat /\ Nobody \notin Terminals

VARIABLES
  docker,    \* "absent", "stopped" or "up"
  cli,       \* the temporal CLI is installed
  env,       \* .env exists
  migrated,  \* the schema is there
  postgres,  \* its container runs
  box,       \* the container named bucker-temporal: "none", "stopped" or "runs"
  holder,    \* who owns the ports: [temporal |-> ., api |-> .], a terminal or Nobody
  workers,   \* terminals whose worker runs
  desk,      \* of each terminal: "idle", "setup", "planned", ..., "serving", "down"
  plan,      \* of each terminal: what plan_stack found
  lost,      \* ghost: terminals whose worker died by itself
  boots

stackVars == <<docker, cli, env, migrated, postgres, box, holder, workers, desk, plan, lost, boots>>

NoPlan == [postgres |-> "none", temporal |-> "none", api |-> "none"]

StackInit ==
  /\ docker \in {"absent", "stopped", "up"} /\ cli \in BOOLEAN
  /\ env = FALSE /\ migrated = FALSE /\ postgres \in BOOLEAN /\ box = "none" /\ boots = 0
  /\ holder = [temporal |-> Nobody, api |-> Nobody] /\ workers = {}
  /\ desk = [t \in Terminals |-> "idle"] /\ plan = [t \in Terminals |-> NoPlan]
  /\ lost = {}

\* Who listens: the CLI's child, or the container.
TemporalUp == box = "runs" \/ holder.temporal # Nobody
Goes(t, to) == desk' = [desk EXCEPT ![t] = to]

-----------------------------------------------------------------------------
\* first_run_needed decides whether the command sets the machine up.
Types(t) ==
  /\ desk[t] \in {"idle", "down"}
  /\ Goes(t, IF ~env \/ ~postgres \/ ~migrated THEN "setup" ELSE "start")
  /\ UNCHANGED <<docker, cli, env, migrated, postgres, box, holder, workers, plan, lost, boots>>

\* run_setup: .env is written before a missing Docker ends it; a failed migration does not.
SetsUp(t) ==
  /\ desk[t] = "setup" /\ env' = TRUE
  /\ \/ /\ docker = "up" /\ postgres' = TRUE /\ migrated' \in {migrated, TRUE}
        /\ Goes(t, "start")
     \/ /\ docker = "up" => ~postgres
        /\ Goes(t, "down") /\ UNCHANGED <<postgres, migrated>>
  /\ UNCHANGED <<docker, cli, box, holder, workers, plan, lost, boots>>

\* plan_stack: ports are probed; docker counts when its command is there.
Plans(t) ==
  /\ desk[t] = "start"
  /\ plan' = [plan EXCEPT ![t] =
       [postgres |-> IF postgres THEN "running" ELSE IF docker # "absent" THEN "start" ELSE "missing",
        temporal |-> IF TemporalUp THEN "running"
                     ELSE IF cli THEN "start-cli"
                     ELSE IF docker # "absent" THEN "start-docker" ELSE "missing",
        api |-> IF holder.api # Nobody THEN "running" ELSE "start"]]
  /\ Goes(t, "postgres")
  /\ UNCHANGED <<docker, cli, env, migrated, postgres, box, holder, workers, lost, boots>>

\* Each part in turn: skipped when it was running, awaited when it is started; a part
\* that does not come up, or is missing, ends the command.
BringsPostgres(t) ==
  /\ desk[t] = "postgres"
  /\ \/ plan[t].postgres = "running" /\ Goes(t, "temporal") /\ UNCHANGED postgres
     \/ plan[t].postgres = "start" /\ docker = "up" /\ postgres' = TRUE /\ Goes(t, "temporal")
     \/ ~postgres /\ plan[t].postgres # "running" /\ Goes(t, "ending") /\ UNCHANGED postgres
  /\ UNCHANGED <<docker, cli, env, migrated, box, holder, workers, plan, lost, boots>>

\* `docker run' is refused while a container of that name exists, running or not.
BringsTemporal(t) ==
  /\ desk[t] = "temporal"
  /\ \/ /\ plan[t].temporal = "running" /\ Goes(t, "worker") /\ UNCHANGED <<box, holder>>
     \/ /\ plan[t].temporal = "start-cli" /\ UNCHANGED box
        /\ holder' = IF TemporalUp THEN holder ELSE [holder EXCEPT !.temporal = t]
        /\ \E to \in {"worker", "ending"} : Goes(t, to)
     \/ /\ plan[t].temporal = "start-docker" /\ UNCHANGED holder
        /\ box' = IF box = "none" /\ docker = "up" THEN "runs" ELSE box
        /\ Goes(t, IF box' = "runs" \/ TemporalUp THEN "worker" ELSE "ending")
     \/ /\ plan[t].temporal = "missing" /\ Goes(t, "ending") /\ UNCHANGED <<box, holder>>
  /\ UNCHANGED <<docker, cli, env, migrated, postgres, workers, plan, lost, boots>>

\* Always a worker of its own; then the dashboard, whose port may be taken meanwhile.
BringsWorker(t) ==
  /\ desk[t] = "worker" /\ workers' = workers \cup {t} /\ lost' = lost \ {t} /\ Goes(t, "api")
  /\ UNCHANGED <<docker, cli, env, migrated, postgres, box, holder, plan, boots>>

BringsApi(t) ==
  /\ desk[t] = "api" /\ Goes(t, "serving")
  /\ holder' = IF plan[t].api = "start" /\ holder.api = Nobody THEN [holder EXCEPT !.api = t] ELSE holder
  /\ UNCHANGED <<docker, cli, env, migrated, postgres, box, workers, plan, lost, boots>>

\* Mutant: a part that does not come up ends the command where it stands.
EndAtOnce(t) ==
  /\ desk[t] = "ending" /\ Goes(t, "down")
  /\ UNCHANGED <<docker, cli, env, migrated, postgres, box, holder, workers, plan, lost, boots>>

StopsOwn(t) ==
  /\ Goes(t, "down")
  /\ workers' = workers \ {t}
  /\ holder' = [h \in DOMAIN holder |-> IF holder[h] = t THEN Nobody ELSE holder[h]]
  /\ lost' = lost \ {t}
  /\ UNCHANGED <<docker, cli, env, migrated, postgres, box, plan, boots>>

\* The finally of run_stack, after a part that failed ...
GivesUp(t) == desk[t] = "ending" /\ StopsOwn(t)

\* ... and after Ctrl+C, wherever it comes.
Interrupted(t) == desk[t] \in {"postgres", "temporal", "worker", "api", "serving"} /\ StopsOwn(t)

\* External: what a terminal has started dies.  run_stack sleeps and asks none of them.
ChildDies(t) ==
  /\ \/ /\ t \in workers
        /\ workers' = workers \ {t} /\ lost' = lost \cup {t} /\ UNCHANGED holder
     \/ /\ \E h \in DOMAIN holder : holder[h] = t /\ holder' = [holder EXCEPT ![h] = Nobody]
        /\ UNCHANGED <<workers, lost>>
  /\ UNCHANGED <<docker, cli, env, migrated, postgres, box, desk, plan, boots>>

\* External: Docker Desktop is installed or started, the machine restarts.
DockerComes ==
  /\ docker # "up" /\ docker' = IF docker = "absent" THEN "stopped" ELSE "up"
  /\ UNCHANGED <<cli, env, migrated, postgres, box, holder, workers, desk, plan, lost, boots>>

MachineRestarts ==
  /\ boots < Reboots /\ boots' = boots + 1
  /\ postgres' = FALSE /\ workers' = {}
  /\ box' = IF box = "runs" THEN "stopped" ELSE box
  /\ docker' = IF docker = "up" THEN "stopped" ELSE docker
  /\ holder' = [h \in DOMAIN holder |-> Nobody]
  /\ desk' = [t \in Terminals |-> "idle"] /\ plan' = [t \in Terminals |-> NoPlan]
  /\ lost' = {}
  /\ UNCHANGED <<cli, env, migrated>>

StackNext ==
  \/ \E t \in Terminals :
       \/ Types(t) \/ SetsUp(t) \/ Plans(t) \/ BringsPostgres(t) \/ BringsTemporal(t)
       \/ BringsWorker(t) \/ BringsApi(t) \/ GivesUp(t) \/ Interrupted(t)
       \/ ChildDies(t)
  \/ DockerComes \/ MachineRestarts

StackSpec == StackInit /\ [][StackNext]_stackVars

-----------------------------------------------------------------------------
\* A command that is over, however it ended, has stopped what it started: no worker and
\* no port stays with a terminal nobody can press Ctrl+C in (dev.py:124).
OverLeavesNothing ==
  \A t \in Terminals : desk[t] \in {"idle", "down"} =>
     t \notin workers /\ t \notin {holder[h] : h \in DOMAIN holder}

\* A terminal that serves has a database someone set up, and a worker of its own as
\* long as that did not die by itself.
ServingIsComplete ==
  \A t \in Terminals : desk[t] = "serving" => postgres /\ env /\ t \in workers \cup lost

\* ... which the command would have to ask for.
ServingHasWorker == \A t \in Terminals : desk[t] = "serving" => t \in workers

\* dev.py: the stack of a terminal is complete while it serves and gone afterwards.
StackIsKept == OverLeavesNothing /\ ServingIsComplete

\* dev.py:12-13 "The supervisor only spawns what is not already running (ports are
\* probed), so re-running is safe and idempotent".
OneWorker == Cardinality(workers) <= 1

\* dev.py:124 "Ctrl+C stops what we started": the container is left.
OverLeavesNoBox ==
  (\A t \in Terminals : desk[t] \in {"idle", "down"}) => box = "none"
===============================================================================
