----------------------------- MODULE Schedules -----------------------------
(***************************************************************************)
(* Recurring tasks without Temporal: lite/scheduler.py behind the          *)
(* /schedules endpoints of api/app.py and `bucker schedules' of cli.py.    *)
(*                                                                         *)
(* One loop in the server process reads the due rows of the schedules      *)
(* table and fires them one after the other, with awaits in between;       *)
(* endpoints and command lines write the same rows without a lock.         *)
(*                                                                         *)
(* next_run_at is a text, the wall clock of the expression's zone followed *)
(* by its offset, and is compared as a text with the clock of UTC.  The    *)
(* wall clocks differ, and only the last microsecond gets as far as the    *)
(* offsets: a row holds the number its wall clock shows.                   *)
(***************************************************************************)
EXTENDS Cron

CONSTANTS ScheduleIds,
          ScheduleCrons,  \* expressions of these schedules
          CronSamples,    \* expressions, valid or not, to try next_fire with
          CronText(_),    \* the fields of an expression
          Offset(_, _),   \* of the zone of an expression from UTC, at an instant
          Dawn, Horizon,  \* the clock starts and stops here
          CronSpan,       \* next_fire is compared with matches up to here
          MaxCalls,       \* endpoints and command lines called: a bound
          MaxDowns        \* how often the server process dies: a bound

ASSUME ScheduleAssumption ==
  /\ {Dawn, Horizon, CronSpan, MaxCalls, MaxDowns} \subseteq Nat
  /\ Dawn <= Horizon /\ Horizon <= CronSpan
  /\ ScheduleCrons \subseteq CronSamples

\* What a clock in the zone of the expression shows.
Wall(c, t) == t + Offset(c, t)

ASSUME ZoneAssumption ==
  \A c \in CronSamples : \A t \in Dawn..Horizon :
     Offset(c, t) \in Int /\ Wall(c, t) \in 0..CronSpan

\* A zone that is never west of UTC.
NeverBehind(c) == \A t \in Dawn..Horizon : Offset(c, t) >= 0

VARIABLES clock,       \* of UTC
          schedules,   \* the table
          loop,        \* LiteScheduler
          admin,       \* a set_paused between its SELECT and its UPDATE
          calls,       \* calls made
          downs,       \* times the process has died
          ran,         \* ghost: the last slot of each schedule a task was made for
          again,       \* ghost: schedules that ran the same slot or an earlier one once more
          behind,      \* ghost: schedules that had an expression in a zone behind UTC
          quietSince   \* ghost: when a schedule was paused or deleted

scheduleVars == <<clock, schedules, loop, admin, calls, downs, ran, again, behind, quietSince>>

NoRow == [cron |-> "none", paused |-> FALSE, next |-> Never]
NoAdmin == [id |-> "none", paused |-> FALSE, next |-> Never]

\* next_fire of every valid expression, from wall clock to wall clock.
ValidCrons == {c \in CronSamples : IsCron(CronText(c))}
NextRun == [c \in ValidCrons |-> [t \in 0..CronSpan |-> NextFire(CronText(c), t)]]
NextAt(c) == NextRun[c][Wall(c, clock)]

ScheduleInit ==
  /\ clock = Dawn
  /\ schedules = [i \in ScheduleIds |-> NoRow]
  /\ loop = [pc |-> "sleep", todo |-> {}, at |-> NoRow]
  /\ admin = NoAdmin
  /\ calls = 0 /\ downs = 0
  /\ ran = [i \in ScheduleIds |-> Never]
  /\ again = {} /\ behind = {}
  /\ quietSince = [i \in ScheduleIds |-> Never]

\* A set_paused takes less than half a minute.
PassTime ==
  /\ clock < Horizon
  /\ admin = NoAdmin
  /\ clock' = clock + 1
  /\ UNCHANGED <<schedules, loop, admin, calls, downs, ran, again, behind, quietSince>>

-----------------------------------------------------------------------------
(* create_schedule, set_paused, delete_schedule *)

Exists(i) == schedules[i].cron # "none"
Called == calls < MaxCalls /\ calls' = calls + 1

\* An upsert; last_run_at, last_task_id and run_count only inform.
CreateSchedule(i) ==
  /\ Called
  /\ \E c \in ScheduleCrons \cap ValidCrons :
        /\ NextAt(c) # Never
        /\ schedules' = [schedules EXCEPT ![i] =
             [cron |-> c, paused |-> FALSE, next |-> NextAt(c)]]
        /\ behind' = IF NeverBehind(c) THEN behind ELSE behind \cup {i}
  /\ quietSince' = [quietSince EXCEPT ![i] = Never]
  /\ UNCHANGED <<clock, loop, admin, downs, ran, again>>

\* Mutant: resuming keeps the next_run_at the schedule was paused with.
ResumeAsLeft(i) ==
  /\ Called /\ admin = NoAdmin /\ Exists(i)
  /\ \E p \in BOOLEAN :
        admin' = [id |-> i, paused |-> p, next |-> schedules[i].next]
  /\ UNCHANGED <<clock, schedules, loop, downs, ran, again, behind, quietSince>>

SelectForPause(i) ==
  /\ Called /\ admin = NoAdmin /\ Exists(i)
  /\ \E p \in BOOLEAN :
        admin' = [id |-> i, paused |-> p,
                  next |-> IF p THEN Never ELSE NextAt(schedules[i].cron)]
  /\ UNCHANGED <<clock, schedules, loop, downs, ran, again, behind, quietSince>>

\* A row deleted in between stays deleted.
UpdatePaused ==
  /\ admin # NoAdmin
  /\ admin' = NoAdmin
  /\ LET i == admin.id
     IN  IF Exists(i)
         THEN /\ schedules' = [schedules EXCEPT
                    ![i] = [@ EXCEPT !.paused = admin.paused, !.next = admin.next]]
              /\ quietSince' = [quietSince EXCEPT
                    ![i] = IF ~admin.paused THEN Never
                           ELSE IF @ = Never THEN clock ELSE @]
         ELSE UNCHANGED <<schedules, quietSince>>
  /\ UNCHANGED <<clock, loop, calls, downs, ran, again, behind>>

DeleteSchedule(i) ==
  /\ Called /\ Exists(i)
  /\ schedules' = [schedules EXCEPT ![i] = NoRow]
  /\ quietSince' = [quietSince EXCEPT ![i] = IF @ = Never THEN clock ELSE @]
  /\ UNCHANGED <<clock, loop, admin, downs, ran, again, behind>>

-----------------------------------------------------------------------------
(* LiteScheduler.tick *)

\* Mutant: paused schedules are due too.
DueEvenPaused ==
  {i \in ScheduleIds : Exists(i) /\ schedules[i].next # Never /\ schedules[i].next <= clock}

Due ==
  {i \in ScheduleIds : /\ Exists(i) /\ ~schedules[i].paused
                       /\ schedules[i].next # Never /\ schedules[i].next <= clock}

ReadDue ==
  /\ loop.pc = "sleep"
  /\ Due # {}
  /\ loop' = [loop EXCEPT !.pc = "fire",
                !.todo = {[id |-> i, cron |-> schedules[i].cron, slot |-> schedules[i].next] :
                            i \in Due}]
  /\ UNCHANGED <<clock, schedules, admin, calls, downs, ran, again, behind, quietSince>>

Sleeping == [pc |-> "sleep", todo |-> {}, at |-> NoRow]

\* Mutant: the row is advanced after the task is made.
ClaimNothing ==
  /\ loop.pc = "fire"
  /\ \E d \in loop.todo : loop' = [pc |-> "mint", todo |-> loop.todo \ {d}, at |-> d]
  /\ UNCHANGED <<clock, schedules, admin, calls, downs, ran, again, behind, quietSince>>

\* mark_fired, oldest first: by id, from the cron that was read, paused or not.
Claim ==
  /\ loop.pc = "fire"
  /\ \E d \in loop.todo :
        /\ \A e \in loop.todo : d.slot <= e.slot
        /\ loop' = [pc |-> "mint", todo |-> loop.todo \ {d}, at |-> d]
        /\ schedules' = [schedules EXCEPT ![d.id] =
             IF ~Exists(d.id) THEN @
             ELSE [@ EXCEPT !.next = NextAt(d.cron)]]
  /\ UNCHANGED <<clock, admin, calls, downs, ran, again, behind, quietSince>>

\* create_task returns an id, whether or not the task could be started.
MintRun ==
  /\ loop.pc = "mint"
  /\ ran' = [ran EXCEPT ![loop.at.id] = loop.at.slot]
  /\ again' = IF loop.at.slot <= ran[loop.at.id] THEN again \cup {loop.at.id} ELSE again
  /\ loop' = IF loop.todo = {} THEN Sleeping ELSE [loop EXCEPT !.pc = "fire", !.at = NoRow]
  /\ UNCHANGED <<clock, schedules, admin, calls, downs, behind, quietSince>>

\* create_task raises: _run reports it and sleeps, the other due rows wait for the
\* next tick.  The claimed run is lost.
FailTick ==
  /\ loop.pc = "mint"
  /\ loop' = Sleeping
  /\ UNCHANGED <<clock, schedules, admin, calls, downs, ran, again, behind, quietSince>>

\* The process dies, or stop() cancels the loop at an await.
StopServer ==
  /\ loop.pc # "down" /\ downs < MaxDowns
  /\ downs' = downs + 1
  /\ loop' = [pc |-> "down", todo |-> {}, at |-> NoRow]
  /\ UNCHANGED <<clock, schedules, admin, calls, ran, again, behind, quietSince>>

StartServer ==
  /\ loop.pc = "down"
  /\ loop' = Sleeping
  /\ UNCHANGED <<clock, schedules, admin, calls, downs, ran, again, behind, quietSince>>

TickProgress == ReadDue \/ Claim \/ MintRun \/ FailTick \/ StartServer

ScheduleNext ==
  \/ PassTime \/ UpdatePaused \/ StopServer \/ TickProgress
  \/ \E i \in ScheduleIds : CreateSchedule(i) \/ SelectForPause(i) \/ DeleteSchedule(i)

\* The loop ticks as long as the server is up, and somebody starts it again.
ScheduleFairness == WF_scheduleVars(TickProgress)

ScheduleSpec == ScheduleInit /\ [][ScheduleNext]_scheduleVars
FairScheduleSpec == ScheduleSpec /\ ScheduleFairness

-----------------------------------------------------------------------------

\* No slot is run twice, whatever is paused, resumed, re-created, and wherever the
\* server dies: a run is claimed before its task is made.  This needs zones that are
\* never behind UTC, whose next slot is always later than the clock it is compared with.
SlotRunsOnce == again \subseteq behind

FirstFiring ==
  [c \in ValidCrons |-> [t \in 0..CronSpan |->
     LET fires == {u \in (t + 2)..((DayOf(t + 2) + MaxScanDays) * PerDay - 1) :
                     Fires(CronText(c), u)}
     IN  IF fires = {} THEN Never ELSE CHOOSE u \in fires : \A v \in fires : u <= v]]

\* What next_fire gives is, on the wall clock of the expression's zone, the first time
\* from one minute on at which matches says that the expression fires.
NextFireIsFirst ==
  \A t \in clock..(clock + CronSpan - Horizon), c \in ValidCrons :
     NextRun[c][t] = FirstFiring[c][t]

\* A schedule that was paused or deleted runs at most what was already due then, as
\* due_schedules compares.
PauseHolds ==
  [][\A i \in ScheduleIds :
        ran'[i] # ran[i] /\ quietSince[i] # Never => ran'[i] <= quietSince[i]]_scheduleVars

\* A due schedule is claimed, or no longer due: one whose task cannot be made does not
\* keep the others from their turn.  One behind UTC does, it is the oldest again.
DueIsClaimed ==
  \A i \in ScheduleIds : (i \in Due) ~> (i \notin Due \/ behind # {})

\* "Missed, never duplicated" (lite/scheduler.py:19), of a schedule in any zone.
NeverDuplicated == again = {}

\* "The next instant the expression fires strictly AFTER `after`" (core/cron.py:271):
\* none lies between the two.
NoSlotSkipped ==
  \A c \in ValidCrons :
     \A t \in (Wall(c, clock) + 1)..(NextAt(c) - 1) : ~Fires(CronText(c), t)

\* The same of instants a minute ahead, which matches reads on the wall clock as well.
NoInstantSkipped ==
  \A c \in ValidCrons, u \in (clock + 2)..Horizon :
     Fires(CronText(c), Wall(c, u)) => \E v \in (clock + 1)..u : Wall(c, v) = NextAt(c)
=============================================================================
