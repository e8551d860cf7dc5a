-------------------------------- MODULE Cron --------------------------------
(***************************************************************************)
(* core/cron.py: cron expressions and the instant they fire next.  Pure.   *)
(*                                                                         *)
(* The calendar is scaled down by constants and an instant is a number of  *)
(* half minutes, so that an instant inside a minute exists.  A raw field   *)
(* is a set of list elements a-b/step (a single value is a-a, `*' and      *)
(* `*/step' span the field); names and macros only rename values and are   *)
(* left out.  next_fire reads and steps the wall clock of the expression's *)
(* zone and never UTC: an instant here is what that clock shows.  Zones    *)
(* are in Schedules.                                                       *)
(***************************************************************************)
EXTENDS Integers, FiniteSets

CONSTANTS MinutesPerHour, HoursPerDay, DaysPerMonth, MonthsPerYear, DaysPerWeek,
          MaxScanDays  \* how far next_fire looks

ASSUME CalendarAssumption ==
  /\ {MinutesPerHour, HoursPerDay, DaysPerMonth, MonthsPerYear, DaysPerWeek} \subseteq Nat \ {0}
  /\ MaxScanDays \in Nat

Never == -1

CronFields == {"minute", "hour", "dom", "month", "dow"}

Lowest(field) == IF field \in {"dom", "month"} THEN 1 ELSE 0
Highest(field) ==
  CASE field = "minute" -> MinutesPerHour - 1
    [] field = "hour" -> HoursPerDay - 1
    [] field = "dom" -> DaysPerMonth
    [] field = "month" -> MonthsPerYear
    [] field = "dow" -> DaysPerWeek - 1

-----------------------------------------------------------------------------
(* _expand_field *)

EveryNth(from, to, nth) == {v \in from..to : (v - from) % nth = 0}

\* A range that wraps goes on from the bottom of the field.
ExpandPart(p, field) ==
  LET lo == Lowest(field)
      hi == Highest(field)
      offset == (p.from - lo) % p.step
  IN  IF p.from <= p.to THEN EveryNth(p.from, p.to, p.step)
      ELSE EveryNth(p.from, hi, p.step) \cup EveryNth(lo + ((offset - lo) % p.step), p.to, p.step)

\* The number after the last weekday means Sunday too; other values stay and are errors.
ExpandField(raw, field) ==
  LET values == UNION {ExpandPart(p, field) : p \in raw.parts}
  IN  IF field = "dow" THEN {IF v = DaysPerWeek THEN 0 ELSE v : v \in values} ELSE values

\* validate_cron: parse raises nothing.
IsCron(expr) ==
  \A f \in CronFields :
     /\ \A p \in expr[f].parts : p.step >= 1
     /\ ExpandField(expr[f], f) \subseteq Lowest(f)..Highest(f)

\* parse: only a bare * is no restriction.
Parse(expr) ==
  [values |-> [f \in CronFields |-> ExpandField(expr[f], f)],
   domRestricted |-> ~expr["dom"].bareStar,
   dowRestricted |-> ~expr["dow"].bareStar]

-----------------------------------------------------------------------------
(* The calendar, and _date_matches, next_fire, matches *)

PerDay == 2 * MinutesPerHour * HoursPerDay
DayOf(t) == t \div PerDay
InstantAt(day, hour, minute) == day * PerDay + 2 * (hour * MinutesPerHour + minute)

DomOf(day) == (day % DaysPerMonth) + 1
MonthOf(day) == ((day \div DaysPerMonth) % MonthsPerYear) + 1
DowOf(day) == day % DaysPerWeek

DateMatches(spec, day) ==
  LET dom == DomOf(day) \in spec.values["dom"]
      dow == DowOf(day) \in spec.values["dow"]
  IN  /\ MonthOf(day) \in spec.values["month"]
      /\ IF spec.domRestricted /\ spec.dowRestricted THEN dom \/ dow
         ELSE (spec.domRestricted => dom) /\ (spec.dowRestricted => dow)

\* Mutant: the slots of a day are not compared with the time of day.
NextFireSameDay(expr, after) ==
  LET spec == Parse(expr)
      first == DayOf(after + 2)
      fires == {InstantAt(d, h, m) : d \in {d \in first..(first + MaxScanDays - 1) :
                                              DateMatches(spec, d)},
                                     h \in spec.values["hour"], m \in spec.values["minute"]}
  IN  IF fires = {} THEN Never ELSE CHOOSE t \in fires : \A u \in fires : t <= u

\* The slots of the scanned days that are no earlier than after plus one minute:
\* seconds are not cut off.
NextFire(expr, after) ==
  LET spec == Parse(expr)
      floor == after + 2
      days == {d \in DayOf(floor)..(DayOf(floor) + MaxScanDays - 1) : DateMatches(spec, d)}
      fires == {t \in {InstantAt(d, h, m) : d \in days, h \in spec.values["hour"],
                                            m \in spec.values["minute"]} : t >= floor}
  IN  IF fires = {} THEN Never ELSE CHOOSE t \in fires : \A u \in fires : t <= u

\* matches: the expression fires at this instant.
Fires(expr, t) ==
  LET spec == Parse(expr)
  IN  /\ t % 2 = 0
      /\ (t \div 2) % MinutesPerHour \in spec.values["minute"]
      /\ (t \div (2 * MinutesPerHour)) % HoursPerDay \in spec.values["hour"]
      /\ DateMatches(spec, DayOf(t))
=============================================================================
