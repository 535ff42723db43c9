------------------------------ MODULE Dependence ------------------------------
(***************************************************************************)
(* TaskTrigger.parseDependence: the ids of the tasks a task waits for.  A  *)
(* project declares rules "project:(hour(-2)+60, 3)": the last three       *)
(* firings of that project before a base time, which is the lunchtime cut  *)
(* to the hour, less two hours, plus sixty seconds.                        *)
(***************************************************************************)
EXTENDS Crontab

CONSTANTS
  Unit,         \* ticks of a "second", "minute", "hour" and "day"
  IntLimit      \* 2^31, the bound of a Java int

ASSUME UnitAssumption ==
  /\ Unit \in [{"second", "minute", "hour", "day"} -> Nat \ {0}]
  /\ IntLimit \in Nat \ {0}

\* Mutant: nothing is cut off.
TruncateExact(time, unit) == time

Truncate(time, unit) == time - (time % Unit[unit])

Wrap(x) == ((x + IntLimit) % (2 * IntLimit)) - IntLimit

\* second, minute and hour move the time; day forgets it.
BaseTime(unit, time, delta) ==
  IF unit = "day" THEN delta * Unit["day"]
                  ELSE Truncate(time, unit) + delta * Unit[unit]

Capped(time, lunch) == IF time > lunch THEN lunch ELSE time

RuleBase(rule, lunch) ==
  Capped(BaseTime(rule.unit, lunch, rule.delta)
           + Wrap(rule.offset * Unit["second"]), lunch)

\* The occurrences of the project with the given times that a rule names.
RuleTimes(rule, times, lunch) ==
  TimeBefore(times, RuleBase(rule, lunch), rule.count)

\* Mutant: the workers are counted from 1.
IdsFromOne(project, time, num) ==
  {<<project, Truncate(time, "second"), j>> : j \in 1..num}

\* md5(project @ time in seconds) # worker
Ids(project, time, num) ==
  {<<project, Truncate(time, "second"), j>> : j \in 0..(num - 1)}

\* times and num give the crontab and num_workers of the projects in the map
\* that have a crontab.  A rule on any other project is dropped.
Required(rules, times, num, lunch) ==
  LET usable == {r \in rules : r.project \in DOMAIN times}
  IN  UNION {UNION {Ids(r.project, t, num[r.project]) :
                      t \in RuleTimes(r, times[r.project], lunch)} : r \in usable}
=============================================================================
