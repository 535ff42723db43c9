--------------------------- MODULE ProjectExecutor ---------------------------
(***************************************************************************)
(* ProjectExecutor.execute: a project's job fires, and one INIT row is     *)
(* written for each of its workers.  Firings of one project and of several *)
(* run at the same time on the threads of Quartz.  They share the static   *)
(* SimpleDateFormat, whose calendar format() first sets and then reads,    *)
(* and the project object, which ProjectScanner overwrites.                *)
(*                                                                         *)
(* The ids of the rows are what TaskTrigger recomputes (Dependence) when   *)
(* it looks for the tasks another task requires.                           *)
(***************************************************************************)
EXTENDS Dependence

CONSTANTS
  Projects,
  Cron,         \* project -> occurrences of its crontab, past ones included;
                \* for a project without one, the time it is scheduled for
  Crontabs,     \* projects with a crontab
  NumWorkers,   \* project -> num_workers at first
  Rules,        \* project -> its dependence
  Resizes,      \* <<project, num_workers>> that users write
  Start,        \* the process starts, after all past occurrences
  MaxLag,       \* a firing is named this late at most
  Horizon,      \* bound on the clock
  MaxFaults     \* bound on failed saves and scripts

ASSUME ExecutorAssumption ==
  /\ Start \in Int /\ Horizon \in Int /\ Start <= Horizon
  /\ MaxLag \in Nat /\ MaxFaults \in Nat
  /\ Cron \in [Projects -> SUBSET Int]
  /\ Crontabs \subseteq Projects
  /\ NumWorkers \in [Projects -> Nat]
  /\ Resizes \subseteq Projects \X Nat
  /\ \A p \in Projects : \A r \in Rules[p] :
       r.unit \in DOMAIN Unit /\ r.delta \in Int /\ r.offset \in Int /\ r.count \in Nat

\* What Quartz fires while the process lives.
Firings == {f \in [project : Projects, time : Start..Horizon] :
              f.time \in Cron[f.project]}

VARIABLES
  now,
  calendar,     \* the time set in the shared date format
  numWorkers,   \* project -> num_workers in the shared project object
  pc, lunch, name, worker,    \* firing -> where its thread is, its locals
  rows,         \* id -> lunchtime and status columns, for the rows there are
  faults

threadVars == <<pc, lunch, name, worker>>
vars == <<now, calendar, numWorkers, threadVars, rows, faults>>

WholeSeconds == {t \in Int : t % Unit["second"] = 0}

\* Ids are made of whole seconds.
TypeOK ==
  /\ now \in Start..Horizon
  /\ calendar \in Int
  /\ numWorkers \in [Projects -> Nat]
  /\ pc \in [Firings -> {"waiting", "set", "read", "save", "done"}]
  /\ lunch \in [Firings -> Int] /\ name \in [Firings -> WholeSeconds]
  /\ worker \in [Firings -> Nat]
  /\ \A id \in DOMAIN rows :
       /\ id \in Projects \X WholeSeconds \X Nat
       /\ rows[id] \in [lunchtime : Int, status : {"INIT", "ACTIVE"}]
  /\ faults \in 0..MaxFaults

Init ==
  /\ now = Start /\ calendar = 0 /\ faults = 0
  /\ numWorkers = NumWorkers
  /\ pc = [f \in Firings |-> "waiting"]
  /\ lunch = [f \in Firings |-> 0] /\ name = [f \in Firings |-> 0]
  /\ worker = [f \in Firings |-> 0]
  /\ rows = [id \in {} |-> 0]

Fault == faults < MaxFaults /\ faults' = faults + 1

-----------------------------------------------------------------------------
(* One firing *)

\* Mutant: the occurrence that fires does not count as past.
LunchTimeBefore(p, fireTime) ==
  LET past == TimeBefore(Cron[p], fireTime, 1)
  IN  IF p \in Crontabs /\ past # {} THEN CHOOSE t \in past : TRUE ELSE fireTime

\* The last occurrence before the millisecond after the real fire time.
LunchTime(p, fireTime) ==
  LET past == TimeBefore(Cron[p], fireTime + 1, 1)
  IN  IF p \in Crontabs /\ past # {} THEN CHOOSE t \in past : TRUE ELSE fireTime

Step(f, from, to) == pc[f] = from /\ pc' = [pc EXCEPT ![f] = to]

\* Quartz fires the occurrences of a project in order.
Fire(f) ==
  /\ f.time <= now
  /\ \A g \in Firings :
       g.project = f.project /\ g.time < f.time => pc[g] # "waiting"
  /\ Step(f, "waiting", "set")
  /\ lunch' = [lunch EXCEPT ![f] = LunchTime(f.project, now)]
  /\ UNCHANGED <<now, calendar, numWorkers, name, worker, rows, faults>>

\* df.format, first half.
SetCalendar(f) ==
  /\ Step(f, "set", "read")
  /\ calendar' = lunch[f]
  /\ UNCHANGED <<now, numWorkers, lunch, name, worker, rows, faults>>

\* df.format, second half: whole seconds.
ReadCalendar(f) ==
  /\ Step(f, "read", "save")
  /\ name' = [name EXCEPT ![f] = Truncate(calendar, "second")]
  /\ UNCHANGED <<now, calendar, numWorkers, lunch, worker, rows, faults>>

\* args_script throws: the firing is lost.
ScriptThrows(f) ==
  /\ Step(f, "save", "done") /\ worker[f] = 0
  /\ Fault
  /\ UNCHANGED <<now, calendar, numWorkers, lunch, name, worker, rows>>

TaskId(f) == <<f.project, name[f], worker[f]>>

\* REPLACE INTO taskdb, whatever the row said before.
Insert(id, row) ==
  rows' = [x \in DOMAIN rows \cup {id} |-> IF x = id THEN row ELSE rows[x]]

\* Mutant: the loop stops one early.
MoreWorkersUnder(f) == worker[f] + 1 < numWorkers[f.project]

MoreWorkers(f) == worker[f] < numWorkers[f.project]

SaveWorker(f) ==
  /\ pc[f] = "save" /\ MoreWorkers(f)
  /\ \/ /\ Insert(TaskId(f), [lunchtime |-> lunch[f], status |-> "INIT"])
        /\ UNCHANGED faults
     \/ Fault /\ UNCHANGED rows
  /\ worker' = [worker EXCEPT ![f] = @ + 1]
  /\ UNCHANGED <<now, calendar, numWorkers, pc, lunch, name>>

Finish(f) ==
  /\ Step(f, "save", "done") /\ ~MoreWorkers(f)
  /\ UNCHANGED <<now, calendar, numWorkers, lunch, name, worker, rows, faults>>

Execute(f) == \/ Fire(f) \/ SetCalendar(f) \/ ReadCalendar(f)
              \/ ScriptThrows(f) \/ SaveWorker(f) \/ Finish(f)

-----------------------------------------------------------------------------
(* The environment *)

Unnamed(f) == f.time <= now /\ pc[f] \in {"waiting", "set", "read"}

Tick ==
  /\ now < Horizon
  /\ \A f \in Firings : Unnamed(f) => now < f.time + MaxLag
  /\ now' = now + 1
  /\ UNCHANGED <<calendar, numWorkers, threadVars, rows, faults>>

\* TaskTrigger releases the task.
Release(id) ==
  /\ rows[id].status = "INIT"
  /\ rows' = [rows EXCEPT ![id].status = "ACTIVE"]
  /\ UNCHANGED <<now, calendar, numWorkers, threadVars, faults>>

\* ProjectScanner copies a row a user has edited into the shared object.
Resize(p, n) ==
  /\ numWorkers[p] # n
  /\ numWorkers' = [numWorkers EXCEPT ![p] = n]
  /\ UNCHANGED <<now, calendar, threadVars, rows, faults>>

-----------------------------------------------------------------------------
Next ==
  \/ \E f \in Firings : Execute(f)
  \/ Tick
  \/ \E id \in DOMAIN rows : Release(id)
  \/ \E r \in Resizes : Resize(r[1], r[2])

\* Time passes and some thread of Quartz runs, whichever: a firing has
\* finitely many steps.
Fairness == WF_vars(Tick) /\ WF_vars(\E f \in Firings : Execute(f))

Spec == Init /\ [][Next]_vars
FairSpec == Spec /\ Fairness

-----------------------------------------------------------------------------
(* Properties *)

\* A row is named by the whole second of its lunchtime, and that is the
\* occurrence that fired, not the one before it or that of another project:
\* for firings that are named within a second, however they overlap.
NamedByOccurrence ==
  \A id \in DOMAIN rows :
    /\ id[2] = Truncate(rows[id].lunchtime, "second")
    /\ id[1] \in Crontabs => \E f \in Firings :
         f.project = id[1] /\ f.time = rows[id].lunchtime /\ pc[f] \in {"save", "done"}

\* A row that was released is not written again by a later firing: its task
\* would be released a second time.
NoRowReset ==
  [][\A id \in DOMAIN rows : rows[id].status = "ACTIVE" =>
       rows'[id].status = "ACTIVE"]_vars

\* Every occurrence gets a row for each worker, as many as the project always
\* had while users edited num_workers, unless a save or a script failed.
AlwaysHas(p, j) ==
  j < NumWorkers[p] /\ \A r \in Resizes : r[1] = p => j < r[2]

RowOf(f, j) == \E id \in DOMAIN rows :
  /\ id[1] = f.project /\ id[3] = j
  /\ f.project \in Crontabs => id[2] = f.time

FiringComplete ==
  \A f \in Firings : \A j \in 0..NumWorkers[f.project] :
    AlwaysHas(f.project, j) =>
      (f.time <= now ~> RowOf(f, j) \/ faults > 0)

\* The ids TaskTrigger looks for on behalf of a row, but for firings from
\* before the process started.
Dependences(id) ==
  {u \in Required(Rules[id[1]], [p \in Crontabs |-> Cron[p]], numWorkers,
                  Truncate(rows[id].lunchtime, "second")) : u[2] >= Start}

\* The tasks a task waits for exist: once the earlier firings are over, the
\* ids TaskTrigger computes from a dependence rule are ids they have written.
RequiredRowsExist ==
  \A id \in DOMAIN rows :
    /\ faults = 0
    /\ \A f \in Firings : f.time < rows[id].lunchtime => pc[f] = "done"
    => Dependences(id) \subseteq DOMAIN rows

\* The reference for a rule: the last occurrences before its base, which lies
\* as far from the lunchtime as the rule says, but not after it.
LatestBefore(times, base, count) ==
  LET past == {t \in times : base - Windows[Len(Windows)] < t /\ t < base}
  IN  IF Cardinality(past) < count THEN {} ELSE Newest(past, count)

Moved(rule, time) ==
  Truncate(time, rule.unit) + rule.delta * Unit[rule.unit]
    + rule.offset * Unit["second"]

\* A task waits for the last occurrences before the base of its rule
\* (comment "projectId basetime, count").
RequiresLatest ==
  \A id \in DOMAIN rows : \A r \in Rules[id[1]] :
    LET time == Truncate(rows[id].lunchtime, "second")
        base == IF Moved(r, time) > time THEN time ELSE Moved(r, time)
    IN  r.project \in Crontabs =>
          RuleTimes(r, Cron[r.project], time)
            = LatestBefore(Cron[r.project], base, r.count)
=============================================================================
