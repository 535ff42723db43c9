----------------------------- MODULE TaskTrigger -----------------------------
(***************************************************************************)
(* TaskTrigger: initLoad at start-up and execute every 20 seconds, with    *)
(* the TaskCache singleton.  Tasks that are INIT are released to the queue *)
(* when their time has come and their dependences are met, or parked in    *)
(* the cache as CHECKING under the time of their next check.               *)
(*                                                                         *)
(* Time is counted in ticks, the resolution of the clock and of the keys   *)
(* of the cache; the timestamp columns of taskdb hold whole seconds.       *)
(*                                                                         *)
(* ProjectExecutor, WorkTrigger and the users are the environment.         *)
(***************************************************************************)
EXTENDS ZeusStore, FiniteSets

CONSTANTS
  NoTask,
  Requires,       \* task -> the tasks its project's dependence names
  Lunch,          \* task -> lunchtime
  Delay,          \* project -> delay
  Delta,          \* conf.task.trigger.triggerDelta
  Ignore,         \* conf.task.trigger.ignore
  TicksPerSecond,
  Horizon,        \* bound on the clock
  MaxCrashes,     \* bound on crashes
  Edits           \* statuses users write to projectdb

ASSUME TriggerAssumption ==
  /\ NoTask \notin Tasks
  /\ Requires \in [Tasks -> SUBSET Tasks]
  /\ Lunch \in [Tasks -> Nat]
  /\ Delay \in [Projects -> Nat]
  /\ TicksPerSecond \in Nat \ {0}
  /\ Delta \in Nat /\ Delta >= TicksPerSecond
  /\ Ignore \in Nat /\ Horizon \in Nat /\ MaxCrashes \in Nat
  /\ Edits \subseteq ProjectStatus

VARIABLES
  now,            \* the clock
  triggertime,    \* task -> triggertime column of its row
  pc,             \* where the scheduler's thread is
  cache,          \* TaskCache: a finite function from times to tasks
  projectMap,     \* _projectMap, as statuses
  initTasks,      \* _initTaskMap entries not yet visited
  okTasks,        \* _successOrPassedTaskSet
  hand,           \* the task whose row was saved ACTIVE, to be pushed next
  crashes,        \* crashes so far
  pushed,         \* task -> times it was pushed (history)
  lost            \* tasks another task replaced in the cache (history)

memory == <<cache, projectMap, initTasks, okTasks, hand>>
history == <<pushed, lost>>
vars == <<storeVars, now, triggertime, pc, memory, crashes, history>>

RowStatus == TaskStatus \cup {"NONE"}   \* NONE: not inserted yet

OkStatus == {"SUCCESS", "PASSED"}

TypeOK ==
  /\ taskdb \in [Tasks -> RowStatus]
  /\ projectdb \in [Projects -> ProjectStatus]
  /\ queue \in Seq([task : Tasks, retry : Nat])
  /\ faults \in 0..MaxFaults
  /\ now \in 0..Horizon
  /\ triggertime \in [Tasks -> Nat]
  /\ pc \in {"down", "idle", "readInit", "readOk", "init", "pushInit",
             "cache", "pushCache"}
  /\ DOMAIN cache \subseteq Nat /\ \A k \in DOMAIN cache : cache[k] \in Tasks
  /\ projectMap \in [Projects -> ProjectStatus]
  /\ initTasks \subseteq Tasks /\ okTasks \subseteq Tasks
  /\ hand \in Tasks \cup {NoTask}
  /\ crashes \in 0..MaxCrashes
  /\ pushed \in [Tasks -> Nat]
  /\ lost \subseteq Tasks

Empty == [k \in {} |-> NoTask]
NoProjects == [p \in Projects |-> "ABSENT"]

Init ==
  /\ taskdb = [t \in Tasks |-> "NONE"]
  /\ projectdb = [p \in Projects |-> "RUNNING"]
  /\ queue = <<>> /\ faults = 0
  /\ now = 0
  /\ triggertime = [t \in Tasks |-> 0]
  /\ pc = "down"
  /\ cache = Empty /\ projectMap = NoProjects
  /\ initTasks = {} /\ okTasks = {} /\ hand = NoTask
  /\ crashes = 0
  /\ pushed = [t \in Tasks |-> 0] /\ lost = {}

-----------------------------------------------------------------------------
(* The cache and the checks *)

\* Mutant: the put is forgotten.
PutCacheNot(c, k, t) == c

PutCache(c, k, t) ==
  [x \in DOMAIN c \cup {k} |-> IF x = k THEN t ELSE c[x]]

FirstKey(c) == CHOOSE k \in DOMAIN c : \A x \in DOMAIN c : k <= x

\* Mutant: the entry stays.
PollFirstNot(c) == c

PollFirst(c) == [k \in DOMAIN c \ {FirstKey(c)} |-> c[k]]

\* The task a put at k would throw out of c.
Replaced(c, k, t) == {c[x] : x \in DOMAIN c \cap {k}} \ {t}

\* Mutant: the operands of the difference are swapped.
TruncateSwapped(time) == (time % TicksPerSecond) - time

Truncate(time) == time - (time % TicksPerSecond)

Project(t) == projectMap[ProjectOf[t]]

\* parseDependence: requirements on a project that is not in the map, and
\* rules that cannot be parsed, are dropped.
Required(t) == {u \in Requires[t] : projectMap[ProjectOf[u]] # "ABSENT"}

CheckTask(t) == Required(t) \subseteq okTasks

\* Mutant: the delay of the project is left out.
TimeHasComeEarly(t) == Lunch[t] < now

TimeHasCome(t) == Lunch[t] + Delay[ProjectOf[t]] < now

TooOld(t) == Lunch[t] + Ignore <= now

\* Mutant: the row is not saved.
SaveCheckingNot(t, k) == UNCHANGED <<taskdb, triggertime, faults>>

\* A row saved CHECKING carries the time of its next check.
SaveChecking(t, k) ==
  \/ /\ taskdb' = [taskdb EXCEPT ![t] = "CHECKING"]
     /\ triggertime' = [triggertime EXCEPT ![t] = Truncate(k)]
     /\ UNCHANGED faults
  \/ Fault /\ UNCHANGED <<taskdb, triggertime>>

Park(t, k, c) ==
  /\ cache' = PutCache(c, k, t)
  /\ lost' = lost \cup Replaced(c, k, t)
  /\ SaveChecking(t, k)

-----------------------------------------------------------------------------
(* initLoad *)

Checking == {t \in Tasks : taskdb[t] = "CHECKING"}

\* Rows with one triggertime end up under one key; any of them may be last.
Loaded(rows) ==
  LET keys == {triggertime[t] : t \in rows}
  IN  {c \in [keys -> rows] : \A k \in keys : triggertime[c[k]] = k}

InitLoad ==
  /\ pc = "down"
  /\ \/ \E c \in Loaded(Checking) :
          /\ cache' = c
          /\ lost' = lost \cup (Checking \ {c[k] : k \in DOMAIN c})
          /\ UNCHANGED faults
     \/ Fault /\ cache' = Empty /\ UNCHANGED lost
  /\ pc' = "idle"
  /\ UNCHANGED <<taskdb, projectdb, queue, now, triggertime, projectMap,
                 initTasks, okTasks, hand, crashes, pushed>>

-----------------------------------------------------------------------------
(* execute: the three queries *)

\* What a SELECT yields; after an SQLException, no rows.
Read(rows, result) == \/ result = rows /\ UNCHANGED faults
                      \/ Fault /\ result = {}

LoadProjects ==
  /\ pc = "idle"
  /\ \/ projectMap' = projectdb /\ UNCHANGED faults
     \/ Fault /\ projectMap' = NoProjects
  /\ pc' = "readInit"
  /\ UNCHANGED <<taskdb, projectdb, queue, now, triggertime, cache, initTasks,
                 okTasks, hand, crashes, history>>

LoadInitTasks ==
  /\ pc = "readInit"
  /\ Read({t \in Tasks : taskdb[t] = "INIT"}, initTasks')
  /\ pc' = "readOk"
  /\ UNCHANGED <<taskdb, projectdb, queue, now, triggertime, cache, projectMap,
                 okTasks, hand, crashes, history>>

\* Mutant: a failed task counts as well.
SuccessOrPassedTasksOrFailed == {t \in Tasks : taskdb[t] \in OkStatus \cup {"FAIL"}}

SuccessOrPassedTasks == {t \in Tasks : taskdb[t] \in OkStatus}

LoadSuccessOrPassed ==
  /\ pc = "readOk"
  /\ Read(SuccessOrPassedTasks, okTasks')
  /\ pc' = "init"
  /\ UNCHANGED <<taskdb, projectdb, queue, now, triggertime, cache, projectMap,
                 initTasks, hand, crashes, history>>

-----------------------------------------------------------------------------
(* execute: the loop over the INIT tasks *)

Visit(t) ==
  /\ pc = "init" /\ t \in initTasks
  /\ initTasks' = initTasks \ {t}

Orphan(t) ==
  /\ Visit(t) /\ Project(t) = "ABSENT"
  /\ UNCHANGED <<storeVars, now, triggertime, pc, cache, projectMap, okTasks,
                 hand, crashes, history>>

ReleaseInit(t) ==
  /\ Visit(t) /\ Project(t) # "ABSENT"
  /\ TimeHasCome(t) /\ CheckTask(t)
  /\ SaveOneTask(t, "ACTIVE")
  /\ hand' = t
  /\ pc' = "pushInit"
  /\ UNCHANGED <<projectdb, queue, now, triggertime, cache, projectMap,
                 okTasks, crashes, history>>

ParkInit(t) ==
  /\ Visit(t) /\ Project(t) # "ABSENT"
  /\ ~(TimeHasCome(t) /\ CheckTask(t))
  /\ Park(t, now + Delta + Delay[ProjectOf[t]], cache)
  /\ UNCHANGED <<projectdb, queue, now, pc, projectMap, okTasks, hand, crashes,
                 pushed>>

\* Mutant: the task is not pushed.
PushHandNot == hand' = NoTask /\ UNCHANGED <<queue, faults, pushed>>

\* The push; with no Redis handler it is skipped.
PushHand ==
  /\ \/ Push([task |-> hand, retry |-> 0]) /\ pushed' = [pushed EXCEPT ![hand] = @ + 1]
        /\ UNCHANGED faults
     \/ Fault /\ UNCHANGED <<queue, pushed>>
  /\ hand' = NoTask

PushInit ==
  /\ pc = "pushInit"
  /\ PushHand
  /\ pc' = "init"
  /\ UNCHANGED <<taskdb, projectdb, now, triggertime, cache, projectMap,
                 initTasks, okTasks, crashes, lost>>

\* Redis is gone: the exception of rpush leaves execute.
PushThrows ==
  /\ pc \in {"pushInit", "pushCache"}
  /\ Fault
  /\ hand' = NoTask /\ initTasks' = {}
  /\ pc' = "idle"
  /\ UNCHANGED <<taskdb, projectdb, queue, now, triggertime, cache, projectMap,
                 okTasks, crashes, history>>

InitDone ==
  /\ pc = "init" /\ initTasks = {}
  /\ pc' = "cache"
  /\ UNCHANGED <<storeVars, now, triggertime, memory, crashes, history>>

-----------------------------------------------------------------------------
(* execute: the loop over the due entries of the cache *)

FirstDue == cache # Empty /\ FirstKey(cache) < now

\* The loop is at its first entry, which is due, and its task is t.
Check(t) == pc = "cache" /\ FirstDue /\ cache[FirstKey(cache)] = t

ReleaseChecked(t) ==
  /\ Check(t) /\ Project(t) \in Enabled /\ CheckTask(t)
  /\ SaveOneTask(t, "ACTIVE")
  /\ hand' = t
  /\ pc' = "pushCache"
  /\ UNCHANGED <<projectdb, queue, now, triggertime, cache, projectMap,
                 initTasks, okTasks, crashes, history>>

\* The entry leaves the cache after the push.
PushCache ==
  /\ pc = "pushCache"
  /\ PushHand
  /\ cache' = PollFirst(cache)
  /\ pc' = "cache"
  /\ UNCHANGED <<taskdb, projectdb, now, triggertime, projectMap, initTasks,
                 okTasks, crashes, lost>>

ParkAgain(t) ==
  /\ Check(t) /\ Project(t) \in Enabled /\ ~CheckTask(t) /\ ~TooOld(t)
  /\ Park(t, now + Delta, PollFirst(cache))
  /\ UNCHANGED <<projectdb, queue, now, pc, projectMap, initTasks, okTasks,
                 hand, crashes, pushed>>

\* Given up, or the project is stopped, deleted or gone.
Drop(t) ==
  /\ Check(t)
  /\ \/ /\ Project(t) \in Enabled /\ ~CheckTask(t) /\ TooOld(t)
        /\ SaveOneTask(t, "IGNORED")
     \/ Project(t) = "STOP" /\ SaveOneTask(t, "STOP")
     \/ Project(t) \in {"DELETE", "ABSENT"} /\ SaveOneTask(t, "DELETE")
  /\ cache' = PollFirst(cache)
  /\ UNCHANGED <<projectdb, queue, now, triggertime, pc, projectMap, initTasks,
                 okTasks, hand, crashes, history>>

CacheDone ==
  /\ pc = "cache" /\ ~FirstDue
  /\ pc' = "idle"
  /\ UNCHANGED <<storeVars, now, triggertime, memory, crashes, history>>

-----------------------------------------------------------------------------
(* The environment *)

Tick ==
  /\ now < Horizon /\ now' = now + 1
  /\ UNCHANGED <<storeVars, triggertime, pc, memory, crashes, history>>

\* ProjectExecutor inserts the task once its lunchtime has come.
Create(t) ==
  /\ taskdb[t] = "NONE" /\ Lunch[t] <= now
  /\ taskdb' = [taskdb EXCEPT ![t] = "INIT"]
  /\ UNCHANGED <<projectdb, queue, faults, now, triggertime, pc, memory,
                 crashes, history>>

\* A worker takes the head of the queue and settles it.
Work(s) ==
  /\ queue # <<>>
  /\ taskdb' = [taskdb EXCEPT ![Head(queue).task] = s]
  /\ queue' = Tail(queue)
  /\ UNCHANGED <<projectdb, faults, now, triggertime, pc, memory, crashes,
                 history>>

\* A user lets the dependents of a failed task go on.
Pass(t) ==
  /\ taskdb[t] = "FAIL"
  /\ taskdb' = [taskdb EXCEPT ![t] = "PASSED"]
  /\ UNCHANGED <<projectdb, queue, faults, now, triggertime, pc, memory,
                 crashes, history>>

UserEdit(p, s) ==
  /\ EditProject(p, s)
  /\ UNCHANGED <<now, triggertime, pc, memory, crashes, history>>

Crash ==
  /\ pc # "down" /\ crashes < MaxCrashes
  /\ crashes' = crashes + 1
  /\ pc' = "down"
  /\ cache' = Empty /\ projectMap' = NoProjects
  /\ initTasks' = {} /\ okTasks' = {} /\ hand' = NoTask
  /\ UNCHANGED <<storeVars, now, triggertime, history>>

-----------------------------------------------------------------------------
Execute ==
  \/ LoadProjects \/ LoadInitTasks \/ LoadSuccessOrPassed
  \/ \E t \in Tasks : Orphan(t) \/ ReleaseInit(t) \/ ParkInit(t)
  \/ PushInit \/ PushThrows \/ InitDone
  \/ \E t \in Tasks : ReleaseChecked(t) \/ ParkAgain(t) \/ Drop(t)
  \/ PushCache \/ CacheDone

WorkAny == \E s \in {"SUCCESS", "FAIL"} : Work(s)

Next ==
  \/ InitLoad \/ Execute \/ Crash \/ Tick \/ WorkAny
  \/ \E t \in Tasks : Create(t) \/ Pass(t)
  \/ \E p \in Projects, s \in Edits : UserEdit(p, s)

\* The process runs, Quartz keeps firing execute, and time goes on.
\* A worker that can take a task does.
Fairness ==
  /\ WF_vars(InitLoad) /\ WF_vars(Execute) /\ WF_vars(Tick)
  /\ WF_vars(WorkAny)

Spec == Init /\ [][Next]_vars
FairSpec == Spec /\ Fairness

-----------------------------------------------------------------------------
(* Properties *)

Pushes(t) == pushed'[t] # pushed[t]

Cached(t) == \E k \in DOMAIN cache : cache[k] = t

\* When a task is pushed, every task it requires of a project the trigger
\* knew is SUCCESS or PASSED at that moment, although the trigger looked at
\* the rows in an earlier step and may have parked the task for long.
DependenciesRespected ==
  [][\A t \in Tasks : Pushes(t) =>
       \A u \in Required(t) : taskdb[u] \in OkStatus]_vars

\* No task is pushed before lunchtime + delay, be it released at once, out
\* of the cache, or after a restart from the truncated triggertime column.
NotBeforeDelay ==
  [][\A t \in Tasks : Pushes(t) => now > Lunch[t] + Delay[ProjectOf[t]]]_vars

\* Without failed statements a task is pushed at most once, crashes included.
PushedOnce == \A t \in Tasks : pushed[t] <= 1

\* Without failed statements a CHECKING row is in the cache whenever no
\* execution is under way, unless another task took its key.
CheckingIsCached ==
  pc = "idle" => Checking \subseteq {t \in Tasks : Cached(t)} \cup lost

\* Without failed statements, and until the process first dies, a row that
\* says ACTIVE is backed by a message or by the push that comes next: after
\* the release no query of the trigger ever looks at the row again.
ReleasedIsQueued ==
  crashes = 0 =>
    \A t \in Tasks :
      taskdb[t] = "ACTIVE" =>
        t = hand \/ \E i \in 1..Len(queue) : queue[i].task = t

\* A CHECKING task is released or given up, unless it was thrown out of the
\* cache or its next check lies beyond the bound on the clock.
CheckingResolved ==
  \A t \in Tasks :
    taskdb[t] = "CHECKING" ~>
      taskdb[t] # "CHECKING" \/ t \in lost
      \/ triggertime[t] + TicksPerSecond > Horizon

\* Zeus schedules jobs (README.md): a CHECKING task is released or given up
\* unless its next check lies beyond the bound on the clock.
EveryJobScheduled ==
  \A t \in Tasks :
    taskdb[t] = "CHECKING" ~>
      taskdb[t] # "CHECKING" \/ triggertime[t] + TicksPerSecond > Horizon

\* An INIT row is picked up, unless its project has no row.
InitPickedUp ==
  \A t \in Tasks :
    taskdb[t] = "INIT" ~>
      taskdb[t] # "INIT" \/ projectdb[ProjectOf[t]] = "ABSENT"
=============================================================================
