# Verification of Zeus

TLA+ models, TLC runs and TLAPS proofs for the scheduler **Zeus**
(`src/java_web/scheduler`), the one program of this repository with a life of
its own: long-running processes that share a MySQL database and a Redis list,
may die at any point, and decide what runs and when. The rest of the
repository is listed under [Inventory](#inventory).

In this document `J/` stands for
`src/java_web/scheduler/src/main/java/com/traits/`.

## Inventory

### Zeus

| Component | State | Operations | Talks to |
|---|---|---|---|
| Store: `MySQLStorage`, `MySQLHandler`, `BaseTask`, `BaseProject`, `RedisHandler` | tables `taskdb`, `projectdb`; Redis list `scheduler.task.queue` | select rows by status, `REPLACE INTO taskdb`, `rpush`, `lpop` | everything |
| `ProjectScanner`, `ProjectTrigger` | `_projectMap` (singleton), the Quartz jobs | every 10 s: scan `projectdb`; schedule, reschedule or remove one job per project | store, Quartz |
| `ProjectExecutor` | none | when a project's job fires: insert one INIT row per worker | store, Jython, `Crontab` |
| `TaskTrigger`, `TaskCache` | `TaskCache._taskMap` (singleton): time to task | at start-up `initLoad`; every 20 s: release INIT tasks that are ready, park the others, go through the due entries of the cache | store |
| `WorkTrigger`, `Workers` | `futureList`, `runningTasks`, a fixed thread pool (singleton) | every second: collect what is done, retry or settle it, then take one message and submit, requeue or discard it | store, pool threads |
| `Crontab`, dependence functions | none (pure) | occurrences before a time, ids of required tasks | |
| `SysScheduler`, `ScheduleLoader`, `Configure` | configuration | start the three triggers in a process, according to `scheduler.type` | Quartz |

A task's row goes INIT (`ProjectExecutor`), then CHECKING while its
dependences or its delay hold it back, ACTIVE when it is pushed
(`TaskTrigger`), RUNNING when a node takes it, SUCCESS or FAIL at the end
(`WorkTrigger`); STOP, DELETE and IGNORED are ways of giving it up, and a user
may mark a failed task PASSED.

What makes it correct, component by component, and what is hard about it:

* **Store.** A failed statement is caught in `MySQLHandler` and its caller
  sees no rows, or a save that silently did nothing.
* **ProjectTrigger.** The jobs follow the table: one job for each enabled
  project with the crontab of its row, none for the others; also after rounds
  that were cut short, failed queries and restarts.
* **TaskTrigger.** A task is released once, not before its delay, only after
  the tasks it requires; rows that say CHECKING are in the cache; every row is
  eventually picked up and resolved. Three queries are read at different times
  and used later; the row and the queue are written in two steps; the cache is
  rebuilt from truncated times after a restart.
* **WorkTrigger.** A task is in one place only; the workers of one firing do
  not overlap on a node; retries are bounded; every released task is settled.
  Several processes pop one list, push before they save, and die in between.
* **ProjectExecutor.** One row per worker and firing; a repeated or late
  firing must not reset a task that was released already.

### The rest of the repository

| Component | State | Operations | Hard about it |
|---|---|---|---|
| JVM in Go (`src/jvm`) | a stack of frames, classes with static variables and `initStarted` | interpret bytecode, load, link and initialise classes | an instruction is interrupted by frames pushed under way and repeated |
| cgss (`src/go_learn/chapter4/cgss`) | player list, rooms, channels | add, remove, list players, broadcast | channels written under a mutex |
| `TaskQueue` (`src/python_learn/thread`) | a queue, daemon threads | put, work, join, soft exit | joining blocked workers |
| `TwoThread`, `RateLimit` (`src/java_learn`) | two strings, a monitor | print in turn | the last notify |
| `ZKClient` (`src/python_learn/zookeeper`) | a connection flag and its condition | connect, wait | the event that comes too late |

Of the JVM, class initialisation is modelled; see [Not modelled](#not-modelled)
for the others. `PROJECT.json` lists every component with its status.

## Modules

| Module | Models |
|---|---|
| `ZeusStore` | the two tables (their status columns), the Redis list, failing statements |
| `WorkTrigger` | `J/scheduler/WorkTrigger.java`, `J/model/Workers.java`; extends `ZeusStore` |
| `WorkTokens` | abstract: what the queue and the nodes promise of a task; `WorkTrigger` implements it |
| `TaskTrigger` | `J/scheduler/TaskTrigger.java`, `J/model/TaskCache.java`; extends `ZeusStore` |
| `ProjectTrigger` | `J/scheduler/ProjectTrigger.java`, `J/scheduler/ProjectScanner.java` |
| `Zeus` | the composition of `TaskTrigger` and `WorkTrigger` over one store, as `J/scheduler/SysScheduler.java` starts them |
| `TaskLifecycle` | abstract: the life of a row of `taskdb`; `Zeus` implements it |
| `Crontab` | `J/util/Crontab.java`: `getTimeBefore` |
| `Dependence` | the pure half of `J/scheduler/TaskTrigger.java`: `day` to `second`, the ids of `parseDependence`; extends `Crontab` |
| `ProjectExecutor` | `J/scheduler/ProjectExecutor.java`; extends `Dependence` |
| `ClassInit` | the interpreter loop and class initialisation of `src/jvm/src/jvm` |
| `MCWorkTrigger`, `MCTaskTrigger`, `MCProjectTrigger`, `MCZeus`, `MCProjectExecutor`, `MCClassInit` | instances for TLC |
| `WorkTriggerProofs`, `WorkTokensProofs`, `WorkRowsProofs` | proofs about `WorkTrigger`: where a task is; that it implements `WorkTokens`; what a row says of its task. Each extends the one before |
| `TaskTriggerProofs`, `ProjectTriggerProofs`, `ProjectExecutorProofs`, `ClassInitProofs` | proofs about these components; those about `Crontab` and `Dependence` are in `ProjectExecutorProofs` |
| `ZeusProofs` | proofs about `Zeus`, with the lemmas of `TaskTriggerProofs` and `WorkRowsProofs` through `INSTANCE` |

Conventions. An action is one step between two points at which another
process, thread or user may see or change something: a statement on the
database, a push or a pop, the end of a loop. `pc` names where a thread is. A
definition called a mutant in its comment is not part of the model: it is a
plausible bug, kept beside the definition it replaces, that one property is
known to catch.

### ZeusStore

`taskdb` and `projectdb` map ids to statuses, `"ABSENT"` standing for a
project without row. `SaveOneTask` is `saveTask`; with a budget `MaxFaults` it
may fail and leave the row alone, as `executeMany` swallows the exception
(`J/db/MySQLHandler.java:180`). `ReadProject` may see no row, as `query` does
(`:129`). The other columns appear only where a decision depends on them
(`triggertime`, `updatetime`, `crontab`, `delay`).

### WorkTrigger

One node per process, any number of them. `Begin` starts an execution with the
futures the iterator will visit; `CollectDone`, `CollectRetry`,
`CollectRetryThrows` and `CollectPending` are the branches of the loop
(lines 87-139), `SaveRetry` the late save of a retried row (133-138);
`CheckCapacity` to `Discard` are the rest of `execute` (142-209), `PollThrows`
among them a pop whose exception leaves `execute`.
`StartThread` and `Finish` are the pool threads. `Release` is what
`TaskTrigger` does, `UserEdit` the front end, `Crash` a death and restart of
a node. `runs` counts the starts of a body (history).

Abstractions: the pool starts waiting tasks in any order (the real one is FIFO,
so every real order is included); a future is identified by its task id, as no
node ever holds a task twice (`SingleCopy` proves it); `Finish` lets a body
return zero, something else, or throw, the three cases the collector
distinguishes, although `BaseTask.call` (`J/model/BaseTask.java:46`) is at
present a stub that returns 0; a call of the Redis client that throws is one
Redis has not carried out (`RedisFails`); a `_storage` that cannot be opened
ends `execute` with nothing done, which is a stuttering step.

A process has one static connection to Redis and nothing reconnects it
(`WorkTrigger.java:36`, `J/db/RedisHandler.java`). `spoilt` is the set of the
nodes for which it is of no more use: after an error reply of Redis it can be
used again, after a lost connection every later push and pop throws until the
process is started anew (`Crash`). `TaskTrigger` has a connection of its own.

`WorkTokens` says what this amounts to seen from outside: a task is a token
that is issued once, is then in the queue, with one node or gone, is never
forged or copied, carries the retries it has used, and whose body is started
at most once more than these. `ImplementsTokens` maps `place` to where the
message or future of a task is, `used` to the count in it and `starts` to
`runs`.

A task that has run carries its project and thereby its `Crontab`, whose log4j
logger cannot be serialized (`J/util/Crontab.java:17`); `SerializeUtil` returns
null and the push throws, with half of an RPUSH in the output buffer of the
client (Jedis 2.8.1): it garbles the next command, Redis answers with a protocol
error and closes. In the model the node's connection is spoilt from then on; it
goes on raising the retry count once a second until the task is FAIL, finishes
what it has, and takes nothing off the queue any more. `CronProjects` names
those projects.

### TaskTrigger

`InitLoad` is `initLoad`; `LoadProjects`, `LoadInitTasks` and
`LoadSuccessOrPassed` are the three queries of `execute` (300-302), each a step
of its own; `Orphan`, `ReleaseInit`, `ParkInit` are the branches of the loop
over INIT rows (309-347), `PushInit` the push that follows a release;
`ReleaseChecked`, `PushCache`, `ParkAgain` and `Drop` those of the loop over
the cache (351-435). `PushThrows` is a push whose exception leaves `execute`.
The environment is `Create` (ProjectExecutor), `Work` (WorkTrigger, condensed
to taking a message and storing its result), `Pass` and `UserEdit` (users),
`Tick` and `Crash`.

`cache` is a function from times to tasks, one task per key, as the
`TreeMap<Double, BaseTask>` is. The clock counts ticks; `TicksPerSecond` ticks
make a second, and `SaveChecking` stores the time cut to whole seconds, as the
`timestamp` column does. `lost` collects the tasks whose key another task took
(history), `pushed` counts pushes (history).

Abstractions: `Requires` says which tasks a task's dependence names, which
is computed in `Dependence`; the rule that drops a dependence on a project missing from the map (171) is (`Required`);
the 31 days to which finished tasks are restricted are longer than any
behaviour; `Delay` supposes a column the loader can read as a Long; users change `projectdb` and mark failed tasks PASSED but do not
write to rows that are under way.

### ProjectTrigger

`table` is `projectdb`, `map` the scanner's `_projectMap`, `jobs` what Quartz
has. `Scan` is one `loadProjects`: it marks all entries DELETE, then compares
each row it got with its entry (61-82); `ScanThrows` is a scan stopped by a row
that cannot be read. `Schedule`, `Unschedule`, `Skip` and `Abort` are the
branches of the loop of `ProjectTrigger.execute`; the map is a `HashMap`, so
the order of the entries is arbitrary. `round` (history) records whether a
complete round without failure has followed the last edit, and whether a bad
crontab has aborted a round since the process started.

Crontabs are reduced to their kinds: none (null, or one that will never fire
again, which `scheduleJob` refuses), the empty string (fires once), a valid
one, one that does not parse.

### Zeus

In `TaskTrigger` the nodes are one abstract action (`Work`), in `WorkTrigger`
the trigger is (`Release`). `Zeus` instantiates both over the same `taskdb`,
`projectdb` and `queue` and takes neither of these two actions: `TriggerStep`
is `TaskTrigger`'s `initLoad` and `execute`, `NodeStep` and `ThreadStep` those
of the nodes, with `Tick`, `Create`, `Pass` and the edits of users as before.
So the properties of each component are tried against the real other one.

`ImplementsWork` says that this is right: the nodes, fed by the real trigger,
implement `WorkTrigger`, whose environment is one abstract release per task.
The mapping hides what the nodes do not see: `Seen` is INIT as long as a task
has not been pushed, so that the push is the release, and FAIL for a failed row
that a user has marked PASSED. It makes every theorem about `WorkTrigger` one
about `Zeus`.

`TaskLifecycle` is what the two promise together of a row: INIT, perhaps
CHECKING, ACTIVE only when all it requires has succeeded, RUNNING, again ACTIVE
for each retry, SUCCESS, or FAIL after `Retry + 1` runs and not earlier. The
mapping is the identity on `taskdb` and `runs`. What makes it hard: both sides
save whole rows from objects in memory, so the order of save and push decides
whether a late save takes a row back.

### Crontab, Dependence and ProjectExecutor

`Crontab` represents a crontab by the set of its occurrences. `Window` is what
one turn of the loop of `getTimeBefore` collects, open at both ends as in the
code; `TimeBefore` stops at the first window with enough occurrences. `Windows`
is `delta`.

In `Dependence`, `BaseTime` is `day`, `hour`, `minute` and `second`, including
`day`'s assignment that forgets the time it is given; `Wrap` is the `int`
product `offset * 1000`; `Required` collects the ids of all rules, dropping
rules on projects without a crontab or outside the map, as the exception
handler and line 171 do. An id is the triple (project, time in whole seconds,
worker) of which the code takes the md5 sum. The text of a dependence is not
parsed: a rule is a record.

`ProjectExecutor` has one thread per firing. `Fire` computes the lunchtime from
the time Quartz really fires; `SetCalendar` and `ReadCalendar` are the two
halves of `df.format` on the static `SimpleDateFormat` that all threads share;
`ScriptThrows` is an `args_script` that fails; `SaveWorker` is one turn of the
loop, which reads `num_workers` from the shared project object each time, saves
with `REPLACE INTO` and goes on when the save fails. `Resize` is
`BaseProject.copy` in the scanner's thread, `Release` is `TaskTrigger`. The
lunchtime column is compared in whole seconds; the date format that
`MySQLHandler` shares between all saves is taken as atomic.

### ClassInit

One turn of `loop` is one action: the instruction at `nextPC` is fetched and
executed. `InitFirst` is the guard that `getstatic`, `putstatic`, `new` and
`invokestatic` have in common: the program counter goes back, `InitClass`
sets `initStarted` and pushes the `<clinit>` of the class and of those
superclasses that have not started; `Along` is its recursion, a step for each
class on the way up. `Use` is what the first three do after the
guard, `InvokeStatic` pushes a frame, `Return` pops one. `PushOn` fails when
the stack is full; the panic unwinds it and ends the process.

The program is chosen in `Init`: the hierarchy, which classes have a
`<clinit>`, what each method does. Instructions that initialise nothing are
left out, jumps among them, so every method is a straight line and a program
that does not end would be the fault of the initialisation. The class of `main`
is not initialised before `main` runs, as in the code. `ClassAssumption` says
that no class is above itself: the loader loads the superclass before it defines
a class (`class_loader.go`, `defineClass`) and would not return from a circle.

## Runs

| Run | Checks | Instance |
|---|---|---|
| `WorkTrigger_nodes` | `TypeOK`, `SingleCopy`, `OneWorkerPerInstance`, `RetriesBounded`, `SettledIsGone`, `ImplementsTokens` | 2 nodes, 2 workers of one firing, 1 retry, 2 faults, all outcomes |
| `WorkTrigger_pool` | `NoTaskLost`, `FailMeansExhausted`, `EventuallySettled` | 1 node, 3 tasks (one of a project with a crontab), 1 thread, 1 retry, no faults, fairness |
| `TaskTrigger_faults` | `TypeOK`, `NotBeforeDelay` | 2 tasks, one waits for the other; a delay, 1 fault, 1 restart, vanishing project rows |
| `TaskTrigger_live` | `PushedOnce`, `CheckingIsCached`, `ReleasedIsQueued`, `DependenciesRespected`, `CheckingResolved`, `InitPickedUp` | the same tasks, 1 restart, stopped projects, no faults, fairness |
| `ProjectTrigger_live` | `TypeOK`, `ScheduleFollowsTable`, `EventuallyFollows` | 2 projects, 3 seconds, no faults, fairness |
| `ProjectTrigger_faults` | `NoUnwantedJob`, `NoOrphanJob` | bad crontabs, unreadable rows, a failed query or restart |
| `Zeus` | `NoRowStranded`, `ImplementsLifecycle`, `ImplementsWork`, `StartsInOrder`, `EveryRowSettled` | 2 tasks of one project, one waits for the other; trigger and 1 node, 1 retry, stopped projects, no faults, fairness |
| `ProjectExecutor` | `TypeOK`, `NamedByOccurrence`, `NoRowReset`, `RequiresLatest`, `RequiredRowsExist`, `FiringComplete` | 2 projects, 3 firings of which 2 fall in one second, 2 workers, `num_workers` raised meanwhile, 1 fault, 7 rules, fairness |
| `ClassInit` | `TypeOK`, `ClinitOnce`, `SuperclassFirst`, `UsesInitialised`, `Terminates` | every program of 3 classes (a chain, or a class with a subclass and an interface) with a static method and at most one instruction per method, 6 frames |

Runs that show a disagreement between the code and what the repository says of
it; each stops at a counterexample:

| Run | Property | What happens |
|---|---|---|
| `TaskTrigger_collision` | `EveryJobScheduled` | two tasks parked under one time: the cache keeps one |
| `ProjectTrigger_crontab` | `EventuallyFollows` | a bad crontab ends the round, later projects are never scheduled |
| `ProjectExecutor_window` | `RequiresLatest` | an occurrence exactly one window before the base is in no window: `(minute(0), 1)` on a project that fires every minute names the firing before the last |

What else is known to go wrong, without a run of its own:

* `maxActiveCount` is compared with the busy threads, which the pool size
  bounds already: a node accepts tasks without limit (`WorkTrigger.java:142`).
* A death between the save as ACTIVE and the push leaves a row ACTIVE for good,
  as nothing reads ACTIVE rows (`TaskTrigger.java:323`).
* A task of a project with a crontab is never rerun, whatever `retry` says in
  its row: each push of the retry throws. The first one also spoils the node's
  connection, so that the process takes no task any more until it is restarted
  (`WorkTrigger.java:107`).
* A push whose reply is lost may have been carried out: the task is then in the
  queue and, for a retry, still in a list of futures (`WorkTrigger.java:107`).
* With two nodes and a body that returns non-zero, another node may take the
  message of a retry and store its result before the first saves the row as
  ACTIVE, over the result (`WorkTrigger.java:133`). As `call` returns 0 today,
  this needs a future body.
* A body that throws is forgotten with its row still RUNNING, for good
  (`WorkTrigger.java:116`).
* A failed query of `projectdb` unschedules every project; those with an
  unchanged row stay so (`ProjectScanner.java:61`).
* `day(n)` is a date near 1970, whatever the lunchtime (`TaskTrigger.java:113`).
* A firing that is named later than the second it belongs to may take the name
  another thread has just set in the shared calendar, and one that is later
  than the period of its crontab takes the name of the next firing
  (`ProjectExecutor.java:65`, `:76`).
* `num_workers` raised after a firing: its dependents wait for ids that nobody
  writes (`TaskTrigger.java:180`).

Why some properties are checked where they are:

* `SettledIsGone` is checked with two nodes, failures and all outcomes: what a
  row says may be overwritten by a late save (see above), but while it says that
  a task is settled, no node has anything left of it to run.
* `NoTaskLost` and `EventuallySettled` are about one node without failures and
  about bodies that return: with two nodes a late save, with a body that throws
  the row, with a crash a popped message is gone. `EventuallySettled` speaks of
  every task in the queue, also those of a project with a crontab, and excepts
  those still in the queue when no node is left that can pop it
  (`spoilt = Nodes`).
* `FailMeansExhausted` holds until a connection is spoilt: afterwards pushes
  that throw raise the count without a run.
* `Zeus` has neither faults, deaths nor projects with a crontab: with them
  `NoRowStranded` fails as described above, and a swallowed save takes a row off the lifecycle.
  `EveryRowSettled` excepts the rows whose next check lies beyond the clock of
  the instance and those in `lost`.
* `RequiresLatest` compares `parseDependence` with the rule as its comment
  reads. `ProjectExecutor` has occurrences that avoid the borders of the
  windows, and no `day`; `ProjectExecutor_window` is the other half.
  `NamedByOccurrence` and `NoRowReset` suppose that a firing is named within
  its second (`MaxLag`), `RequiredRowsExist` and half of `FiringComplete` that
  no save and no script failed.
* `SuperclassFirst` has the exception the JVM specification has: the
  initialiser of a superclass may itself use the subclass.
* `PushedOnce`, `CheckingIsCached`, `ReleasedIsQueued` and
  `DependenciesRespected` suppose that no statement fails: after a swallowed
  save the row of a released task still says INIT and is released again.
  `CheckingIsCached` and `CheckingResolved` except the tasks in `lost`, whose
  key another task took, which is what `TaskTrigger_collision` is about.
* `ScheduleFollowsTable` and `EventuallyFollows` are checked without the
  circumstances that break them: failed queries, and bad crontabs, which have
  a violating run; a second edit within a second (`SameSecond`), and rows whose
  `delay` is set, which the loader casts from Integer to Long and cannot read
  (`Delays`). `NoUnwantedJob` is the half of `ScheduleFollowsTable` that
  survives failures, as long as no round was aborted by a bad crontab;
  `NoOrphanJob` survives everything.

### Bounds and why they are enough

Nodes, tasks, projects: where they interact, two of each exhibit every
interaction the code has (two nodes that pop one list, two workers of a firing
on one node or on two, a task and its requirement, a project before and one
after a bad row). Three
tasks are used where a queue must be longer than the pool. `Retry = 1` has a
first, a last and a refused retry. `MaxFaults` counts failed statements,
failed pushes and crashes together: one or two, at any step. `Horizon` (6
ticks, with `Delta = 2`, `Ignore = 4`, two ticks a second) lets a task be
parked, looked at, parked again and given up, or be parked, restarted and
released. `MaxClock = 2` gives a row three versions. `SYMMETRY` is used for
nodes and projects in runs of invariants only. `PushThrows` and a missing
project (`Orphan`) occur in `TaskTrigger_faults`, `ParkAgain` in
`TaskTrigger_live`.

`Zeus` has one project, which may be stopped, and a clock of four ticks, one a
second, with `Delta = 1`, `Ignore = 3`; delays and times cut to seconds are left
to `TaskTrigger`. The dependent task is parked, looked at while its requirement runs, and either released or
given up. In `ProjectExecutor` the clock runs from 18 to 26, two ticks a second,
with firings of `feed` at 18 and 26 and one of `report` at 19, so that two
threads format dates of one second that differ; minute, hour and day are 6, 12
and 36 ticks, and the seven rules reach into the first three windows, in one
case across them, past the lunchtime, to a project without a crontab and to one
that does not exist. `IntLimit` is beyond every offset of the instances.
In `ClassInit` six frames hold the deepest chain of initialisers of three
classes but not a recursive static method, so that both ends of `PushOn` occur;
one instruction per method is enough for initialisers that use each other's
classes, in both orders, from `main` or from a static method.

### Fairness

* `WorkTrigger`: Quartz fires `execute` every second as long as the process
  lives, so each node's `execute` is weakly fair; a thread of the pool that can
  take a task does; a task body ends (they sleep for five seconds).
* `TaskTrigger`: the process starts and Quartz fires `execute` every 20 s; time
  passes; some worker takes what is in the queue. Nothing is assumed of
  `ProjectExecutor`, of the users or of crashes.
* `ProjectTrigger`: Quartz fires `execute` every 10 s. Nothing is assumed of
  edits, of the clock or of one-shot triggers.
* `Zeus`: as in its two components, with each node and each pool thread on its
  own; nothing is assumed of firings, users or edits.
* `ProjectExecutor`: time passes, and some thread of Quartz runs, whichever;
  that is enough as every firing has finitely many steps.
* `ClassInit`: the loop runs.

Weak fairness of the disjunction is enough as each thread is sequential: until
its next step is taken that step stays enabled.

## Proofs

Eight modules hold proofs. Every safety invariant, action property and
refinement that a passing run checks is a theorem, for every value of the
constants that the named assumptions allow: any number of nodes, tasks,
firings, projects, classes, retries, failures and crashes, any clock, any
crontabs and rules. Where a property needs more, the theorem states it as a
hypothesis.

| Module | Theorem | States | Supposing |
|---|---|---|---|
| `WorkTriggerProofs` | `TypeCorrect` | `TypeOK` | |
| | `OneWorker` | `OneWorkerPerInstance` | |
| | `OneCopy` | `SingleCopy` | |
| | `BoundedRetries` | `RetriesBounded` | |
| | `SettledOver` | `SettledIsGone` | |
| `WorkTokensProofs` | `Implementation` | `ImplementsTokens` | |
| `WorkRowsProofs` | `ExhaustedFail` | `FailMeansExhausted` | no failures |
| | `NothingLost` | `NoTaskLost` | no failures, `OneSaver`, no body throws |
| `TaskTriggerProofs` | `TypeCorrect` | `TypeOK` | |
| | `DelayRespected` | `NotBeforeDelay` | |
| | `AtMostOnePush` | `PushedOnce` | no failed statement |
| | `NoneForgotten` | `CheckingIsCached` | no failed statement |
| | `ActiveIsQueued` | `ReleasedIsQueued` | no failed statement |
| | `DependenciesDone` | `DependenciesRespected` | no failed statement |
| `ProjectTriggerProofs` | `TypeCorrect` | `TypeOK` | |
| | `NoOrphan` | `NoOrphanJob` | |
| | `NothingUnwanted` | `NoUnwantedJob` | one edit a second and row |
| | `FollowsTable` | `ScheduleFollowsTable` | no failures, one edit a second and row |
| `ProjectExecutorProofs` | `TimeBeforeIsLatest` | what `getTimeBefore` returns | `NoneOnBorder` |
| | `TypeCorrect` | `TypeOK` | |
| | `NamesCorrect` | `NamedByOccurrence` | `Spaced` |
| | `NeverReset` | `NoRowReset` | `Spaced` |
| | `DependencesExist` | `RequiredRowsExist` | `Spaced`, `Steady` |
| | `LatestRequired` | `RequiresLatest` | `Spaced`, `Clear` |
| `ZeusProofs` | `NodesImplementWorkTrigger` | `ImplementsWork` | no failed statement |
| | `NothingStranded` | `NoRowStranded` | no failures or crashes, `OneSaver`, no body throws |
| | `OrderKept` | `StartsInOrder` | no failed statement, `OneSaver`, no project row deleted |
| | `LifecycleKept` | `ImplementsLifecycle` | as before, and no project with a crontab |
| `ClassInitProofs` | `TypeCorrect` | `TypeOK` | |
| | `OnceOnly` | `ClinitOnce` | |
| | `SuperFirst` | `SuperclassFirst` | |
| | `UsesReady` | `UsesInitialised` | |

The hypotheses are met by the instances of the runs that check the same
property, and each stands for something that does go wrong without it
(see [Runs](#runs)):

* *No failures*, *no failed statement*: `MaxFaults = 0`. The budget is also that
  of the nodes' deaths. Crashes of `TaskTrigger` are counted apart
  (`MaxCrashes`) and still happen, in `Zeus` too, unless the table says
  otherwise.
* `OneSaver`: one node, or bodies that do not return a nonzero value, as
  `BaseTask.call` today. Otherwise the late save of a retry may hit a row
  another node has written since.
* *No body throws*: a body that throws is forgotten with its row still RUNNING
  (`WorkTrigger.java:116`).
* *One edit a second and row*: `SameSecond = FALSE`; a second edit with the
  same `updatetime` is not seen.
* *No project row deleted*: `"ABSENT" \notin Edits`; a dependence on a project
  that is gone is dropped. *No project with a crontab*: their retries cannot be
  serialized and spoil the connection, after which pushes that throw raise the
  count without a run.
* `Spaced`: firings of one project fall in different seconds however late they
  are, and a firing that another project's may overtake is named in its second.
  `Steady`: `num_workers` of projects with a crontab stays. `NoneOnBorder`,
  `Clear`: no occurrence that is needed lies exactly where a window ends, and
  no rule uses `day`.

The assumptions are the named ones beside the constants, which TLC evaluates in
every run: `StoreAssumption` (each task has a firing and a project),
`WorkAssumption`, `NoMsgAssumption`, `NodesAssumption` (no node is called like a
place of `WorkTokens`), `TriggerAssumption` (among others, entries of the cache
are checked at least a second apart), `ProjectAssumption`, `NoRowAssumption`,
`WindowsAssumption` (there are windows, and they grow), `UnitAssumption`,
`ExecutorAssumption`, `ClassAssumption` (no circles). Those of `Zeus` are the
ones of its two components.

### The inductive invariants

**WorkTrigger.** `TypeInv` adds to `TypeOK` what the program counters stand for
(`Steps`): a message is in hand exactly between the pop and the end of
`execute`, and a message about to be submitted belongs to a firing that does
not run here. `OneWorkerPerInstance` is inductive on top of it: the name of a
firing can be removed with one future because that future was the only one.
`CopyInv` adds `Unreleased`: a task whose row is INIT has left no trace. Each
action drops copies (`CopyShrink`), moves one (`CopyPoll`, `CopySubmit`) or adds
one where there was none (`CopyPush`). `RunInv` bounds the starts of a body by
the retry count that its single copy carries; with two copies the counts could
be used twice. `SettledIsGone` is inductive next to `CopyInv`: a final status is
saved only by the node that drops the one copy, and whoever saves another status
later takes the row out of the final ones.

**WorkTokens.** `TokenInv` joins these with `SavesReleased`: the late save of a
retry never makes an unreleased task out of a row. Under it the mapping is
determined by the one copy, and each action of a node moves one token or none.

**Rows.** `RowsInv` says what the status column knows: a queued task is ACTIVE
except while the late save of its retry is due, one with a future is RUNNING,
and the converse (`Backed`). `ExactInv` turns the bound of `RunInv` into an
equality as long as no connection is spoilt, which without failures stays so
if no project has a crontab (`SpoiltStays`, `NoneSpoilt`), so that FAIL means
that all retries are used up. `RanInv` and
`ReturnsInv` say what a late save comes from.

**TaskTrigger.** `FormInv` ties the task in hand to the program counter and the
entry the loop is at. `TimeInv` follows the delay from the row through the cut
`timestamp` into the cache and back after a restart: a check planned at least a
second after the delay respects it even when the row holds whole seconds
(`ParkTime`). `CoreInv` says where the rows are: an INIT row is not cached, a cached
one is CHECKING and under one key only, what is not released has not been
pushed. `CheckInv` keeps the answer of the three queries valid until the push,
and `QueueInv` the queue; they are proved apart, as the first two hold also next
to the real nodes of `Zeus` and the last only next to `Work`.

**ProjectTrigger.** `NoOrphanJob` is inductive with `LoopInv` alone.
`SyncInv` compares row, entry and job: an entry is never newer than its row
(`ClockInv`), equals it if the times are equal (`SameInv`), and a job is the one
of its entry or the loop has still to act on it (`JobInv`); `RoundInv` is what a
scan without failure has seen. Without failures `KeptInv` and `MatchInv` add
that no entry of an unchanged row is dropped and no job is missing.

**ProjectExecutor.** `NameInv` is why the shared calendar does no harm: whoever
sets it between two halves of a thread's `format` sets the same second.
`WriterInv` traces each row to the one firing that wrote it, `CompleteInv` each
firing to its rows. About the pure part: `Newest` of a set that is a final
piece of another is the same (the searched window against the whole past), and
a window that suffices hides nothing when the borders before it are clear.

**Zeus.** A step of either component is one of its own next to the other's as
environment, and each invariant of a component is kept by its own steps (the
lemmas `T!...`, `W!...`) and by those of the other, seen through `Seen`. New are
`UnpushedInv` (an ACTIVE row that was not pushed is the one in hand), `MapInv`
(the trigger knows every project) and `OrderInv`: what a pushed task requires
stays done, and the time does not go back, so its bodies start in order however
late. `LifecycleKept` reads the guards of `TaskLifecycle` off these.

**ClassInit.** `StackInv` says where the `<clinit>` of a started class is: once
on the stack or returned. `OrderInv` adds that superclasses are started with a
class and that above a `<clinit>` that has not begun there are only those of
its ancestors, up to the first of them that has begun. Together with
`SuperclassFirst` this is inductive; it is false without "up to": a `<clinit>`
under way may push anything. `Along` and `Ancestors` are recursive functions
over classes instead of numbers, so the module first proves induction and
recursion along a map without circles (`UpwardInduction`, `UpwardRecursion`)
and from them what `InitClass` marks and schedules, in which order
(`MarkedFresh`, `ScheduledInOrder`).

### What is only model-checked

* Liveness, which with `ENABLED` is outside the prover's reach:
  `EventuallySettled`, `CheckingResolved`, `InitPickedUp`, `EventuallyFollows`,
  `EveryRowSettled`, `FiringComplete`, `Terminates`. `FairSpec` of each module
  implies its `Spec`, so the theorems hold under fairness too.
* The three disagreements: a counterexample on one instance is enough.
* That the hypotheses of the table are met: the instances of the runs show it.

No module declares a recursive operator; recursion is written as recursive
functions.

## Not modelled

* **JavaScript.** The `.js` files of the repository are saved web pages
  (jQuery, Bootstrap, MathJax beside the notes under `src/algorithm`), copies of
  AngularJS and jQuery, and the boilerplate of packages: third-party code that
  nothing here wrote or changed. The repository's own programs are in Java, Go,
  Python and C++.
* **Zeus**: the parser of dependence strings (a regular expression), Quartz's
  evaluation of cron expressions, Jython, the configuration files, an empty
  MongoDB storage, a hello-world servlet; the number of open database
  connections; several processes in the role of `TaskTrigger` or
  `ProjectTrigger`, which the singletons do not provide for.
* **The JVM** apart from class initialisation: class files, the class loader,
  operand stacks and local variables, arithmetic, method lookup, natives. Most
  of it is sequential code over data, one instruction at a time.
* **cgss, `TaskQueue`, `TwoThread`, `RateLimit`, `ZKClient`**: small exercises.
  The hazards of cgss are listed; the checks go to the scheduler.
* `lighten` (stateless dispatch inside a servlet container), `apollo`
  (generated Thrift code), `athena` (one POSIX wrapper), `gash` (stubs), JNI
  glue, tutorial samples, message-broker samples, notebooks: no state of their
  own worth a model.

## Plan

1. Proofs without the hypothesis that no statement fails, where a weaker
   property survives: for `TaskTrigger`, that a task is pushed at most once
   more than saves were swallowed; for `WorkTrigger`, that a row is stranded
   only by a failure.
2. Several processes in the role of `TaskTrigger` over one store.
3. The class loader of the JVM.
