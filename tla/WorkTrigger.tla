----------------------------- MODULE WorkTrigger -----------------------------
(***************************************************************************)
(* WorkTrigger.execute and the Workers singleton of every process that     *)
(* runs Zeus as "taskWorker".  Quartz fires execute every second and never *)
(* twice at once in one process (@DisallowConcurrentExecution), so a node  *)
(* is one thread with a program counter, next to the threads of its pool.  *)
(* One execution walks the list of futures, settles or retries what is     *)
(* done, then takes at most one message off the queue.                     *)
(*                                                                         *)
(* TaskTrigger, the users and the task bodies are the environment.         *)
(***************************************************************************)
EXTENDS ZeusStore, FiniteSets

CONSTANTS
  Nodes,        \* processes that run WorkTrigger
  NoMsg,        \* "no message in hand"
  NoTask,
  PoolSize,     \* conf.worker.threadpool.size
  MaxActive,    \* conf.worker.maxActiveCount
  Retry,        \* BaseProject.retry
  CronProjects, \* projects with a crontab, whose tasks cannot be serialized
  Outcomes,     \* how a task body may end
  Edits         \* statuses users write to projectdb

ASSUME WorkAssumption ==
  /\ PoolSize \in Nat \ {0} /\ MaxActive \in Nat \ {0} /\ Retry \in Nat
  /\ CronProjects \subseteq Projects
  /\ Outcomes \subseteq {"zero", "nonzero", "throws"}
  /\ Edits \subseteq ProjectStatus
  /\ NoTask \notin Tasks

Message == [task : Tasks, retry : 0..Retry]

ASSUME NoMsgAssumption == NoMsg \notin Message

\* No node is called like one of the places of WorkTokens.
ASSUME NodesAssumption == Nodes \cap {"new", "queue", "gone"} = {}

VARIABLES
  pc,           \* where the node's execution of execute() is
  todo,         \* entries of futureList the iterator has still to visit
  future,       \* node -> task -> its Future in futureList, "none" if absent
  attempt,      \* node -> task -> retry_count of the task object of the future
  running,      \* node -> runningTasks
  hand,         \* node -> the message taken off the queue
  verdict,      \* node -> the project status read for it
  saving,       \* node -> the retried task whose row is still to be saved
  spoilt,       \* nodes whose connection to Redis is of no more use
  runs          \* task -> times a pool thread has started it (history)

nodeVars == <<pc, todo, future, attempt, running, hand, verdict, saving,
              spoilt>>
vars == <<storeVars, nodeVars, runs>>

Done == {"zero", "nonzero", "throws"}
FutureState == {"none", "submitted", "working"} \cup Done
Pc == {"idle", "collect", "saveRetry", "poll", "popped", "decided"}

TypeOK ==
  /\ taskdb \in [Tasks -> TaskStatus]
  /\ projectdb \in [Projects -> ProjectStatus]
  /\ queue \in Seq(Message)
  /\ faults \in 0..MaxFaults
  /\ pc \in [Nodes -> Pc]
  /\ todo \in [Nodes -> SUBSET Tasks]
  /\ future \in [Nodes -> [Tasks -> FutureState]]
  /\ attempt \in [Nodes -> [Tasks -> 0..Retry]]
  /\ running \in [Nodes -> SUBSET Instances]
  /\ hand \in [Nodes -> Message \cup {NoMsg}]
  /\ verdict \in [Nodes -> ProjectStatus]
  /\ saving \in [Nodes -> Tasks \cup {NoTask}]
  /\ spoilt \subseteq Nodes
  /\ runs \in [Tasks -> Nat]

InitNodes ==
  /\ pc = [n \in Nodes |-> "idle"]
  /\ todo = [n \in Nodes |-> {}]
  /\ future = [n \in Nodes |-> [t \in Tasks |-> "none"]]
  /\ attempt = [n \in Nodes |-> [t \in Tasks |-> 0]]
  /\ running = [n \in Nodes |-> {}]
  /\ hand = [n \in Nodes |-> NoMsg]
  /\ verdict = [n \in Nodes |-> "ABSENT"]
  /\ saving = [n \in Nodes |-> NoTask]
  /\ spoilt = {}
  /\ runs = [t \in Tasks |-> 0]

Init ==
  /\ taskdb = [t \in Tasks |-> "INIT"]
  /\ projectdb = [p \in Projects |-> "RUNNING"]
  /\ queue = <<>>
  /\ faults = 0
  /\ InitNodes

-----------------------------------------------------------------------------
(* Workers *)

FutureList(n) == {t \in Tasks : future[n][t] # "none"}

WorkingCount(n) == Cardinality({t \in Tasks : future[n][t] = "working"})

Goto(n, l) == pc' = [pc EXCEPT ![n] = l]

SetFuture(n, t, s) == future' = [future EXCEPT ![n][t] = s]

\* Mutant: retry_count is not restored from the message.
SubmitTaskFresh(n, m) ==
  /\ SetFuture(n, m.task, "submitted")
  /\ attempt' = [attempt EXCEPT ![n][m.task] = 0]
  /\ running' = [running EXCEPT ![n] = @ \cup {InstanceOf[m.task]}]

SubmitTask(n, m) ==
  /\ SetFuture(n, m.task, "submitted")
  /\ attempt' = [attempt EXCEPT ![n][m.task] = m.retry]
  /\ running' = [running EXCEPT ![n] = @ \cup {InstanceOf[m.task]}]

\* Mutants: one of the two removals is missing.
ForgetNameOnly(n, t) ==
  /\ running' = [running EXCEPT ![n] = @ \ {InstanceOf[t]}]
  /\ UNCHANGED future
ForgetFutureOnly(n, t) == SetFuture(n, t, "none") /\ UNCHANGED running

\* it.remove() and getRunningTasks().remove(...)
Forget(n, t) ==
  /\ SetFuture(n, t, "none")
  /\ running' = [running EXCEPT ![n] = @ \ {InstanceOf[t]}]

\* A thread of the fixed pool takes up a submitted task.  The pool's queue
\* is FIFO; any order is allowed here.
StartThread(n, t) ==
  /\ future[n][t] = "submitted"
  /\ WorkingCount(n) < PoolSize
  /\ SetFuture(n, t, "working")
  /\ runs' = [runs EXCEPT ![t] = @ + 1]
  /\ UNCHANGED <<storeVars, pc, todo, attempt, running, hand, verdict, saving,
                 spoilt>>

\* The body ends.  BaseTask.call as written always returns 0; the collector
\* also handles other values and exceptions, which subclasses may produce.
Finish(n, t) ==
  /\ future[n][t] = "working"
  /\ \E o \in Outcomes : SetFuture(n, t, o)
  /\ UNCHANGED <<storeVars, pc, todo, attempt, running, hand, verdict, saving,
                 spoilt, runs>>

-----------------------------------------------------------------------------
(* execute(): the loop over the futures *)

Begin(n) ==
  /\ pc[n] = "idle"
  /\ Goto(n, "collect")
  /\ todo' = [todo EXCEPT ![n] = FutureList(n)]
  /\ UNCHANGED <<storeVars, future, attempt, running, hand, verdict, saving,
                 spoilt, runs>>

Visit(n, t) ==
  /\ pc[n] = "collect"
  /\ t \in todo[n]
  /\ todo' = [todo EXCEPT ![n] = @ \ {t}]

\* Mutants: one retry too many, one too few.
RetriesLeftOver(n, t) == attempt[n][t] <= Retry
RetriesLeftUnder(n, t) == attempt[n][t] + 1 < Retry

RetriesLeft(n, t) == attempt[n][t] < Retry

\* The status of a future that is not retried.  An ExecutionException leaves
\* the task object as submitted: RUNNING.
FinalStatus(n, t) ==
  CASE future[n][t] = "zero" -> "SUCCESS"
    [] future[n][t] = "nonzero" -> "FAIL"
    [] future[n][t] = "throws" -> "RUNNING"

CollectDone(n, t) ==
  /\ Visit(n, t)
  /\ \/ future[n][t] \in {"zero", "throws"}
     \/ future[n][t] = "nonzero" /\ ~RetriesLeft(n, t)
  /\ SaveOneTask(t, FinalStatus(n, t))
  /\ Forget(n, t)
  /\ UNCHANGED <<projectdb, queue, pc, attempt, hand, verdict, saving,
                 spoilt, runs>>

\* A task that has run carries its project, and the Crontab of a project
\* holds a log4j Logger: serialize() then yields null.
Serializable(t) == ProjectOf[t] \notin CronProjects

\* A call on the node's one Jedis throws and Redis has not carried it out.
\* After an error reply the connection can be used again; one that is lost stays
\* in redis_handler, and nothing reconnects.
RedisFails(n) == Fault /\ spoilt' \in {spoilt, spoilt \cup {n}}

\* The connection was spoilt by an earlier call: whatever is sent now throws.
StillSpoilt(n) == n \in spoilt /\ UNCHANGED <<faults, spoilt>>

\* The push of a retry throws.  On a null argument it does so with half of the
\* command in the output buffer, where it garbles the next one: Redis answers
\* with a protocol error and closes the connection.
PushThrows(n, t) ==
  \/ ~Serializable(t) /\ spoilt' = spoilt \cup {n} /\ UNCHANGED faults
  \/ StillSpoilt(n)
  \/ RedisFails(n)

CollectRetry(n, t) ==
  /\ Visit(n, t)
  /\ future[n][t] = "nonzero" /\ RetriesLeft(n, t)
  /\ Serializable(t) /\ n \notin spoilt
  /\ Push([task |-> t, retry |-> attempt[n][t] + 1])
  /\ Forget(n, t)
  /\ Goto(n, "saveRetry")
  /\ saving' = [saving EXCEPT ![n] = t]
  /\ UNCHANGED <<taskdb, projectdb, faults, attempt, hand, verdict, spoilt,
                 runs>>

\* The exception of the push leaves execute(); the future stays listed with
\* its retry_count already raised.
CollectRetryThrows(n, t) ==
  /\ pc[n] = "collect" /\ t \in todo[n]
  /\ future[n][t] = "nonzero" /\ RetriesLeft(n, t)
  /\ PushThrows(n, t)
  /\ attempt' = [attempt EXCEPT ![n][t] = @ + 1]
  /\ todo' = [todo EXCEPT ![n] = {}]
  /\ Goto(n, "idle")
  /\ UNCHANGED <<taskdb, projectdb, queue, future, running, hand, verdict,
                 saving, runs>>

\* The row of a retried task is saved after its message is out.
SaveRetry(n) ==
  /\ pc[n] = "saveRetry"
  /\ SaveOneTask(saving[n], "ACTIVE")
  /\ saving' = [saving EXCEPT ![n] = NoTask]
  /\ Goto(n, "collect")
  /\ UNCHANGED <<projectdb, queue, todo, future, attempt, running, hand,
                 verdict, spoilt, runs>>

\* A future that is not done has its row saved again.
CollectPending(n, t) ==
  /\ Visit(n, t)
  /\ future[n][t] \in {"submitted", "working"}
  /\ SaveOneTask(t, "RUNNING")
  /\ UNCHANGED <<projectdb, queue, pc, future, attempt, running, hand, verdict,
                 saving, spoilt, runs>>

-----------------------------------------------------------------------------
(* execute(): one message off the queue *)

AtCapacity(n) == WorkingCount(n) >= MaxActive

CheckCapacity(n) ==
  /\ pc[n] = "collect" /\ todo[n] = {}
  /\ Goto(n, IF AtCapacity(n) THEN "idle" ELSE "poll")
  /\ UNCHANGED <<storeVars, todo, future, attempt, running, hand, verdict,
                 saving, spoilt, runs>>

PollEmpty(n) ==
  /\ pc[n] = "poll" /\ queue = <<>> /\ n \notin spoilt
  /\ Goto(n, "idle")
  /\ UNCHANGED <<storeVars, todo, future, attempt, running, hand, verdict,
                 saving, spoilt, runs>>

Poll(n) ==
  /\ pc[n] = "poll" /\ queue # <<>> /\ n \notin spoilt
  /\ hand' = [hand EXCEPT ![n] = Head(queue)]
  /\ queue' = Tail(queue)
  /\ Goto(n, "popped")
  /\ UNCHANGED <<taskdb, projectdb, faults, todo, future, attempt, running,
                 verdict, saving, spoilt, runs>>

\* The exception of the pop leaves execute(); the queue stays as it is.
PollThrows(n) ==
  /\ pc[n] = "poll"
  /\ StillSpoilt(n) \/ RedisFails(n)
  /\ Goto(n, "idle")
  /\ UNCHANGED <<taskdb, projectdb, queue, todo, future, attempt, running, hand,
                 verdict, saving, runs>>

\* Mutant: compares task ids instead of the firings they belong to.
AlreadyRunningTask(n) == hand[n].task \in FutureList(n)

AlreadyRunning(n) == InstanceOf[hand[n].task] \in running[n]

\* Mutant: the message is not put back.
PutBackLost(n, m) == UNCHANGED <<queue, faults, spoilt>>

PutBack(n, m) == \/ Push(m) /\ UNCHANGED <<faults, spoilt>>
                 \/ RedisFails(n) /\ UNCHANGED queue

\* Another worker of the same firing runs here: back to the tail.
Requeue(n) ==
  /\ pc[n] = "popped" /\ AlreadyRunning(n)
  /\ PutBack(n, hand[n])
  /\ hand' = [hand EXCEPT ![n] = NoMsg]
  /\ Goto(n, "idle")
  /\ UNCHANGED <<taskdb, projectdb, todo, future, attempt, running, verdict,
                 saving, runs>>

LookUp(n) ==
  /\ pc[n] = "popped" /\ ~AlreadyRunning(n)
  /\ \E s \in ProjectStatus :
        ReadProject(ProjectOf[hand[n].task], s)
        /\ verdict' = [verdict EXCEPT ![n] = s]
  /\ Goto(n, "decided")
  /\ UNCHANGED <<taskdb, projectdb, queue, todo, future, attempt, running,
                 hand, saving, spoilt, runs>>

\* A row the loader cannot read throws something other than the
\* SQLException execute() catches; the message is gone.
LookUpThrows(n) ==
  /\ pc[n] = "popped" /\ ~AlreadyRunning(n)
  /\ Fault
  /\ hand' = [hand EXCEPT ![n] = NoMsg]
  /\ Goto(n, "idle")
  /\ UNCHANGED <<taskdb, projectdb, queue, todo, future, attempt, running,
                 verdict, saving, spoilt, runs>>

Settle(n) ==
  /\ hand' = [hand EXCEPT ![n] = NoMsg]
  /\ verdict' = [verdict EXCEPT ![n] = "ABSENT"]
  /\ Goto(n, "idle")

Submit(n) ==
  /\ pc[n] = "decided" /\ verdict[n] \in Enabled
  /\ SaveOneTask(hand[n].task, "RUNNING")
  /\ SubmitTask(n, hand[n])
  /\ Settle(n)
  /\ UNCHANGED <<projectdb, queue, todo, saving, spoilt, runs>>

Discard(n) ==
  /\ pc[n] = "decided" /\ verdict[n] \notin Enabled
  /\ SaveOneTask(hand[n].task, IF verdict[n] = "STOP" THEN "STOP" ELSE "DELETE")
  /\ Settle(n)
  /\ UNCHANGED <<projectdb, queue, todo, future, attempt, running, saving,
                 spoilt, runs>>

-----------------------------------------------------------------------------
(* The environment *)

\* The process dies and is started again: all but the tables and the Redis
\* list is lost.
Crash(n) ==
  /\ Fault
  /\ Goto(n, "idle")
  /\ todo' = [todo EXCEPT ![n] = {}]
  /\ future' = [future EXCEPT ![n] = [t \in Tasks |-> "none"]]
  /\ attempt' = [attempt EXCEPT ![n] = [t \in Tasks |-> 0]]
  /\ running' = [running EXCEPT ![n] = {}]
  /\ hand' = [hand EXCEPT ![n] = NoMsg]
  /\ verdict' = [verdict EXCEPT ![n] = "ABSENT"]
  /\ saving' = [saving EXCEPT ![n] = NoTask]
  /\ spoilt' = spoilt \ {n}
  /\ UNCHANGED <<taskdb, projectdb, queue, runs>>

\* TaskTrigger finds a task ready: it saves the row, then pushes the task.
Release(t) ==
  /\ taskdb[t] = "INIT"
  /\ taskdb' = [taskdb EXCEPT ![t] = "ACTIVE"]
  /\ Push([task |-> t, retry |-> 0])
  /\ UNCHANGED <<projectdb, faults, nodeVars, runs>>

UserEdit(p, s) == EditProject(p, s) /\ UNCHANGED <<nodeVars, runs>>

-----------------------------------------------------------------------------
Collect(n) == \E t \in Tasks : \/ CollectDone(n, t)
                               \/ CollectRetry(n, t)
                               \/ CollectRetryThrows(n, t)
                               \/ CollectPending(n, t)

Execute(n) == \/ Begin(n) \/ Collect(n) \/ SaveRetry(n)
              \/ CheckCapacity(n) \/ PollEmpty(n) \/ Poll(n) \/ PollThrows(n)
              \/ Requeue(n) \/ LookUp(n) \/ LookUpThrows(n)
              \/ Submit(n) \/ Discard(n)

Next == \/ \E n \in Nodes : Execute(n) \/ Crash(n)
        \/ \E n \in Nodes, t \in Tasks : StartThread(n, t) \/ Finish(n, t)
        \/ \E t \in Tasks : Release(t)
        \/ \E p \in Projects, s \in Edits : UserEdit(p, s)

\* Quartz keeps firing execute, a pool thread that can run does, and task
\* bodies end.
Fairness ==
  /\ \A n \in Nodes : WF_vars(Execute(n))
  /\ \A n \in Nodes, t \in Tasks :
        WF_vars(StartThread(n, t)) /\ WF_vars(Finish(n, t))

Spec == Init /\ [][Next]_vars
FairSpec == Spec /\ Fairness

-----------------------------------------------------------------------------
(* Properties *)

InQueue(t) == \E i \in 1..Len(queue) : queue[i].task = t
InHand(n, t) == hand[n] # NoMsg /\ hand[n].task = t
Holds(n, t) == InHand(n, t) \/ t \in FutureList(n)

\* No two messages of the queue name one task.
DistinctMessages ==
  \A i, j \in 1..Len(queue) : queue[i].task = queue[j].task => i = j

\* A task that a node holds is held once and is not in the queue.
Exclusive ==
  \A t \in Tasks, n \in Nodes :
    Holds(n, t) =>
      /\ ~InQueue(t)
      /\ ~(InHand(n, t) /\ t \in FutureList(n))
      /\ \A m \in Nodes : Holds(m, t) => m = n

\* A released task is in one place only: one message of the queue, one
\* message taken off it, or one future of one node.  Retry, requeueing and
\* crashes never give two nodes the same task (the pushes of WorkTrigger).
SingleCopy == DistinctMessages /\ Exclusive

\* On a node no two workers of one firing have a future, and runningTasks
\* names exactly the firings that have one: removing the name when one task
\* is collected never frees a firing that still runs.
OneWorkerPerInstance ==
  \A n \in Nodes :
    /\ running[n] = {InstanceOf[t] : t \in FutureList(n)}
    /\ \A t, u \in FutureList(n) : InstanceOf[t] = InstanceOf[u] => t = u

\* Whatever crashes and failed pushes do to the count a task carries, its
\* body is started at most once per retry allowed and once more.
RetriesBounded == \A t \in Tasks : runs[t] <= Retry + 1

\* As long as no connection to Redis is spoilt, a task is reported FAIL only
\* after every retry its project allows has been pushed and has run.
FailMeansExhausted ==
  spoilt = {} => \A t \in Tasks : taskdb[t] = "FAIL" => runs[t] = Retry + 1

\* Without failures, a row that says a task is waiting or running is backed
\* by a message or a future: nothing else would ever touch the row again.
NoTaskLost ==
  \A t \in Tasks :
    /\ taskdb[t] = "ACTIVE" => InQueue(t) \/ \E n \in Nodes : InHand(n, t)
    /\ taskdb[t] = "RUNNING" =>
         \E n \in Nodes : t \in FutureList(n) \/ saving[n] = t

\* A task whose row says it is settled is in no queue, no hand and no list of
\* futures: no node will run it again, however late the saves of another node
\* are and whichever of the failures have happened.
SettledIsGone ==
  \A t \in Tasks : taskdb[t] \in Settled =>
    ~InQueue(t) /\ \A n \in Nodes : ~Holds(n, t)

\* Every task in the queue whose body returns is settled in the end, also by a
\* node whose connection is spoilt while it has the task, and whether or not
\* other workers of its firing are in the way.  The exception is a task that is
\* still in the queue when no node is left that can pop it.
EventuallySettled ==
  \A t \in Tasks :
    InQueue(t) ~> taskdb[t] \in Settled \/ (InQueue(t) /\ spoilt = Nodes)

-----------------------------------------------------------------------------
(* The queue and the nodes as an implementation of WorkTokens *)

Holders(t) == {n \in Nodes : Holds(n, t)}

Place(t) ==
  CASE InQueue(t) -> "queue"
    [] ~InQueue(t) /\ Holders(t) # {} -> CHOOSE n \in Nodes : Holds(n, t)
    [] OTHER -> IF taskdb[t] = "INIT" THEN "new" ELSE "gone"

Queued(t) == CHOOSE i \in 1..Len(queue) : queue[i].task = t

RetriesUsed(t) ==
  LET p == Place(t)
  IN  CASE p = "queue" -> queue[Queued(t)].retry
        [] p \in {"new", "gone"} -> 0
        [] OTHER -> IF InHand(p, t) THEN hand[p].retry ELSE attempt[p][t]

Tokens == INSTANCE WorkTokens
  WITH place <- [t \in Tasks |-> Place(t)],
       used <- [t \in Tasks |-> RetriesUsed(t)],
       starts <- runs

\* A released task is a token that moves between the queue and the nodes, is
\* never copied by retries, requeueing, failed pushes or crashes, and whose
\* retry_count, carried along in messages and futures, allows each start.
ImplementsTokens == Tokens!Spec
=============================================================================
