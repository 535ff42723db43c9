--------------------------------- MODULE Zeus ---------------------------------
(***************************************************************************)
(* The scheduler as a whole: TaskTrigger and the WorkTriggers of the nodes *)
(* run side by side over one taskdb, one projectdb and one Redis list.  In *)
(* TaskTrigger the nodes, and in WorkTrigger the trigger, are a single     *)
(* abstract action of the environment (Work, Release); here each is the    *)
(* other's environment.                                                    *)
(***************************************************************************)
EXTENDS ZeusStore, FiniteSets

CONSTANTS
  Nodes, NoMsg, NoTask,
  PoolSize, MaxActive, Retry, CronProjects, Outcomes,
  Requires, Lunch, Delay, Delta, Ignore, TicksPerSecond,
  Horizon, MaxCrashes, Edits

\* The constants are what the two components take them to be.
ASSUME TriggerAssumption ==
  /\ NoTask \notin Tasks
  /\ Requires \in [Tasks -> SUBSET Tasks]
  /\ Lunch \in [Tasks -> Nat]
  /\ Delay \in [Projects -> Nat]
  /\ TicksPerSecond \in Nat \ {0}
  /\ Delta \in Nat /\ Delta >= TicksPerSecond
  /\ Ignore \in Nat /\ Horizon \in Nat /\ MaxCrashes \in Nat
  /\ Edits \subseteq ProjectStatus

ASSUME WorkAssumption ==
  /\ PoolSize \in Nat \ {0} /\ MaxActive \in Nat \ {0} /\ Retry \in Nat
  /\ CronProjects \subseteq Projects
  /\ Outcomes \subseteq {"zero", "nonzero", "throws"}
  /\ NoMsg \notin [task : Tasks, retry : 0..Retry]
  /\ Nodes \cap {"new", "queue", "gone"} = {}

VARIABLES
  now, triggertime, triggerPc, cache, projectMap, initTasks, okTasks,
  released, crashes, pushed, lost,
  nodePc, todo, future, attempt, running, popped, verdict, saving, spoilt, runs

triggerVars == <<now, triggertime, triggerPc, cache, projectMap, initTasks,
                 okTasks, released, crashes, pushed, lost>>
nodesVars == <<nodePc, todo, future, attempt, running, popped, verdict, saving,
               spoilt, runs>>
vars == <<storeVars, triggerVars, nodesVars>>

Trigger == INSTANCE TaskTrigger WITH pc <- triggerPc, hand <- released
Work == INSTANCE WorkTrigger WITH pc <- nodePc, hand <- popped

\* No row exists at first.
Init ==
  /\ Trigger!Init
  /\ Work!InitNodes

TriggerStep == Trigger!InitLoad \/ Trigger!Execute

NodeStep(n) == Work!Execute(n)

ThreadStep(n, t) == Work!StartThread(n, t) \/ Work!Finish(n, t)

Next ==
  \/ /\ UNCHANGED nodesVars
     /\ \/ TriggerStep \/ Trigger!Tick \/ Trigger!Crash
        \/ \E t \in Tasks : Trigger!Create(t) \/ Trigger!Pass(t)
  \/ /\ UNCHANGED triggerVars
     /\ \/ \E n \in Nodes : NodeStep(n) \/ Work!Crash(n)
        \/ \E n \in Nodes, t \in Tasks : ThreadStep(n, t)
  \/ \E p \in Projects, s \in Edits :
        EditProject(p, s) /\ UNCHANGED <<triggerVars, nodesVars>>

\* As in the two components: Quartz fires both jobs, time passes, the pool
\* threads run and the bodies end.
Fairness ==
  /\ WF_vars(TriggerStep /\ UNCHANGED nodesVars)
  /\ WF_vars(Trigger!Tick /\ UNCHANGED nodesVars)
  /\ \A n \in Nodes : WF_vars(NodeStep(n) /\ UNCHANGED triggerVars)
  /\ \A n \in Nodes, t \in Tasks :
       WF_vars(ThreadStep(n, t) /\ UNCHANGED triggerVars)

Spec == Init /\ [][Next]_vars
FairSpec == Spec /\ Fairness

-----------------------------------------------------------------------------
(* Properties *)

Lifecycle == INSTANCE TaskLifecycle WITH status <- taskdb

\* Without failures the trigger and the nodes together take a row through its
\* life as promised: released after what it requires, retried at most Retry
\* times, FAIL only after the last retry, and never taken out of a final
\* status by a save of either side.
ImplementsLifecycle == Lifecycle!Spec

\* The rows as WorkTrigger knows them: a task that was not pushed is not yet
\* released, and that a user lets the dependents of a failed one go on is
\* nothing to the nodes.
Seen ==
  [t \in Tasks |-> IF pushed[t] = 0 THEN "INIT"
                   ELSE IF taskdb[t] = "PASSED" THEN "FAIL" ELSE taskdb[t]]

Alone == INSTANCE WorkTrigger WITH pc <- nodePc, hand <- popped, taskdb <- Seen

\* Without failures the nodes, fed by the real trigger, behave as they do in the
\* environment WorkTrigger supposes: every push is the one release of a task,
\* and nobody else touches the rows of the tasks released.
ImplementsWork == Alone!Spec

\* A row that says ACTIVE or RUNNING is backed by something: the push that
\* comes next, a message, a message in hand, or a future.
Backed(t) ==
  \/ released = t \/ Work!InQueue(t)
  \/ \E n \in Nodes : Work!Holds(n, t) \/ saving[n] = t

NoRowStranded ==
  \A t \in Tasks : taskdb[t] \in {"ACTIVE", "RUNNING"} => Backed(t)

\* No body starts while a task it requires is unfinished, or before the
\* lunchtime and delay of its own.
StartsInOrder ==
  [][\A t \in Tasks : runs'[t] # runs[t] =>
       /\ \A u \in Requires[t] : taskdb[u] \in Trigger!OkStatus
       /\ now > Lunch[t] + Delay[ProjectOf[t]]]_vars

\* Every row is settled in the end, unless its check lies beyond the bound on
\* the clock, or another task took its key in the cache.
Unfinished(t) == taskdb[t] \in {"INIT", "CHECKING", "ACTIVE", "RUNNING"}

EveryRowSettled ==
  \A t \in Tasks :
    Unfinished(t) ~>
      \/ taskdb[t] \in Settled
      \/ taskdb[t] = "CHECKING" /\ (t \in lost
                                    \/ triggertime[t] + TicksPerSecond > Horizon)
=============================================================================
