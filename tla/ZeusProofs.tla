------------------------------ MODULE ZeusProofs ------------------------------
(***************************************************************************)
(* Proofs about the scheduler as a whole when no statement or push fails:  *)
(* each component keeps, next to the other, what was proved of it alone    *)
(* next to an abstract environment.                                        *)
(***************************************************************************)
EXTENDS Zeus, TLAPS

\* The components with the lemmas proved about them.
T == INSTANCE TaskTriggerProofs WITH pc <- triggerPc, hand <- released
W == INSTANCE WorkRowsProofs WITH pc <- nodePc, hand <- popped, taskdb <- Seen

\* What the trigger keeps next to the nodes, and the nodes next to the trigger.
TriggerInv == T!TypeInv /\ T!CoreInv
NodesInv == W!TokenInv

-----------------------------------------------------------------------------
(* The lemmas of the components, for the constants of Zeus *)

\* Steps of the trigger, of time and of the others but the nodes.
LEMMA TriggerTyping ==
  T!TypeInv /\ (T!Own \/ T!Edit \/ UNCHANGED T!vars) => T!TypeInv'
BY T!Typing, StoreAssumption, TriggerAssumption
DEF T!Next, T!Own, T!Edit, ProjectStatus, T!ProjectStatus

\* A step of the trigger or of users keeps what the trigger relies on.
LEMMA TriggerKeeps ==
  ASSUME MaxFaults = 0, TriggerInv, T!Own \/ T!Edit \/ UNCHANGED T!vars
  PROVE  T!Keeps
BY T!OwnStep, StoreAssumption, TriggerAssumption
DEF TriggerInv, ProjectStatus, T!ProjectStatus

\* What a step of the trigger may do to rows, the queue and its history.
LEMMA TriggerMoves ==
  ASSUME MaxFaults = 0, TriggerInv, T!Own
  PROVE  /\ UNCHANGED <<projectdb, faults>>
         /\ \/ /\ UNCHANGED <<taskdb, queue, pushed>>
               /\ UNCHANGED <<released, crashes>> \/ crashes' = crashes + 1
            \/ UNCHANGED <<queue, pushed>> /\ \E t \in Tasks : T!Moves(t)
            \/ /\ T!Pushing /\ UNCHANGED <<taskdb, crashes>>
               /\ T!Push([task |-> released, retry |-> 0])
               /\ pushed' = [pushed EXCEPT ![released] = @ + 1]
BY T!OwnMoves, StoreAssumption, TriggerAssumption
DEF TriggerInv, ProjectStatus, T!ProjectStatus

\* Steps of WorkTrigger.
LEMMA NodesStep ==
  W!TokenInv /\ [W!Next]_W!vars => W!TokenInv'
BY W!TokenInvStep, StoreAssumption, TriggerAssumption, WorkAssumption
DEF W!Message, ProjectStatus, W!ProjectStatus

\* The nodes start with no token anywhere but in the rows.
LEMMA NodesInit == W!Init => W!TokenInv
BY W!TokenInvInit, StoreAssumption, TriggerAssumption, WorkAssumption
DEF W!Message, ProjectStatus, W!ProjectStatus

\* A task that a node holds has been released.
LEMMA HeldReleased ==
  ASSUME W!TokenInv, NEW n \in Nodes, NEW t \in Tasks, W!Holds(n, t)
  PROVE  Seen[t] # "INIT"
BY W!HeldReleased, StoreAssumption, TriggerAssumption, WorkAssumption
DEF W!Message, ProjectStatus, W!ProjectStatus
-----------------------------------------------------------------------------
(* The steps of Zeus as steps of the components *)

\* The actions of the two instances of TaskTrigger are the same.
LEMMA SameTrigger ==
  TriggerStep \/ Trigger!Tick \/ Trigger!Crash
    \/ (\E t \in Tasks : Trigger!Create(t) \/ Trigger!Pass(t)) => T!Own
<1>1. Trigger!InitLoad => T!InitLoad
  BY DEF Trigger!InitLoad, T!InitLoad, Trigger!Loaded, T!Loaded,
    Trigger!Checking, T!Checking, Trigger!Fault, T!Fault, Trigger!Empty,
    T!Empty
<1>2. Trigger!LoadProjects => T!LoadProjects
  BY DEF Trigger!LoadProjects, T!LoadProjects, Trigger!Fault, T!Fault,
    Trigger!NoProjects, T!NoProjects, Trigger!history, T!history
<1>3. Trigger!LoadInitTasks => T!LoadInitTasks
  BY DEF Trigger!LoadInitTasks, T!LoadInitTasks, Trigger!Read, T!Read,
    Trigger!Fault, T!Fault, Trigger!history, T!history
<1>4. Trigger!LoadSuccessOrPassed => T!LoadSuccessOrPassed
  BY DEF Trigger!LoadSuccessOrPassed, T!LoadSuccessOrPassed,
    Trigger!SuccessOrPassedTasks, T!SuccessOrPassedTasks, Trigger!OkStatus,
    T!OkStatus, Trigger!Read, T!Read, Trigger!Fault, T!Fault, Trigger!history,
    T!history
<1>5. \A t \in Tasks : Trigger!Orphan(t) => T!Orphan(t)
  BY DEF Trigger!Orphan, T!Orphan, Trigger!Visit, T!Visit, Trigger!Project,
    T!Project, Trigger!storeVars, T!storeVars, Trigger!history, T!history
<1>6. \A t \in Tasks : Trigger!ReleaseInit(t) => T!ReleaseInit(t)
  BY DEF Trigger!ReleaseInit, T!ReleaseInit, Trigger!Visit, T!Visit,
    Trigger!Project, T!Project, Trigger!TimeHasCome, T!TimeHasCome,
    Trigger!CheckTask, T!CheckTask, Trigger!Required, T!Required,
    Trigger!SaveOneTask, T!SaveOneTask, Trigger!Fault, T!Fault,
    Trigger!history, T!history
<1>7. \A t \in Tasks : Trigger!ParkInit(t) => T!ParkInit(t)
  BY DEF Trigger!ParkInit, T!ParkInit, Trigger!Visit, T!Visit,
    Trigger!Project, T!Project, Trigger!TimeHasCome, T!TimeHasCome,
    Trigger!CheckTask, T!CheckTask, Trigger!Required, T!Required,
    Trigger!Park, T!Park, Trigger!PutCache, T!PutCache, Trigger!Replaced,
    T!Replaced, Trigger!SaveChecking, T!SaveChecking, Trigger!Truncate,
    T!Truncate, Trigger!Fault, T!Fault
<1>8. Trigger!PushInit => T!PushInit
  BY DEF Trigger!PushInit, T!PushInit, Trigger!PushHand, T!PushHand,
    Trigger!Push, T!Push, Trigger!Fault, T!Fault
<1>9. Trigger!PushCache => T!PushCache
  BY DEF Trigger!PushCache, T!PushCache, Trigger!PushHand, T!PushHand,
    Trigger!Push, T!Push, Trigger!Fault, T!Fault, Trigger!PollFirst,
    T!PollFirst, Trigger!FirstKey, T!FirstKey
<1>10. Trigger!PushThrows => T!PushThrows
  BY DEF Trigger!PushThrows, T!PushThrows, Trigger!Fault, T!Fault,
    Trigger!history, T!history
<1>11. Trigger!InitDone => T!InitDone
  BY DEF Trigger!InitDone, T!InitDone, Trigger!storeVars, T!storeVars,
    Trigger!memory, T!memory, Trigger!history, T!history
<1>12. Trigger!CacheDone => T!CacheDone
  BY DEF Trigger!CacheDone, T!CacheDone, Trigger!FirstDue, T!FirstDue,
    Trigger!FirstKey, T!FirstKey, Trigger!Empty, T!Empty, Trigger!storeVars,
    T!storeVars, Trigger!memory, T!memory, Trigger!history, T!history
<1>13. \A t \in Tasks : Trigger!ReleaseChecked(t) => T!ReleaseChecked(t)
  BY DEF Trigger!ReleaseChecked, T!ReleaseChecked, Trigger!Check, T!Check,
    Trigger!FirstDue, T!FirstDue, Trigger!FirstKey, T!FirstKey, Trigger!Empty,
    T!Empty, Trigger!Project, T!Project, Trigger!Enabled, T!Enabled,
    Trigger!CheckTask, T!CheckTask, Trigger!Required, T!Required,
    Trigger!SaveOneTask, T!SaveOneTask, Trigger!Fault, T!Fault,
    Trigger!history, T!history
<1>14. \A t \in Tasks : Trigger!ParkAgain(t) => T!ParkAgain(t)
  BY DEF Trigger!ParkAgain, T!ParkAgain, Trigger!Check, T!Check,
    Trigger!FirstDue, T!FirstDue, Trigger!FirstKey, T!FirstKey, Trigger!Empty,
    T!Empty, Trigger!PollFirst, T!PollFirst, Trigger!Project, T!Project,
    Trigger!Enabled, T!Enabled, Trigger!CheckTask, T!CheckTask,
    Trigger!Required, T!Required, Trigger!TooOld, T!TooOld, Trigger!Park,
    T!Park, Trigger!PutCache, T!PutCache, Trigger!Replaced, T!Replaced,
    Trigger!SaveChecking, T!SaveChecking, Trigger!Truncate, T!Truncate,
    Trigger!Fault, T!Fault
<1>15. \A t \in Tasks : Trigger!Drop(t) => T!Drop(t)
  BY DEF Trigger!Drop, T!Drop, Trigger!Check, T!Check, Trigger!FirstDue,
    T!FirstDue, Trigger!FirstKey, T!FirstKey, Trigger!Empty, T!Empty,
    Trigger!PollFirst, T!PollFirst, Trigger!Project, T!Project,
    Trigger!Enabled, T!Enabled, Trigger!CheckTask, T!CheckTask,
    Trigger!Required, T!Required, Trigger!TooOld, T!TooOld,
    Trigger!SaveOneTask, T!SaveOneTask, Trigger!Fault, T!Fault,
    Trigger!history, T!history
<1>16. Trigger!Crash => T!Crash
  BY DEF Trigger!Crash, T!Crash, Trigger!Empty, T!Empty, Trigger!NoProjects,
    T!NoProjects, Trigger!storeVars, T!storeVars, Trigger!history, T!history
<1>17. Trigger!Tick => T!Tick
  BY DEF Trigger!Tick, T!Tick, Trigger!storeVars, T!storeVars, Trigger!memory,
    T!memory, Trigger!history, T!history
<1>18. \A t \in Tasks : Trigger!Create(t) \/ Trigger!Pass(t) => T!Create(t) \/ T!Pass(t)
  BY DEF Trigger!Create, T!Create, Trigger!Pass, T!Pass, Trigger!memory,
    T!memory, Trigger!history, T!history
<1>19. Trigger!Execute => T!Execute
  BY <1>2, <1>3, <1>4, <1>5, <1>6, <1>7, <1>8, <1>9, <1>10, <1>11, <1>12, <1>13,
    <1>14, <1>15 DEF Trigger!Execute, T!Execute
<1> QED
  BY <1>1, <1>16, <1>17, <1>18, <1>19 DEF TriggerStep, T!Own

\* The save of a row by a node: of a task that was pushed.
SavedStatus == {"ACTIVE", "RUNNING", "SUCCESS", "FAIL", "STOP", "DELETE"}

Stored(t, s) == pushed[t] # 0 /\ taskdb' = [taskdb EXCEPT ![t] = s]

NodeMoves == \E t \in Tasks, s \in SavedStatus : Stored(t, s)

\* The step of WorkTrigger it belongs to.
Saves(n, t, s) ==
  /\ Stored(t, s)
  /\ \/ W!CollectDone(n, t) /\ s = W!FinalStatus(n, t)
     \/ W!CollectPending(n, t) /\ s = "RUNNING"
     \/ W!SaveRetry(n) /\ t = saving[n] /\ s = "ACTIVE"
     \/ W!Submit(n) /\ t = popped[n].task /\ s = "RUNNING"
     \/ W!Discard(n) /\ t = popped[n].task /\ s \in {"STOP", "DELETE"}

\* Such a save is one for WorkTrigger as well.
LEMMA SeenSave ==
  ASSUME MaxFaults = 0, TriggerInv, NodesInv, UNCHANGED triggerVars,
         NEW t \in Tasks, Seen[t] # "INIT",
         NEW s \in SavedStatus, Work!SaveOneTask(t, s)
  PROVE  W!SaveOneTask(t, s) /\ Stored(t, s)
<1>1. faults = 0 /\ taskdb \in [Tasks -> T!RowStatus]
  BY DEF TriggerInv, T!TypeInv, T!TypeOK
<1>2. taskdb' = [taskdb EXCEPT ![t] = s] /\ UNCHANGED faults
  BY <1>1 DEF Work!SaveOneTask, Work!Fault
<1>3. pushed[t] # 0 /\ pushed' = pushed
  BY DEF Seen, triggerVars
<1>4. Seen' = [Seen EXCEPT ![t] = s]
  BY <1>1, <1>2, <1>3 DEF Seen, SavedStatus
<1> QED
  BY <1>2, <1>3, <1>4 DEF W!SaveOneTask, Stored

\* A step of a node is one of WorkTrigger.
LEMMA MapExecute ==
  ASSUME MaxFaults = 0, TriggerInv, NodesInv, UNCHANGED triggerVars,
         NEW n \in Nodes, NodeStep(n)
  PROVE  /\ W!Execute(n)
         /\ UNCHANGED taskdb \/ \E t \in Tasks, s \in SavedStatus : Saves(n, t, s)
<1> DEFINE Maps ==
      /\ W!Execute(n)
      /\ UNCHANGED taskdb \/ \E t \in Tasks, s \in SavedStatus : Saves(n, t, s)
<1>1. UNCHANGED taskdb => UNCHANGED Seen
  BY DEF Seen, triggerVars
<1>2. ASSUME NEW t \in Tasks, Work!CollectDone(n, t) PROVE Maps
  <2>1. Seen[t] # "INIT"
    <3>1. t \in Tasks /\ W!Holds(n, t)
      BY <1>2 DEF Work!CollectDone, W!Holds, W!FutureList
    <3> QED
      BY <3>1, HeldReleased DEF NodesInv
  <2>2. /\ Work!SaveOneTask(t, Work!FinalStatus(n, t))
        /\ Work!FinalStatus(n, t) \in SavedStatus
        /\ Work!FinalStatus(n, t) = W!FinalStatus(n, t)
    BY <1>2 DEF Work!CollectDone, Work!FinalStatus, W!FinalStatus, SavedStatus
  <2>3. W!SaveOneTask(t, Work!FinalStatus(n, t)) /\ Stored(t, Work!FinalStatus(n, t))
    BY <2>1, <2>2, SeenSave
  <2>4. W!CollectDone(n, t)
    BY <1>2, <2>3 DEF Work!CollectDone, W!CollectDone, Work!Visit, W!Visit,
      Work!RetriesLeft, W!RetriesLeft, Work!FinalStatus, W!FinalStatus,
      Work!Forget, W!Forget, Work!SetFuture, W!SetFuture
  <2>5. Saves(n, t, W!FinalStatus(n, t))
    BY <2>2, <2>3, <2>4 DEF Saves
  <2> QED
    BY <2>2, <2>4, <2>5 DEF W!Execute, W!Collect
<1>3. ASSUME NEW t \in Tasks, Work!CollectPending(n, t) PROVE Maps
  <2>1. Seen[t] # "INIT"
    <3>1. t \in Tasks /\ W!Holds(n, t)
      BY <1>3 DEF Work!CollectPending, W!Holds, W!FutureList
    <3> QED
      BY <3>1, HeldReleased DEF NodesInv
  <2>2. W!SaveOneTask(t, "RUNNING") /\ Stored(t, "RUNNING")
    BY <1>3, <2>1, SeenSave DEF Work!CollectPending, SavedStatus
  <2>3. W!CollectPending(n, t)
    BY <1>3, <2>2 DEF Work!CollectPending, W!CollectPending, Work!Visit,
      W!Visit
  <2>4. Saves(n, t, "RUNNING")
    BY <2>2, <2>3 DEF Saves
  <2> QED
    BY <2>3, <2>4 DEF W!Execute, W!Collect, SavedStatus
<1>4. CASE Work!SaveRetry(n)
  <2>1. saving[n] \in Tasks /\ Seen[saving[n]] # "INIT"
    BY <1>4 DEF Work!SaveRetry, NodesInv, W!TokenInv, W!SavesReleased, W!TypeInv,
      W!Steps
  <2>2. W!SaveOneTask(saving[n], "ACTIVE") /\ Stored(saving[n], "ACTIVE")
    BY <1>4, <2>1, SeenSave DEF Work!SaveRetry, SavedStatus
  <2>3. W!SaveRetry(n)
    BY <1>4, <2>2 DEF Work!SaveRetry, W!SaveRetry, Work!Goto, W!Goto
  <2>4. Saves(n, saving[n], "ACTIVE")
    BY <2>2, <2>3 DEF Saves
  <2> QED
    BY <2>1, <2>3, <2>4 DEF W!Execute, SavedStatus
<1>5. CASE Work!Submit(n) \/ Work!Discard(n)
  <2> DEFINE t == popped[n].task
  <2>1. t \in Tasks /\ Seen[t] # "INIT"
    <3>1. popped[n] # NoMsg /\ popped[n] \in W!Message
      BY <1>5 DEF Work!Submit, Work!Discard, NodesInv, W!TokenInv, W!TypeInv,
        W!TypeOK, W!Steps
    <3>2. W!Holds(n, t) /\ t \in Tasks
      BY <3>1 DEF W!Holds, W!InHand, W!Message
    <3> QED
      BY <3>2, HeldReleased DEF NodesInv
  <2>2. CASE Work!Submit(n)
    <3>1. W!SaveOneTask(t, "RUNNING") /\ Stored(t, "RUNNING")
      BY <2>1, <2>2, SeenSave DEF Work!Submit, SavedStatus
    <3>2. W!Submit(n)
      BY <2>2, <3>1 DEF Work!Submit, W!Submit, Work!Enabled, W!Enabled,
        Work!SubmitTask, W!SubmitTask, Work!SetFuture, W!SetFuture,
        Work!Settle, W!Settle, Work!Goto, W!Goto
    <3>3. Saves(n, t, "RUNNING")
      BY <3>1, <3>2 DEF Saves
    <3> QED
      BY <2>1, <3>2, <3>3 DEF W!Execute, SavedStatus
  <2>3. CASE Work!Discard(n)
    <3> DEFINE s == IF verdict[n] = "STOP" THEN "STOP" ELSE "DELETE"
    <3>1. W!SaveOneTask(t, s) /\ Stored(t, s)
      <4>1. Work!SaveOneTask(t, s) /\ s \in {"STOP", "DELETE"}
        BY <2>3 DEF Work!Discard
      <4> QED
        BY <2>1, <4>1, SeenSave DEF SavedStatus
    <3>2. W!Discard(n)
      BY <2>3, <3>1 DEF Work!Discard, W!Discard, Work!Enabled, W!Enabled,
        Work!Settle, W!Settle, Work!Goto, W!Goto
    <3>3. Saves(n, t, s)
      BY <3>1, <3>2 DEF Saves
    <3> QED
      BY <2>1, <3>2, <3>3 DEF W!Execute, SavedStatus
  <2> QED
    BY <1>5, <2>2, <2>3
<1>6. ASSUME NEW t \in Tasks,
             Work!CollectRetry(n, t) \/ Work!CollectRetryThrows(n, t)
      PROVE  Maps
  <2>1. UNCHANGED taskdb
    BY <1>6 DEF Work!CollectRetry, Work!CollectRetryThrows
  <2>2. W!CollectRetry(n, t) \/ W!CollectRetryThrows(n, t)
    BY <1>1, <1>6, <2>1 DEF Work!CollectRetry, W!CollectRetry,
      Work!CollectRetryThrows, W!CollectRetryThrows, Work!Visit, W!Visit,
      Work!RetriesLeft, W!RetriesLeft, Work!Serializable, W!Serializable,
      Work!Push, W!Push, Work!PushThrows, W!PushThrows, Work!StillSpoilt,
      W!StillSpoilt, Work!RedisFails, W!RedisFails, Work!Fault, W!Fault,
      Work!Forget, W!Forget, Work!SetFuture, W!SetFuture, Work!Goto, W!Goto
  <2> QED
    BY <2>1, <2>2 DEF W!Execute, W!Collect
<1>7. CASE Work!Begin(n) \/ Work!CheckCapacity(n) \/ Work!PollEmpty(n)
  <2>1. UNCHANGED taskdb
    BY <1>7 DEF Work!Begin, Work!CheckCapacity, Work!PollEmpty, Work!storeVars
  <2>2. CASE Work!Begin(n)
    <3>1. Work!FutureList(n) = W!FutureList(n)
      BY DEF Work!FutureList, W!FutureList
    <3>2. W!Begin(n)
      BY <1>1, <2>1, <2>2, <3>1 DEF Work!Begin, W!Begin, Work!Goto, W!Goto,
        Work!storeVars, W!storeVars
    <3> QED
      BY <2>1, <3>2 DEF W!Execute
  <2>3. CASE Work!CheckCapacity(n)
    <3>1. Work!AtCapacity(n) <=> W!AtCapacity(n)
      BY DEF Work!AtCapacity, W!AtCapacity, Work!WorkingCount, W!WorkingCount,
        Work!Cardinality, W!Cardinality
    <3>2. W!CheckCapacity(n)
      BY <1>1, <2>1, <2>3, <3>1 DEF Work!CheckCapacity, W!CheckCapacity,
        Work!Goto, W!Goto, Work!storeVars, W!storeVars
    <3> QED
      BY <2>1, <3>2 DEF W!Execute
  <2>4. CASE Work!PollEmpty(n)
    <3>1. W!PollEmpty(n)
      BY <1>1, <2>1, <2>4 DEF Work!PollEmpty, W!PollEmpty, Work!Goto, W!Goto,
        Work!storeVars, W!storeVars
    <3> QED
      BY <2>1, <3>1 DEF W!Execute
  <2> QED
    BY <1>7, <2>2, <2>3, <2>4
<1>8. CASE Work!Poll(n) \/ Work!PollThrows(n) \/ Work!Requeue(n)
  <2>1. UNCHANGED taskdb
    BY <1>8 DEF Work!Poll, Work!PollThrows, Work!Requeue
  <2>2. W!Poll(n) \/ W!PollThrows(n) \/ W!Requeue(n)
    BY <1>1, <1>8, <2>1 DEF Work!Poll, W!Poll, Work!PollThrows, W!PollThrows,
      Work!Requeue, W!Requeue, Work!AlreadyRunning, W!AlreadyRunning,
      Work!PutBack, W!PutBack, Work!StillSpoilt, W!StillSpoilt,
      Work!RedisFails, W!RedisFails, Work!Push, W!Push, Work!Fault, W!Fault,
      Work!Goto, W!Goto
  <2> QED
    BY <2>1, <2>2 DEF W!Execute
<1>9. CASE Work!LookUp(n) \/ Work!LookUpThrows(n)
  <2>1. UNCHANGED taskdb
    BY <1>9 DEF Work!LookUp, Work!LookUpThrows
  <2>2. W!LookUp(n) \/ W!LookUpThrows(n)
    BY <1>1, <1>9, <2>1 DEF Work!LookUp, W!LookUp, Work!LookUpThrows,
      W!LookUpThrows, Work!AlreadyRunning, W!AlreadyRunning, Work!ReadProject,
      W!ReadProject, Work!Fault, W!Fault, Work!Goto, W!Goto, ProjectStatus,
      Work!ProjectStatus, W!ProjectStatus
  <2> QED
    BY <2>1, <2>2 DEF W!Execute
<1> QED
  BY <1>2, <1>3, <1>4, <1>5, <1>6, <1>7, <1>8, <1>9
  DEF NodeStep, Work!Execute, Work!Collect
\* So are those of its pool; with no failure allowed, no node dies.
LEMMA MapThreads ==
  ASSUME MaxFaults = 0, TriggerInv, UNCHANGED triggerVars,
         \/ \E n \in Nodes, t \in Tasks : ThreadStep(n, t)
         \/ \E n \in Nodes : Work!Crash(n)
  PROVE  /\ UNCHANGED <<taskdb, queue, projectdb, faults>>
         /\ \E n \in Nodes, t \in Tasks : W!StartThread(n, t) \/ W!Finish(n, t)
<1>1. \A n \in Nodes : ~Work!Crash(n)
  BY DEF Work!Crash, Work!Fault, TriggerInv, T!TypeInv, T!TypeOK
<1>2. PICK n \in Nodes, t \in Tasks : Work!StartThread(n, t) \/ Work!Finish(n, t)
  BY <1>1 DEF ThreadStep
<1>3. UNCHANGED <<taskdb, queue, projectdb, faults>>
  BY <1>2 DEF Work!StartThread, Work!Finish, Work!storeVars
<1>4. UNCHANGED Seen
  BY <1>3 DEF Seen, triggerVars
<1>5. Work!WorkingCount(n) = W!WorkingCount(n)
  BY DEF Work!WorkingCount, W!WorkingCount, Work!Cardinality, W!Cardinality
<1>6. W!StartThread(n, t) \/ W!Finish(n, t)
  BY <1>2, <1>3, <1>4, <1>5 DEF Work!StartThread, W!StartThread, Work!Finish,
    W!Finish, Work!SetFuture, W!SetFuture, Work!storeVars, W!storeVars
<1> QED
  BY <1>3, <1>6

\* The trigger moves rows that WorkTrigger takes for INIT, and its push is the
\* release.
LEMMA MapTrigger ==
  ASSUME MaxFaults = 0, TriggerInv, T!Own, UNCHANGED nodesVars
  PROVE  UNCHANGED W!vars \/ \E t \in Tasks : W!Release(t)
<1>1. /\ taskdb \in [Tasks -> T!RowStatus] /\ pushed \in [Tasks -> Nat]
      /\ T!Pushing => released \in Tasks
  BY DEF TriggerInv, T!TypeInv, T!TypeOK, T!FormInv
<1>2. UNCHANGED <<projectdb, faults>>
  BY TriggerMoves
<1>3. CASE UNCHANGED <<taskdb, queue, pushed>>
  BY <1>2, <1>3 DEF Seen, W!vars, W!storeVars, W!nodeVars, nodesVars
<1>4. CASE UNCHANGED <<queue, pushed>> /\ \E t \in Tasks : T!Moves(t)
  <2>1. PICK t \in Tasks, s \in T!RowStatus :
          /\ taskdb' = [taskdb EXCEPT ![t] = s]
          /\ \/ taskdb[t] \in {"NONE", "INIT", "CHECKING"}
             \/ taskdb[t] = "FAIL" /\ s = "PASSED"
    BY <1>4 DEF T!Moves
  <2>2. pushed[t] = 0 \/ (taskdb[t] = "FAIL" /\ s = "PASSED")
    BY <2>1 DEF TriggerInv, T!CoreInv, T!PushInv
  <2>3. UNCHANGED Seen
    BY <1>1, <1>4, <2>1, <2>2 DEF Seen
  <2> QED
    BY <1>2, <1>4, <2>3 DEF W!vars, W!storeVars, W!nodeVars, nodesVars
<1>5. CASE /\ T!Pushing /\ UNCHANGED <<taskdb, crashes>>
           /\ T!Push([task |-> released, retry |-> 0])
           /\ pushed' = [pushed EXCEPT ![released] = @ + 1]
  <2>1. released \in Tasks /\ taskdb[released] = "ACTIVE" /\ pushed[released] = 0
    BY <1>1, <1>5 DEF TriggerInv, T!CoreInv, T!RowInv, T!PushInv
  <2>2. pushed'[released] = 1 /\ \A u \in Tasks : u # released => pushed'[u] = pushed[u]
    BY <1>1, <1>5, <2>1
  <2>3. Seen[released] = "INIT" /\ Seen'[released] = "ACTIVE"
    BY <1>5, <2>1, <2>2 DEF Seen
  <2>4. \A u \in Tasks : u # released => Seen'[u] = Seen[u]
    BY <1>5, <2>2 DEF Seen
  <2>5. Seen' = [Seen EXCEPT ![released] = "ACTIVE"]
    <3>1. /\ Seen = [u \in Tasks |-> Seen[u]]
          /\ Seen' = [u \in Tasks |-> Seen'[u]]
      BY DEF Seen
    <3> HIDE DEF Seen
    <3> QED
      BY <2>1, <2>3, <2>4, <3>1
  <2>6. W!Release(released)
    BY <1>2, <1>5, <2>3, <2>5 DEF W!Release, W!Push, T!Push, W!nodeVars, nodesVars
  <2> QED
    BY <2>1, <2>6
<1> QED
  BY <1>3, <1>4, <1>5, TriggerMoves
-----------------------------------------------------------------------------
(* The nodes with the trigger implement WorkTrigger *)

\* Messages are messages for the trigger.
LEMMA QueueTyped == NodesInv => queue \in Seq([task : Tasks, retry : Nat])
<1> SUFFICES ASSUME NodesInv PROVE queue \in Seq([task : Tasks, retry : Nat])
  OBVIOUS
<1>1. queue \in Seq(W!Message) /\ W!Message \subseteq [task : Tasks, retry : Nat]
  BY DEF NodesInv, W!TokenInv, W!TypeInv, W!TypeOK, W!Message
<1> DEFINE M == [task : Tasks, retry : Nat]
<1> HIDE DEF M
<1>2. queue \in Seq(W!Message) /\ W!Message \subseteq M
  BY <1>1 DEF M
<1>3. queue \in Seq(M)
  BY <1>2
<1> QED
  BY <1>3 DEF M

\* What the nodes do to the rows of pushed tasks, and to the queue, is nothing
\* to the cache and to the rows of the tasks still to be pushed.
LEMMA NodesKeepTrigger ==
  ASSUME TriggerInv, NodesInv', UNCHANGED <<triggerVars, projectdb>>,
         UNCHANGED taskdb \/ NodeMoves
  PROVE  TriggerInv'
<1>1. UNCHANGED <<now, triggertime, triggerPc, cache, projectMap, initTasks,
                  okTasks, released, crashes, pushed, lost>>
  BY DEF triggerVars
<1>2. taskdb \in [Tasks -> T!RowStatus]
  BY DEF TriggerInv, T!TypeInv, T!TypeOK
<1>3. /\ taskdb' \in [Tasks -> T!RowStatus]
      /\ \A t \in Tasks :
           \/ taskdb'[t] = taskdb[t]
           \/ /\ pushed[t] # 0
              /\ taskdb'[t] \in {"ACTIVE", "RUNNING", "SUCCESS", "FAIL", "STOP",
                                 "DELETE"}
  BY <1>2 DEF NodeMoves, Stored, SavedStatus, T!RowStatus, T!TaskStatus
<1>4. queue' \in Seq([task : Tasks, retry : Nat])
  <2>1. (NodesInv => queue \in Seq([task : Tasks, retry : Nat]))'
    BY QueueTyped, PTL
  <2> QED
    BY <2>1
<1>5. faults' \in 0..MaxFaults
  BY DEF NodesInv, W!TokenInv, W!TypeInv, W!TypeOK
<1>6. T!TypeInv'
  BY <1>1, <1>3, <1>4, <1>5 DEF TriggerInv, T!TypeInv, T!TypeOK, T!FormInv,
    T!Pushing, T!Empty, T!FirstKey
<1>7. T!RowInv'
  <2>1. /\ \A t \in initTasks : taskdb'[t] = "INIT"
        /\ \A k \in DOMAIN cache :
             ~T!Released(k) => taskdb'[cache[k]] = "CHECKING"
        /\ T!Pushing => taskdb'[released] = "ACTIVE"
    <3>1. \A t \in Tasks :
            taskdb[t] \in {"INIT", "CHECKING"} \/ t = released => pushed[t] = 0
      BY DEF TriggerInv, T!CoreInv, T!PushInv
    <3>2. /\ initTasks \subseteq Tasks /\ \A k \in DOMAIN cache : cache[k] \in Tasks
          /\ T!Pushing => released \in Tasks
      BY DEF TriggerInv, T!TypeInv, T!TypeOK, T!FormInv
    <3> QED
      BY <1>3, <3>1, <3>2 DEF TriggerInv, T!CoreInv, T!RowInv
  <2> QED
    BY <1>1, <2>1 DEF TriggerInv, T!CoreInv, T!RowInv, T!Released, T!Pushing,
      T!FirstKey
<1>8. T!PushInv'
  BY <1>1, <1>3 DEF TriggerInv, T!CoreInv, T!PushInv, T!PushedOnce
<1>9. T!CacheInv'
  BY <1>1, <1>3 DEF TriggerInv, T!CoreInv, T!CacheInv, T!Checking, T!Cached
<1> QED
  BY <1>6, <1>7, <1>8, <1>9 DEF TriggerInv, T!CoreInv

\* What a step of Zeus is to each component.
ByTrigger == T!Own /\ UNCHANGED nodesVars

ByNodes ==
  /\ UNCHANGED <<triggerVars, projectdb>>
  /\ UNCHANGED taskdb \/ NodeMoves
  /\ \/ \E n \in Nodes :
          /\ W!Execute(n)
          /\ \/ UNCHANGED taskdb
             \/ \E t \in Tasks, s \in SavedStatus : Saves(n, t, s)
     \/ /\ UNCHANGED taskdb
        /\ \E n \in Nodes, t \in Tasks : W!StartThread(n, t) \/ W!Finish(n, t)

ByUser ==
  /\ T!Edit /\ UNCHANGED <<triggerVars, nodesVars, taskdb>>
  /\ \E p \in Projects, s \in Edits :
       W!UserEdit(p, s) /\ projectdb' = [projectdb EXCEPT ![p] = s]

\* There are no others.
LEMMA Kinds ==
  ASSUME MaxFaults = 0, TriggerInv, NodesInv, [Next]_vars
  PROVE  ByTrigger \/ ByNodes \/ ByUser \/ UNCHANGED vars
<1>1. CASE /\ UNCHANGED nodesVars
           /\ \/ TriggerStep \/ Trigger!Tick \/ Trigger!Crash
              \/ \E t \in Tasks : Trigger!Create(t) \/ Trigger!Pass(t)
  BY <1>1, SameTrigger DEF ByTrigger
<1>2. CASE /\ UNCHANGED triggerVars
           /\ \/ \E n \in Nodes : NodeStep(n) \/ Work!Crash(n)
              \/ \E n \in Nodes, t \in Tasks : ThreadStep(n, t)
  <2>1. CASE \E n \in Nodes : NodeStep(n)
    <3>1. PICK n \in Nodes : NodeStep(n)
      BY <2>1
    <3>2. /\ W!Execute(n)
          /\ UNCHANGED taskdb \/ \E t \in Tasks, s \in SavedStatus : Saves(n, t, s)
      BY <1>2, <3>1, MapExecute
    <3>3. UNCHANGED projectdb
      BY <3>1 DEF NodeStep, Work!Execute, Work!Collect, Work!Begin,
        Work!CollectDone, Work!CollectRetry, Work!CollectRetryThrows,
        Work!CollectPending, Work!SaveRetry, Work!CheckCapacity, Work!PollEmpty,
        Work!Poll, Work!PollThrows, Work!Requeue, Work!LookUp,
        Work!LookUpThrows, Work!Submit, Work!Discard, Work!storeVars
    <3>4. UNCHANGED taskdb \/ NodeMoves
      BY <3>2 DEF Saves, NodeMoves
    <3> QED
      BY <1>2, <3>2, <3>3, <3>4 DEF ByNodes
  <2>2. CASE ~\E n \in Nodes : NodeStep(n)
    <3>1. /\ UNCHANGED <<taskdb, queue, projectdb, faults>>
          /\ \E n \in Nodes, t \in Tasks : W!StartThread(n, t) \/ W!Finish(n, t)
      BY <1>2, <2>2, MapThreads
    <3> QED
      BY <1>2, <3>1 DEF ByNodes
  <2> QED
    BY <2>1, <2>2
<1>3. ASSUME NEW p \in Projects, NEW s \in Edits, EditProject(p, s),
             UNCHANGED <<triggerVars, nodesVars>>
      PROVE  ByUser
  <2>1. T!Edit
    BY <1>3 DEF T!Edit, T!UserEdit, T!EditProject, EditProject, T!memory,
      T!history, triggerVars
  <2>2. UNCHANGED Seen
    BY <1>3 DEF Seen, EditProject, triggerVars
  <2>3. W!UserEdit(p, s)
    BY <1>3, <2>2 DEF W!UserEdit, W!EditProject, EditProject, W!nodeVars,
      nodesVars
  <2> QED
    BY <1>3, <2>1, <2>3 DEF ByUser, EditProject
<1> QED
  BY <1>1, <1>2, <1>3 DEF Next

\* Both components at once.
LEMMA MapStep ==
  ASSUME MaxFaults = 0, TriggerInv, NodesInv, [Next]_vars
  PROVE  [W!Next]_W!vars /\ TriggerInv' /\ NodesInv'
<1>1. CASE ByTrigger
  <2>1. TriggerInv'
    BY <1>1, TriggerTyping, TriggerKeeps DEF ByTrigger, TriggerInv, T!Keeps
  <2>2. [W!Next]_W!vars
    BY <1>1, MapTrigger DEF ByTrigger, W!Next
  <2> QED
    BY <2>1, <2>2, NodesStep DEF NodesInv
<1>2. CASE ByNodes
  <2>1. [W!Next]_W!vars
    BY <1>2 DEF ByNodes, W!Next
  <2>2. NodesInv'
    BY <2>1, NodesStep DEF NodesInv
  <2> QED
    BY <1>2, <2>1, <2>2, NodesKeepTrigger DEF ByNodes
<1>3. CASE ByUser
  <2>1. TriggerInv'
    BY <1>3, TriggerTyping, TriggerKeeps DEF ByUser, TriggerInv, T!Keeps
  <2>2. [W!Next]_W!vars
    BY <1>3 DEF ByUser, W!Next
  <2> QED
    BY <2>1, <2>2, NodesStep DEF NodesInv
<1>4. CASE UNCHANGED vars
  <2>1. UNCHANGED T!vars /\ UNCHANGED W!vars
    BY <1>4 DEF vars, storeVars, triggerVars, nodesVars, T!vars, T!storeVars,
      T!memory, T!history, W!vars, W!storeVars, W!nodeVars, Seen
  <2>2. TriggerInv'
    BY <2>1, TriggerTyping, TriggerKeeps DEF TriggerInv, T!Keeps
  <2> QED
    BY <2>1, <2>2, NodesStep DEF NodesInv
<1> QED
  BY <1>1, <1>2, <1>3, <1>4, Kinds

\* The first state of Zeus is one of both components.
LEMMA InitBoth ==
  ASSUME Init
  PROVE  W!Init /\ TriggerInv /\ NodesInv
<1>1. T!Init
  BY DEF Init, Trigger!Init, T!Init, Trigger!Empty, T!Empty,
    Trigger!NoProjects, T!NoProjects
<1>2. T!TypeInv
  BY <1>1, T!TypingInit, StoreAssumption, TriggerAssumption
  DEF ProjectStatus, T!ProjectStatus
<1>3. T!PlainInv
  BY <1>1, T!PlainInit, StoreAssumption, TriggerAssumption
  DEF ProjectStatus, T!ProjectStatus
<1>4. Seen = [t \in Tasks |-> "INIT"]
  BY <1>1 DEF T!Init, Seen
<1>5. W!Init
  BY <1>1, <1>4 DEF Init, Work!InitNodes, W!Init, W!InitNodes, T!Init
<1> QED
  BY <1>2, <1>3, <1>5, NodesInit DEF TriggerInv, NodesInv, T!PlainInv

\* Without failed statements both invariants hold throughout.
LEMMA InvAlways ==
  ASSUME MaxFaults = 0 PROVE Spec => [](TriggerInv /\ NodesInv)
<1>1. TriggerInv /\ NodesInv /\ [Next]_vars => TriggerInv' /\ NodesInv'
  BY MapStep
<1>2. Init => TriggerInv /\ NodesInv
  BY InitBoth
<1> QED
  BY <1>1, <1>2, PTL DEF Spec

\* The nodes with the trigger behave as WorkTrigger.
LEMMA NodesAsAlone ==
  ASSUME MaxFaults = 0
  PROVE  Spec => W!Spec
<1>1. Init => W!Init
  BY InitBoth
<1>2. TriggerInv /\ NodesInv /\ [Next]_vars => [W!Next]_W!vars
  BY MapStep
<1> QED
  BY <1>1, <1>2, InvAlways, PTL DEF Spec, W!Spec

\* The actions of the two instances of WorkTrigger are the same.
LEMMA SameWork == [W!Next]_W!vars => [Alone!Next]_(Alone!vars)
<1>1. \A n \in Nodes, t \in Tasks : W!StartThread(n, t) => Alone!StartThread(n, t)
  BY DEF W!StartThread, Alone!StartThread, W!SetFuture, Alone!SetFuture,
    W!WorkingCount, Alone!WorkingCount, W!Cardinality, Alone!Cardinality,
    W!storeVars, Alone!storeVars
<1>2. \A n \in Nodes, t \in Tasks : W!Finish(n, t) => Alone!Finish(n, t)
  BY DEF W!Finish, Alone!Finish, W!SetFuture, Alone!SetFuture, W!storeVars,
    Alone!storeVars
<1>3. \A n \in Nodes, t \in Tasks : W!CollectDone(n, t) => Alone!CollectDone(n, t)
  BY DEF W!CollectDone, Alone!CollectDone, W!Visit, Alone!Visit,
    W!RetriesLeft, Alone!RetriesLeft, W!SaveOneTask, Alone!SaveOneTask,
    W!Fault, Alone!Fault, W!FinalStatus, Alone!FinalStatus, W!Forget,
    Alone!Forget, W!SetFuture, Alone!SetFuture
<1>4. \A n \in Nodes, t \in Tasks : W!CollectRetry(n, t) => Alone!CollectRetry(n, t)
  BY DEF W!CollectRetry, Alone!CollectRetry, W!Visit, Alone!Visit,
    W!RetriesLeft, Alone!RetriesLeft, W!Serializable, Alone!Serializable,
    W!Push, Alone!Push, W!Forget, Alone!Forget, W!SetFuture, Alone!SetFuture,
    W!Goto, Alone!Goto
<1>5. \A n \in Nodes, t \in Tasks : W!CollectRetryThrows(n, t) => Alone!CollectRetryThrows(n, t)
  BY DEF W!CollectRetryThrows, Alone!CollectRetryThrows, W!RetriesLeft,
    Alone!RetriesLeft, W!PushThrows, Alone!PushThrows, W!Serializable,
    Alone!Serializable, W!StillSpoilt, Alone!StillSpoilt, W!RedisFails,
    Alone!RedisFails, W!Fault, Alone!Fault, W!Goto, Alone!Goto
<1>6. \A n \in Nodes, t \in Tasks : W!CollectPending(n, t) => Alone!CollectPending(n, t)
  BY DEF W!CollectPending, Alone!CollectPending, W!Visit, Alone!Visit,
    W!SaveOneTask, Alone!SaveOneTask, W!Fault, Alone!Fault
<1>7. \A n \in Nodes : W!Begin(n) => Alone!Begin(n)
  BY DEF W!Begin, Alone!Begin, W!FutureList, Alone!FutureList, W!Goto,
    Alone!Goto, W!storeVars, Alone!storeVars
<1>8. \A n \in Nodes : W!SaveRetry(n) => Alone!SaveRetry(n)
  BY DEF W!SaveRetry, Alone!SaveRetry, W!SaveOneTask, Alone!SaveOneTask,
    W!Fault, Alone!Fault, W!Goto, Alone!Goto
<1>9. \A n \in Nodes : W!CheckCapacity(n) => Alone!CheckCapacity(n)
  BY DEF W!CheckCapacity, Alone!CheckCapacity, W!AtCapacity, Alone!AtCapacity,
    W!WorkingCount, Alone!WorkingCount, W!Cardinality, Alone!Cardinality,
    W!Goto, Alone!Goto, W!storeVars, Alone!storeVars
<1>10. \A n \in Nodes : W!PollEmpty(n) => Alone!PollEmpty(n)
  BY DEF W!PollEmpty, Alone!PollEmpty, W!Goto, Alone!Goto, W!storeVars,
    Alone!storeVars
<1>11. \A n \in Nodes : W!Poll(n) => Alone!Poll(n)
  BY DEF W!Poll, Alone!Poll, W!Goto, Alone!Goto
<1>12. \A n \in Nodes : W!Requeue(n) => Alone!Requeue(n)
  BY DEF W!Requeue, Alone!Requeue, W!AlreadyRunning, Alone!AlreadyRunning,
    W!PutBack, Alone!PutBack, W!RedisFails, Alone!RedisFails, W!Push,
    Alone!Push, W!Fault, Alone!Fault, W!Goto, Alone!Goto
<1>13. \A n \in Nodes : W!LookUp(n) => Alone!LookUp(n)
  BY DEF W!LookUp, Alone!LookUp, W!AlreadyRunning, Alone!AlreadyRunning,
    W!ReadProject, Alone!ReadProject, W!Fault, Alone!Fault, W!ProjectStatus,
    Alone!ProjectStatus, W!Goto, Alone!Goto
<1>14. \A n \in Nodes : W!LookUpThrows(n) => Alone!LookUpThrows(n)
  BY DEF W!LookUpThrows, Alone!LookUpThrows, W!AlreadyRunning,
    Alone!AlreadyRunning, W!Fault, Alone!Fault, W!Goto, Alone!Goto
<1>15. \A n \in Nodes : W!Submit(n) => Alone!Submit(n)
  BY DEF W!Submit, Alone!Submit, W!Enabled, Alone!Enabled, W!SaveOneTask,
    Alone!SaveOneTask, W!Fault, Alone!Fault, W!SubmitTask, Alone!SubmitTask,
    W!SetFuture, Alone!SetFuture, W!Settle, Alone!Settle, W!Goto, Alone!Goto
<1>16. \A n \in Nodes : W!Discard(n) => Alone!Discard(n)
  BY DEF W!Discard, Alone!Discard, W!Enabled, Alone!Enabled, W!SaveOneTask,
    Alone!SaveOneTask, W!Fault, Alone!Fault, W!Settle, Alone!Settle, W!Goto,
    Alone!Goto
<1>17. \A n \in Nodes : W!Crash(n) => Alone!Crash(n)
  BY DEF W!Crash, Alone!Crash, W!Fault, Alone!Fault, W!Goto, Alone!Goto
<1>18. \A t \in Tasks : W!Release(t) => Alone!Release(t)
  BY DEF W!Release, Alone!Release, W!Push, Alone!Push, W!nodeVars,
    Alone!nodeVars
<1>19. \A p \in Projects, s \in Edits : W!UserEdit(p, s) => Alone!UserEdit(p, s)
  BY DEF W!UserEdit, Alone!UserEdit, W!EditProject, Alone!EditProject,
    W!nodeVars, Alone!nodeVars
<1>20. \A n \in Nodes : W!PollThrows(n) => Alone!PollThrows(n)
  BY DEF W!PollThrows, Alone!PollThrows, W!StillSpoilt, Alone!StillSpoilt,
    W!RedisFails, Alone!RedisFails, W!Fault, Alone!Fault, W!Goto, Alone!Goto
<1>21. W!Next => Alone!Next
  BY <1>1, <1>2, <1>3, <1>4, <1>5, <1>6, <1>7, <1>8, <1>9, <1>10, <1>11, <1>12, <1>13, <1>14, <1>15, <1>16, <1>17, <1>18, <1>19, <1>20
  DEF W!Next, Alone!Next, W!Execute, Alone!Execute, W!Collect, Alone!Collect
<1>22. UNCHANGED W!vars => UNCHANGED Alone!vars
  BY DEF W!vars, Alone!vars, W!storeVars, Alone!storeVars, W!nodeVars,
    Alone!nodeVars
<1> QED
  BY <1>21, <1>22

\* Without failed statements the nodes and the queue, fed by the real trigger
\* rather than by the environment that WorkTrigger assumes, behave as
\* WorkTrigger says: every push is the release of a task not released before.
\* The trigger may die at any time.
THEOREM NodesImplementWorkTrigger ==
  ASSUME MaxFaults = 0
  PROVE  Spec => ImplementsWork
<1>1. W!Init => Alone!Init
  BY DEF W!Init, Alone!Init, W!InitNodes, Alone!InitNodes
<1> QED
  BY <1>1, SameWork, NodesAsAlone, PTL DEF W!Spec, ImplementsWork, Alone!Spec

-----------------------------------------------------------------------------
(* No row is stranded *)

\* What was proved of the rows of WorkTrigger holds of the rows seen.
CalmInv == W!RowsInv /\ W!ExactInv /\ W!RanInv /\ W!NoneSpoilt

\* What WorkRowsProofs proves of nodes by themselves, without failures.
LEMMA NodesCalm ==
  ASSUME MaxFaults = 0, W!OneSaver
  PROVE  W!Spec => [](W!TokenInv /\ CalmInv)
BY W!CalmAlways, StoreAssumption, TriggerAssumption, WorkAssumption
DEF W!Message, ProjectStatus, W!ProjectStatus, W!Calm, CalmInv

\* A task that was not pushed has not run; its row says ACTIVE only while the
\* push comes next, or when the process died before it.
UnpushedInv ==
  \A t \in Tasks : pushed[t] = 0 =>
    /\ taskdb[t] \notin {"RUNNING", "SUCCESS", "FAIL", "PASSED"}
    /\ taskdb[t] = "ACTIVE" /\ crashes = 0 => released = t

\* The push that comes next is that of the only such row.
LEMMA UnpushedStep ==
  ASSUME MaxFaults = 0, TriggerInv, NodesInv, UnpushedInv, [Next]_vars
  PROVE  UnpushedInv'
<1>1. /\ taskdb \in [Tasks -> T!RowStatus] /\ pushed \in [Tasks -> Nat]
      /\ crashes \in Nat /\ NoTask \notin Tasks
      /\ released # NoTask <=> T!Pushing
  BY TriggerAssumption DEF TriggerInv, T!TypeInv, T!TypeOK, T!FormInv
<1>2. CASE UNCHANGED <<taskdb, pushed, released, crashes>>
  BY <1>2 DEF UnpushedInv
<1>3. CASE ByNodes
  <2>1. UNCHANGED <<pushed, released, crashes>>
    BY <1>3 DEF ByNodes, triggerVars
  <2>2. \A t \in Tasks : pushed[t] = 0 => taskdb'[t] = taskdb[t]
    BY <1>1, <1>3 DEF ByNodes, NodeMoves, Stored
  <2> QED
    BY <2>1, <2>2 DEF UnpushedInv
<1>4. CASE ByTrigger
  <2>1. CASE /\ UNCHANGED <<taskdb, queue, pushed>>
             /\ UNCHANGED <<released, crashes>> \/ crashes' = crashes + 1
    BY <1>1, <2>1 DEF UnpushedInv
  <2>2. ASSUME UNCHANGED <<queue, pushed>>, NEW t \in Tasks, T!Moves(t)
        PROVE  UnpushedInv'
    <3>1. PICK s \in T!RowStatus :
            /\ taskdb' = [taskdb EXCEPT ![t] = s]
            /\ UNCHANGED crashes
            /\ released' = IF s = "ACTIVE" THEN t ELSE released
            /\ s \in {"RUNNING", "SUCCESS", "FAIL"} => FALSE
            /\ s = "PASSED" => taskdb[t] = "FAIL"
            /\ s = "ACTIVE" => ~T!Pushing
      BY <2>2 DEF T!Moves, T!Pushing
    <3>2. taskdb'[t] = s /\ \A u \in Tasks : u # t => taskdb'[u] = taskdb[u]
      BY <1>1, <3>1
    <3> QED
      BY <1>1, <2>2, <3>1, <3>2 DEF UnpushedInv
  <2>3. ASSUME T!Pushing, UNCHANGED <<taskdb, crashes>>,
               pushed' = [pushed EXCEPT ![released] = @ + 1]
        PROVE  UnpushedInv'
    <3>1. \A t \in Tasks : pushed'[t] = 0 => pushed[t] = 0 /\ t # released
      BY <1>1, <2>3
    <3> QED
      BY <2>3, <3>1 DEF UnpushedInv
  <2> QED
    BY <1>4, <2>1, <2>2, <2>3, TriggerMoves DEF ByTrigger
<1>5. CASE ByUser \/ UNCHANGED vars
  BY <1>2, <1>5 DEF ByUser, vars, storeVars, triggerVars
<1> QED
  BY <1>3, <1>4, <1>5, Kinds

\* The invariant of the runs without failures.
LEMMA CalmHere ==
  ASSUME MaxFaults = 0, W!OneSaver
  PROVE  Spec => [](TriggerInv /\ NodesInv /\ CalmInv /\ UnpushedInv)
<1>1. Init => UnpushedInv
  BY DEF Init, Trigger!Init, UnpushedInv
<1>2. TriggerInv /\ NodesInv /\ UnpushedInv /\ [Next]_vars => UnpushedInv'
  BY UnpushedStep
<1>3. Spec => []CalmInv
  BY NodesCalm, NodesAsAlone, PTL
<1> QED
  BY <1>1, <1>2, <1>3, InvAlways, PTL DEF Spec

\* Without failures and deaths, with one worker node or bodies that need no
\* retry, and when no body throws: a row that says ACTIVE or RUNNING has the
\* push, the message or the future behind it that will move it on.
THEOREM NothingStranded ==
  ASSUME MaxFaults = 0, MaxCrashes = 0, W!OneSaver, "throws" \notin Outcomes
  PROVE  Spec => []NoRowStranded
<1>1. TriggerInv /\ CalmInv /\ UnpushedInv => NoRowStranded
  <2> SUFFICES ASSUME TriggerInv, CalmInv, UnpushedInv, NEW t \in Tasks,
                      taskdb[t] \in {"ACTIVE", "RUNNING"}
               PROVE  Backed(t)
    BY DEF NoRowStranded
  <2>1. CASE pushed[t] = 0
    <3>1. crashes = 0
      BY DEF TriggerInv, T!TypeInv, T!TypeOK
    <3> QED
      BY <2>1, <3>1 DEF UnpushedInv, Backed
  <2>2. CASE pushed[t] # 0
    <3>1. Seen[t] = taskdb[t]
      BY <2>2 DEF Seen
    <3>2. W!Backed(t)
      BY DEF CalmInv, W!RowsInv
    <3>3. W!InQueue(t) \/ \E n \in Nodes : W!Holds(n, t) \/ saving[n] = t
      BY <3>1, <3>2 DEF W!Backed, W!Holds
    <3> QED
      BY <3>3 DEF Backed, W!InQueue, Work!InQueue, W!Holds, Work!Holds,
        W!InHand, Work!InHand, W!FutureList, Work!FutureList
  <2> QED
    BY <2>1, <2>2
<1> QED
  BY <1>1, CalmHere, PTL

-----------------------------------------------------------------------------
(* Tasks start in order *)

\* A node saves a row only while the task is released and not settled, and
\* takes it where WorkTrigger alone would.
NodeSave(t, s) ==
  /\ pushed[t] # 0
  /\ taskdb' = [taskdb EXCEPT ![t] = s] /\ UNCHANGED runs
  /\ \/ taskdb[t] = "ACTIVE" /\ s \in {"RUNNING", "STOP", "DELETE"}
     \/ taskdb[t] = "RUNNING" /\ s = "RUNNING"
     \/ /\ taskdb[t] = "RUNNING" /\ s = "ACTIVE"
        /\ spoilt = {} => runs[t] \in 1..Retry
     \/ /\ taskdb[t] = "RUNNING" /\ s \in {"SUCCESS", "FAIL"}
        /\ spoilt = {} =>
             /\ runs[t] # 0
             /\ s = "FAIL" => runs[t] = Retry + 1

\* A thread starts a body.
NodeStart(n, t) ==
  /\ pushed[t] # 0 /\ taskdb[t] = "RUNNING"
  /\ spoilt = {} => runs[t] <= Retry
  /\ runs' = [runs EXCEPT ![t] = @ + 1] /\ UNCHANGED taskdb

\* What the row of a task says when a node starts, collects or retries it.
LEMMA NodeRows ==
  ASSUME MaxFaults = 0, NodesInv, CalmInv, NEW n \in Nodes
  PROVE  /\ \A t \in Tasks :
              /\ W!CollectPending(n, t) => Seen[t] = "RUNNING"
              /\ W!CollectDone(n, t) =>
                   /\ Seen[t] = "RUNNING"
                   /\ spoilt = {} =>
                        /\ runs[t] # 0
                        /\ W!FinalStatus(n, t) = "FAIL" => runs[t] = Retry + 1
              /\ W!StartThread(n, t) =>
                   /\ Seen[t] = "RUNNING"
                   /\ spoilt = {} => runs[t] <= Retry
         /\ W!SaveRetry(n) =>
              /\ Seen[saving[n]] = "RUNNING"
              /\ spoilt = {} =>
                   runs[saving[n]] \in 1..Retry
         /\ W!Submit(n) \/ W!Discard(n) => Seen[popped[n].task] = "ACTIVE"
BY W!RowSaved, StoreAssumption, TriggerAssumption, WorkAssumption
DEF W!Message, ProjectStatus, W!ProjectStatus, NodesInv, CalmInv

\* What the nodes do to the rows and to the counts of starts.
LEMMA NodeKinds ==
  ASSUME MaxFaults = 0, NodesInv, CalmInv, ByNodes
  PROVE  \/ UNCHANGED <<taskdb, runs>>
         \/ \E t \in Tasks, s \in SavedStatus : NodeSave(t, s)
         \/ \E n \in Nodes, t \in Tasks : NodeStart(n, t)
<1>1. \A t \in Tasks : Seen[t] \in {"ACTIVE", "RUNNING"} =>
        pushed[t] # 0 /\ taskdb[t] = Seen[t]
  BY DEF Seen
<1>2. ASSUME NEW n \in Nodes, W!Execute(n) PROVE UNCHANGED runs
  BY <1>2 DEF W!Execute, W!Collect, W!Begin, W!CollectDone, W!CollectRetry,
    W!CollectRetryThrows, W!CollectPending, W!SaveRetry, W!CheckCapacity,
    W!PollEmpty, W!Poll, W!PollThrows, W!Requeue, W!LookUp, W!LookUpThrows,
    W!Submit, W!Discard
<1>3. ASSUME NEW n \in Nodes, W!Execute(n), NEW t \in Tasks,
             NEW s \in SavedStatus, Saves(n, t, s)
      PROVE  NodeSave(t, s)
  <2>1. Stored(t, s) /\ UNCHANGED runs
    BY <1>2, <1>3 DEF Saves
  <2>2. CASE W!CollectDone(n, t) /\ s = W!FinalStatus(n, t)
    <3>1. s \in {"SUCCESS", "FAIL", "RUNNING"}
      BY <2>2 DEF W!CollectDone, W!FinalStatus
    <3> QED
      BY <1>1, <2>1, <2>2, <3>1, NodeRows DEF NodeSave, Stored
  <2>3. CASE W!CollectPending(n, t) /\ s = "RUNNING"
    BY <1>1, <2>1, <2>3, NodeRows DEF NodeSave, Stored
  <2>4. CASE W!SaveRetry(n) /\ t = saving[n] /\ s = "ACTIVE"
    BY <1>1, <2>1, <2>4, NodeRows DEF NodeSave, Stored
  <2>5. CASE \/ W!Submit(n) /\ t = popped[n].task /\ s = "RUNNING"
             \/ W!Discard(n) /\ t = popped[n].task /\ s \in {"STOP", "DELETE"}
    BY <1>1, <2>1, <2>5, NodeRows DEF NodeSave, Stored
  <2> QED
    BY <1>3, <2>2, <2>3, <2>4, <2>5 DEF Saves
<1>4. ASSUME UNCHANGED taskdb, NEW n \in Nodes, NEW t \in Tasks,
             W!StartThread(n, t) \/ W!Finish(n, t)
      PROVE  UNCHANGED <<taskdb, runs>> \/ NodeStart(n, t)
  <2>1. CASE W!Finish(n, t)
    BY <1>4, <2>1 DEF W!Finish
  <2>2. CASE W!StartThread(n, t)
    <3>1. runs' = [runs EXCEPT ![t] = @ + 1]
      BY <2>2 DEF W!StartThread
    <3> QED
      BY <1>1, <1>4, <2>2, <3>1, NodeRows DEF NodeStart
  <2> QED
    BY <1>4, <2>1, <2>2
<1> QED
  BY <1>2, <1>3, <1>4 DEF ByNodes

\* The trigger knows every project when it looks at rows.
MapInv ==
  /\ \A p \in Projects : projectdb[p] # "ABSENT"
  /\ triggerPc \notin {"down", "idle"} =>
       \A p \in Projects : projectMap[p] # "ABSENT"

\* The trigger gets its map of projects from the table or forgets it.
LEMMA TriggerProjects ==
  ASSUME MaxFaults = 0, TriggerInv, T!Own
  PROVE  \/ /\ UNCHANGED projectMap
            /\ triggerPc \in {"down", "idle"} => triggerPc' \in {"down", "idle"}
         \/ projectMap' = projectdb
         \/ triggerPc' = "down"
BY T!OwnProjects, StoreAssumption, TriggerAssumption
DEF TriggerInv, ProjectStatus, T!ProjectStatus

\* As long as users delete no rows of projects.
LEMMA MapInvStep ==
  ASSUME MaxFaults = 0, "ABSENT" \notin Edits, TriggerInv, NodesInv, MapInv,
         [Next]_vars
  PROVE  MapInv'
<1>1. CASE ByTrigger
  BY <1>1, TriggerProjects, TriggerMoves DEF ByTrigger, MapInv
<1>2. CASE ByNodes
  BY <1>2 DEF ByNodes, triggerVars, MapInv
<1>3. CASE ByUser
  <2>1. projectdb \in [Projects -> ProjectStatus]
    BY DEF TriggerInv, T!TypeInv, T!TypeOK, ProjectStatus, T!ProjectStatus
  <2> QED
    BY <1>3, <2>1 DEF ByUser, triggerVars, MapInv
<1>4. CASE UNCHANGED vars
  BY <1>4 DEF vars, storeVars, triggerVars, MapInv
<1> QED
  BY <1>1, <1>2, <1>3, <1>4, Kinds

\* A task that was pushed had its requirements met and its delay over.
OrderInv ==
  \A t \in Tasks : pushed[t] # 0 =>
    /\ \A u \in Requires[t] : taskdb[u] \in Trigger!OkStatus
    /\ now > Lunch[t] + Delay[ProjectOf[t]]

\* The rows that let dependents go on are left alone by everyone.
LEMMA OkStays ==
  ASSUME MaxFaults = 0, TriggerInv, NodesInv, CalmInv, [Next]_vars,
         NEW t \in Tasks, taskdb[t] \in Trigger!OkStatus
  PROVE  taskdb'[t] = taskdb[t]
<1>1. taskdb \in [Tasks -> T!RowStatus]
  BY DEF TriggerInv, T!TypeInv, T!TypeOK
<1>2. CASE ByTrigger
  BY <1>1, <1>2, TriggerMoves DEF ByTrigger, T!Moves, Trigger!OkStatus
<1>3. CASE ByNodes
  BY <1>1, <1>3, NodeKinds DEF NodeSave, NodeStart, Trigger!OkStatus
<1>4. CASE ByUser \/ UNCHANGED vars
  BY <1>4 DEF ByUser, vars, storeVars
<1> QED
  BY <1>2, <1>3, <1>4, Kinds

\* In a step of the trigger the clock stands still or ticks.
LEMMA TriggerClock == T!Own => UNCHANGED now \/ now' = now + 1
BY T!OwnClock, StoreAssumption, TriggerAssumption
DEF ProjectStatus, T!ProjectStatus

\* The steps of the trigger and of users keep what it knows of times.
LEMMA TriggerTime ==
  TriggerInv /\ TriggerInv' /\ T!TimeInv /\ (T!Own \/ T!Edit \/ UNCHANGED T!vars)
    => T!TimeInv'
BY T!TimeStep, StoreAssumption, TriggerAssumption
DEF TriggerInv, T!Next, T!Own, T!Edit, ProjectStatus, T!ProjectStatus

\* Nodes neither create rows nor park tasks, and time does not pass in them.
LEMMA TimeHere ==
  ASSUME MaxFaults = 0, TriggerInv, TriggerInv', NodesInv, T!TimeInv, [Next]_vars
  PROVE  T!TimeInv'
<1>1. CASE ByTrigger \/ ByUser
  BY <1>1, TriggerTime DEF ByTrigger, ByUser
<1>2. CASE ByNodes
  <2>1. UNCHANGED <<now, triggertime, triggerPc, cache, initTasks, released>>
    BY <1>2 DEF ByNodes, triggerVars
  <2>2. \A t \in Tasks : taskdb'[t] \in {"INIT", "CHECKING"} => taskdb'[t] = taskdb[t]
    <3>1. taskdb \in [Tasks -> T!RowStatus]
      BY DEF TriggerInv, T!TypeInv, T!TypeOK
    <3> QED
      BY <1>2, <3>1 DEF ByNodes, NodeMoves, Stored, SavedStatus
  <2> QED
    BY <2>1, <2>2 DEF T!TimeInv, T!Checking, T!Pushing, T!Earliest
<1>3. CASE UNCHANGED vars
  BY <1>3, TriggerTime DEF vars, storeVars, triggerVars, T!vars, T!storeVars,
    T!memory, T!history
<1> QED
  BY <1>1, <1>2, <1>3, Kinds

\* What the trigger has read as finished is so, whatever the nodes do.
LEMMA CheckHere ==
  ASSUME MaxFaults = 0, TriggerInv, NodesInv, CalmInv, T!CheckInv, [Next]_vars
  PROVE  T!CheckInv'
<1>1. CASE ByTrigger \/ ByUser
  BY <1>1, TriggerKeeps DEF ByTrigger, ByUser, T!Keeps
<1>2. CASE ByNodes
  <2>1. UNCHANGED <<triggerPc, projectMap, okTasks, released>>
    BY <1>2 DEF ByNodes, triggerVars
  <2>2. okTasks \subseteq Tasks
    BY DEF TriggerInv, T!TypeInv, T!TypeOK
  <2>3. \A t \in okTasks : taskdb'[t] \in T!OkStatus
    BY <2>2, OkStays DEF T!CheckInv, T!OkStatus, Trigger!OkStatus
  <2> QED
    BY <2>1, <2>3 DEF T!CheckInv, T!CheckTask, T!Required, T!Project, T!Pushing
<1>3. CASE UNCHANGED vars
  <2>1. UNCHANGED T!vars
    BY <1>3 DEF vars, storeVars, triggerVars, T!vars, T!storeVars, T!memory,
      T!history
  <2> QED
    BY <2>1, TriggerKeeps DEF T!Keeps
<1> QED
  BY <1>1, <1>2, <1>3, Kinds

\* With every project known, the check is about all that the task requires.
LEMMA Checked ==
  ASSUME MapInv, T!CheckInv, triggerPc \notin {"down", "idle"},
         NEW t \in Tasks, T!CheckTask(t)
  PROVE  \A u \in Requires[t] : taskdb[u] \in Trigger!OkStatus
<1>1. ASSUME NEW u \in Requires[t] PROVE u \in okTasks
  <2>1. u \in Tasks /\ ProjectOf[u] \in Projects
    BY StoreAssumption, TriggerAssumption
  <2> QED
    BY <2>1 DEF MapInv, T!CheckTask, T!Required
<1> QED
  BY <1>1 DEF T!CheckInv, T!OkStatus, Trigger!OkStatus

\* The conditions hold when the task is pushed, and from then on.
LEMMA OrderStep ==
  ASSUME MaxFaults = 0, TriggerInv, NodesInv, CalmInv, MapInv, T!CheckInv,
         T!TimeInv, OrderInv, [Next]_vars
  PROVE  OrderInv'
<1>1. /\ pushed \in [Tasks -> Nat] /\ now \in Nat
      /\ T!Pushing => released \in Tasks
      /\ Lunch \in [Tasks -> Nat] /\ Delay \in [Projects -> Nat]
      /\ ProjectOf \in [Tasks -> Projects] /\ Requires \in [Tasks -> SUBSET Tasks]
  BY StoreAssumption, TriggerAssumption
  DEF TriggerInv, T!TypeInv, T!TypeOK, T!FormInv
<1>2. UNCHANGED now \/ now' = now + 1
  BY Kinds, TriggerClock DEF ByTrigger, ByNodes, ByUser, vars, triggerVars
<1>3. ASSUME NEW t \in Tasks,
             \A u \in Requires[t] : taskdb[u] \in Trigger!OkStatus,
             now > Lunch[t] + Delay[ProjectOf[t]]
      PROVE  /\ \A u \in Requires[t] : taskdb'[u] \in Trigger!OkStatus
             /\ now' > Lunch[t] + Delay[ProjectOf[t]]
  <2>1. now' > Lunch[t] + Delay[ProjectOf[t]]
    BY <1>1, <1>2, <1>3
  <2> QED
    BY <1>1, <1>3, <2>1, OkStays
<1>4. CASE UNCHANGED pushed
  BY <1>3, <1>4 DEF OrderInv
<1>5. CASE ByTrigger /\ T!Pushing /\ pushed' = [pushed EXCEPT ![released] = @ + 1]
  <2>1. \A t \in Tasks : t = released =>
          /\ \A u \in Requires[t] : taskdb[u] \in Trigger!OkStatus
          /\ now > Lunch[t] + Delay[ProjectOf[t]]
    <3>1. SUFFICES ASSUME NEW t \in Tasks, t = released
                   PROVE  /\ \A u \in Requires[t] : taskdb[u] \in Trigger!OkStatus
                          /\ now > Lunch[t] + Delay[ProjectOf[t]]
      OBVIOUS
    <3>2. T!CheckTask(t) /\ triggerPc \notin {"down", "idle"}
      BY <1>5, <3>1 DEF T!CheckInv, T!Pushing
    <3>3. now > Lunch[t] + Delay[ProjectOf[t]]
      BY <1>1, <1>5, <3>1 DEF T!TimeInv, T!Earliest
    <3> QED
      BY <3>2, <3>3, Checked
  <2>2. \A t \in Tasks : t # released => pushed'[t] = pushed[t]
    BY <1>1, <1>5
  <2> QED
    BY <1>3, <2>1, <2>2 DEF OrderInv
<1>6. UNCHANGED pushed \/ ByTrigger
  BY Kinds DEF ByNodes, ByUser, vars, triggerVars
<1> QED
  BY <1>4, <1>5, <1>6, TriggerMoves DEF ByTrigger

\* All that holds without failures as long as users delete no rows of projects.
OrderlyInv == MapInv /\ T!CheckInv /\ T!TimeInv /\ OrderInv

\* The initial state satisfies the parts of the invariant.
LEMMA OrderInit == Init => OrderlyInv
<1> SUFFICES ASSUME Init PROVE OrderlyInv
  OBVIOUS
<1>1. T!Init
  BY DEF Init, Trigger!Init, T!Init, Trigger!Empty, T!Empty,
    Trigger!NoProjects, T!NoProjects
<1>2. T!CheckInv /\ T!TimeInv
  BY <1>1, T!PlainInit, T!TimeInit, StoreAssumption, TriggerAssumption
  DEF T!PlainInv, ProjectStatus, T!ProjectStatus
<1>3. MapInv /\ OrderInv
  BY <1>1 DEF T!Init, MapInv, OrderInv
<1> QED
  BY <1>2, <1>3 DEF OrderlyInv

\* The hypotheses under which the order of the tasks and their life are proved.
Orderly == MaxFaults = 0 /\ W!OneSaver /\ "ABSENT" \notin Edits

\* Under Orderly all the parts of the invariant hold throughout.
LEMMA OrderAlways ==
  ASSUME Orderly
  PROVE  Spec => [](TriggerInv /\ NodesInv /\ CalmInv /\ UnpushedInv /\ OrderlyInv)
<1>1. TriggerInv /\ TriggerInv' /\ NodesInv /\ CalmInv /\ OrderlyInv /\ [Next]_vars
        => OrderlyInv'
  BY MapInvStep, CheckHere, TimeHere, OrderStep DEF OrderlyInv, Orderly
<1>2. Spec => [](TriggerInv /\ NodesInv /\ CalmInv /\ UnpushedInv)
  BY CalmHere DEF Orderly
<1> QED
  BY <1>1, <1>2, OrderInit, PTL DEF Spec

\* Without failures, but for deaths of the trigger: no body starts, first or
\* retried, unless all that its task requires is SUCCESS or PASSED and its
\* lunchtime and delay are over, although both were looked at by another
\* process, in another execution, before the push.
THEOREM OrderKept ==
  ASSUME MaxFaults = 0, W!OneSaver, "ABSENT" \notin Edits
  PROVE  Spec => StartsInOrder
<1> DEFINE Due == \A t \in Tasks : runs'[t] # runs[t] =>
                    /\ \A u \in Requires[t] : taskdb[u] \in Trigger!OkStatus
                    /\ now > Lunch[t] + Delay[ProjectOf[t]]
<1>1. /\ TriggerInv /\ NodesInv /\ CalmInv /\ UnpushedInv /\ OrderlyInv
      /\ [Next]_vars
      => [Due]_vars
  <2> SUFFICES ASSUME TriggerInv, NodesInv, CalmInv, OrderlyInv, [Next]_vars,
                      NEW t \in Tasks, runs'[t] # runs[t]
               PROVE  /\ \A u \in Requires[t] : taskdb[u] \in Trigger!OkStatus
                      /\ now > Lunch[t] + Delay[ProjectOf[t]]
    BY Zenon
  <2>1. ByNodes
    BY Kinds DEF ByTrigger, ByUser, nodesVars, vars
  <2>2. PICK n \in Nodes, u \in Tasks : NodeStart(n, u)
    BY <2>1, NodeKinds DEF NodeSave
  <2>3. t = u
    <3>1. runs \in [Tasks -> Nat]
      BY DEF NodesInv, W!TokenInv, W!TypeInv, W!TypeOK
    <3> QED
      BY <2>2, <3>1 DEF NodeStart
  <2>4. pushed[t] # 0
    BY <2>2, <2>3 DEF NodeStart
  <2> QED
    BY <2>4 DEF OrderlyInv, OrderInv
<1> QED
  BY <1>1, OrderAlways, PTL DEF Spec, StartsInOrder, Orderly

-----------------------------------------------------------------------------
(* The whole implements the life of a row *)

\* The saves and pushes of the trigger.
LEMMA LifeByTrigger ==
  ASSUME Orderly, TriggerInv, NodesInv, OrderlyInv, ByTrigger
  PROVE  [Lifecycle!Next]_(Lifecycle!rowVars)
<1>1. UNCHANGED runs
  BY DEF ByTrigger, nodesVars
<1>2. CASE UNCHANGED taskdb
  BY <1>1, <1>2 DEF Lifecycle!rowVars
<1>3. ASSUME NEW t \in Tasks, T!Moves(t) PROVE Lifecycle!Next
  <2>1. PICK s \in T!RowStatus :
          /\ taskdb' = [taskdb EXCEPT ![t] = s]
          /\ \/ taskdb[t] = "NONE" /\ s = "INIT"
             \/ taskdb[t] = "INIT" /\ s = "CHECKING"
             \/ /\ taskdb[t] \in {"INIT", "CHECKING"} /\ s = "ACTIVE"
                /\ T!CheckTask(t) /\ triggerPc \in {"init", "cache"}
             \/ taskdb[t] = "CHECKING" /\ s \in {"IGNORED", "STOP", "DELETE"}
             \/ taskdb[t] = "FAIL" /\ s = "PASSED"
    BY <1>3 DEF T!Moves
  <2>2. CASE taskdb[t] = "NONE" /\ s = "INIT"
    BY <1>1, <2>1, <2>2 DEF Lifecycle!Next, Lifecycle!Create, Lifecycle!Set
  <2>3. CASE taskdb[t] = "INIT" /\ s = "CHECKING"
    BY <1>1, <2>1, <2>3 DEF Lifecycle!Next, Lifecycle!Wait, Lifecycle!Set
  <2>4. CASE /\ taskdb[t] \in {"INIT", "CHECKING"} /\ s = "ACTIVE"
             /\ T!CheckTask(t) /\ triggerPc \in {"init", "cache"}
    <3>1. \A u \in Requires[t] : taskdb[u] \in Lifecycle!Ok
      BY <2>4, Checked DEF OrderlyInv, Trigger!OkStatus, Lifecycle!Ok
    <3> QED
      BY <1>1, <2>1, <2>4, <3>1 DEF Lifecycle!Next, Lifecycle!Release,
        Lifecycle!Set, Lifecycle!Waiting
  <2>5. CASE taskdb[t] = "CHECKING" /\ s \in {"IGNORED", "STOP", "DELETE"}
    <3>1. s \in Lifecycle!GivenUp
      BY <2>5 DEF Lifecycle!GivenUp
    <3> QED
      BY <1>1, <2>1, <2>5, <3>1 DEF Lifecycle!Next, Lifecycle!GiveUp, Lifecycle!Set
  <2>6. CASE taskdb[t] = "FAIL" /\ s = "PASSED"
    BY <1>1, <2>1, <2>6 DEF Lifecycle!Next, Lifecycle!Pass, Lifecycle!Set
  <2> QED
    BY <2>1, <2>2, <2>3, <2>4, <2>5, <2>6
<1> QED
  BY <1>2, <1>3, TriggerMoves DEF ByTrigger, Orderly

\* The saves and starts of the nodes.
LEMMA LifeByNodes ==
  ASSUME Orderly, CronProjects = {}, TriggerInv, NodesInv, CalmInv, ByNodes
  PROVE  [Lifecycle!Next]_(Lifecycle!rowVars)
<1>0. spoilt = {}
  BY DEF CalmInv, W!NoneSpoilt
<1>1. /\ taskdb \in [Tasks -> T!RowStatus] /\ runs \in [Tasks -> Nat]
      /\ Retry \in Nat
  BY WorkAssumption
  DEF TriggerInv, T!TypeInv, T!TypeOK, NodesInv, W!TokenInv, W!TypeInv, W!TypeOK
<1>2. CASE UNCHANGED <<taskdb, runs>>
  BY <1>2 DEF Lifecycle!rowVars
<1>3. ASSUME NEW n \in Nodes, NEW t \in Tasks, NodeStart(n, t)
      PROVE  Lifecycle!Next
  BY <1>0, <1>3 DEF NodeStart, Lifecycle!Next, Lifecycle!Start
<1>4. ASSUME NEW t \in Tasks, NEW s \in SavedStatus, NodeSave(t, s)
      PROVE  [Lifecycle!Next]_(Lifecycle!rowVars)
  <2>1. UNCHANGED runs /\ taskdb' = [taskdb EXCEPT ![t] = s]
    BY <1>4 DEF NodeSave
  <2>2. CASE taskdb[t] = "ACTIVE" /\ s = "RUNNING"
    BY <2>1, <2>2 DEF Lifecycle!Next, Lifecycle!Accept, Lifecycle!Set
  <2>3. CASE taskdb[t] = "ACTIVE" /\ s \in {"STOP", "DELETE"}
    <3>1. s \in Lifecycle!GivenUp
      BY <2>3 DEF Lifecycle!GivenUp
    <3> QED
      BY <2>1, <2>3, <3>1 DEF Lifecycle!Next, Lifecycle!GiveUp, Lifecycle!Set
  <2>4. CASE taskdb[t] = "RUNNING" /\ s = "RUNNING"
    <3>1. UNCHANGED taskdb
      BY <1>1, <2>1, <2>4
    <3> QED
      BY <2>1, <3>1 DEF Lifecycle!rowVars
  <2>5. CASE taskdb[t] = "RUNNING" /\ s = "ACTIVE" /\ runs[t] \in 1..Retry
    BY <2>1, <2>5 DEF Lifecycle!Next, Lifecycle!TryAgain, Lifecycle!Set
  <2>6. CASE /\ taskdb[t] = "RUNNING" /\ s \in {"SUCCESS", "FAIL"}
             /\ runs[t] # 0 /\ (s = "FAIL" => runs[t] = Retry + 1)
    <3>1. runs[t] > 0
      BY <1>1, <2>6
    <3> QED
      BY <2>1, <2>6, <3>1 DEF Lifecycle!Next, Lifecycle!Finish, Lifecycle!Set
  <2> QED
    BY <1>0, <1>4, <2>2, <2>3, <2>4, <2>5, <2>6 DEF NodeSave
<1> QED
  BY <1>2, <1>3, <1>4, NodeKinds DEF Orderly

\* Without failures, but for deaths of the trigger, with one worker node or
\* bodies that need no retry, no project with a crontab, whose retry would spoil
\* the connection of a node, and no project deleted by hand: every row of
\* taskdb lives as TaskLifecycle says, whatever the trigger, the nodes, their
\* threads and the users do in between.
THEOREM LifecycleKept ==
  ASSUME MaxFaults = 0, W!OneSaver, "ABSENT" \notin Edits, CronProjects = {}
  PROVE  Spec => ImplementsLifecycle
<1>1. Init => Lifecycle!Init
  BY DEF Init, Trigger!Init, Work!InitNodes, Lifecycle!Init
<1>2. /\ TriggerInv /\ NodesInv /\ CalmInv /\ UnpushedInv /\ OrderlyInv
      /\ [Next]_vars
      => [Lifecycle!Next]_(Lifecycle!rowVars)
  <2> SUFFICES ASSUME TriggerInv, NodesInv, CalmInv, OrderlyInv, [Next]_vars
               PROVE  [Lifecycle!Next]_(Lifecycle!rowVars)
    OBVIOUS
  <2>1. CASE ByTrigger
    BY <2>1, LifeByTrigger DEF Orderly
  <2>2. CASE ByNodes
    BY <2>2, LifeByNodes DEF Orderly
  <2>3. CASE ByUser \/ UNCHANGED vars
    BY <2>3 DEF ByUser, vars, storeVars, nodesVars, Lifecycle!rowVars
  <2> QED
    BY <2>1, <2>2, <2>3, Kinds
<1>3. Spec => [](TriggerInv /\ NodesInv /\ CalmInv /\ UnpushedInv /\ OrderlyInv)
  BY OrderAlways DEF Orderly
<1> QED
  BY <1>1, <1>2, <1>3, PTL DEF Spec, ImplementsLifecycle, Lifecycle!Spec
=============================================================================
