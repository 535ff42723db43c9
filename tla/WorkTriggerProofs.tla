-------------------------- MODULE WorkTriggerProofs --------------------------
(***************************************************************************)
(* Proofs about WorkTrigger for any set of nodes and tasks, any pool size, *)
(* retry count and number of failures.                                     *)
(***************************************************************************)
EXTENDS WorkTrigger, TLAPS

\* What the program counter says about the message in hand.
Steps ==
  \A n \in Nodes :
    /\ pc[n] \in {"popped", "decided"} <=> hand[n] # NoMsg
    /\ pc[n] = "decided" => InstanceOf[hand[n].task] \notin running[n]
    /\ pc[n] = "saveRetry" => saving[n] \in Tasks

TypeInv == TypeOK /\ Steps

\* A row that is still INIT has not been released: no trace of its task.
Unreleased ==
  \A t \in Tasks :
    taskdb[t] = "INIT" =>
      /\ ~InQueue(t)
      /\ \A n \in Nodes : ~Holds(n, t)
      /\ runs[t] = 0

CopyInv == SingleCopy /\ Unreleased

\* The count a copy of a task carries bounds the starts so far.
QueueRuns ==
  \A i \in 1..Len(queue) : runs[queue[i].task] <= queue[i].retry
HandRuns ==
  \A n \in Nodes : hand[n] # NoMsg => runs[hand[n].task] <= hand[n].retry
FutureRuns ==
  \A n \in Nodes, t \in Tasks :
    /\ future[n][t] = "submitted" => runs[t] <= attempt[n][t]
    /\ future[n][t] # "none" => runs[t] <= attempt[n][t] + 1

RunInv == QueueRuns /\ HandRuns /\ FutureRuns /\ RetriesBounded

-----------------------------------------------------------------------------
(* Typing *)

\* The assumptions on the constants, gathered for citation.
LEMMA Consts ==
  /\ InstanceOf \in [Tasks -> Instances]
  /\ ProjectOf \in [Tasks -> Projects]
  /\ MaxFaults \in Nat /\ Retry \in Nat /\ PoolSize \in Nat
  /\ Outcomes \subseteq Done
  /\ Edits \subseteq ProjectStatus
  /\ NoTask \notin Tasks
  /\ NoMsg \notin Message
BY StoreAssumption, WorkAssumption, NoMsgAssumption DEF Done

\* A save leaves the row a task status and the failure count in its range.
LEMMA SaveTyping ==
  ASSUME TypeOK, NEW t \in Tasks, NEW s \in TaskStatus, SaveOneTask(t, s)
  PROVE  taskdb' \in [Tasks -> TaskStatus] /\ faults' \in 0..MaxFaults
<1>1. taskdb' \in [Tasks -> TaskStatus]
  BY DEF TypeOK, SaveOneTask
<1>2. faults' \in 0..MaxFaults
  BY Consts DEF TypeOK, SaveOneTask, Fault
<1> QED
  BY <1>1, <1>2

\* The initial state is well typed.
LEMMA TypingInit == Init => TypeInv
BY Consts DEF Init, InitNodes, TypeInv, TypeOK, Steps, TaskStatus, ProjectStatus, Pc,
  FutureState

\* Every step keeps the types and what the program counters stand for.
LEMMA Typing == TypeInv /\ [Next]_vars => TypeInv'
<1> SUFFICES ASSUME TypeInv, [Next]_vars PROVE TypeInv'
  OBVIOUS
<1> USE Consts
<1>1. CASE \E n \in Nodes, t \in Tasks : StartThread(n, t)
  BY <1>1 DEF TypeInv, TypeOK, Steps, StartThread, SetFuture, storeVars,
    FutureState
<1>2. CASE \E n \in Nodes, t \in Tasks : Finish(n, t)
  BY <1>2 DEF TypeInv, TypeOK, Steps, Finish, SetFuture, storeVars,
    FutureState, Done
<1>3. CASE \E n \in Nodes : Begin(n)
  <2>1. PICK n \in Nodes : Begin(n)
    BY <1>3
  <2>2. pc' \in [Nodes -> Pc] /\ todo' \in [Nodes -> SUBSET Tasks]
    BY <2>1 DEF TypeInv, TypeOK, Begin, Goto, FutureList, Pc
  <2>3. TypeOK'
    BY <2>1, <2>2 DEF TypeInv, TypeOK, Begin, storeVars
  <2>4. Steps'
    BY <2>1 DEF TypeInv, TypeOK, Steps, Begin, Goto
  <2> QED
    BY <2>3, <2>4 DEF TypeInv
<1>4. ASSUME NEW n \in Nodes, NEW t \in Tasks, CollectDone(n, t)
      PROVE  TypeInv'
  <2>1. FinalStatus(n, t) \in TaskStatus
    BY <1>4 DEF CollectDone, FinalStatus, TaskStatus
  <2>2. taskdb' \in [Tasks -> TaskStatus] /\ faults' \in 0..MaxFaults
    BY <1>4, <2>1, SaveTyping DEF CollectDone, TypeInv
  <2> QED
    BY <1>4, <2>2 DEF CollectDone, Visit, Forget, SetFuture, TypeInv, TypeOK,
      Steps, FutureState
<1>5. ASSUME NEW n \in Nodes, NEW t \in Tasks, CollectRetry(n, t)
      PROVE  TypeInv'
  <2>1. [task |-> t, retry |-> attempt[n][t] + 1] \in Message
    BY <1>5 DEF CollectRetry, RetriesLeft, Message, TypeInv, TypeOK
  <2>2. queue' \in Seq(Message)
    BY <1>5, <2>1 DEF CollectRetry, Push, TypeInv, TypeOK
  <2> QED
    BY <1>5, <2>2 DEF CollectRetry, Visit, Forget, SetFuture, Goto, TypeInv,
      TypeOK, Steps, FutureState, Pc
<1>6. ASSUME NEW n \in Nodes, NEW t \in Tasks, CollectRetryThrows(n, t)
      PROVE  TypeInv'
  <2>1. spoilt' \subseteq Nodes /\ faults' \in 0..MaxFaults
    BY <1>6 DEF CollectRetryThrows, PushThrows, RedisFails, StillSpoilt, Fault,
      TypeInv, TypeOK
  <2>2. attempt' \in [Nodes -> [Tasks -> 0..Retry]]
    BY <1>6 DEF CollectRetryThrows, RetriesLeft, TypeInv, TypeOK
  <2> QED
    BY <1>6, <2>1, <2>2 DEF CollectRetryThrows, Goto, TypeInv, TypeOK, Steps, Pc
<1>7. ASSUME NEW n \in Nodes, NEW t \in Tasks, CollectPending(n, t)
      PROVE  TypeInv'
  <2>1. taskdb' \in [Tasks -> TaskStatus] /\ faults' \in 0..MaxFaults
    BY <1>7, SaveTyping DEF CollectPending, TypeInv, TaskStatus
  <2> QED
    BY <1>7, <2>1 DEF CollectPending, Visit, TypeInv, TypeOK, Steps
<1>8. ASSUME NEW n \in Nodes, SaveRetry(n) PROVE TypeInv'
  <2>1. taskdb' \in [Tasks -> TaskStatus] /\ faults' \in 0..MaxFaults
    BY <1>8, SaveTyping DEF SaveRetry, TypeInv, Steps, TaskStatus
  <2> QED
    BY <1>8, <2>1 DEF SaveRetry, Goto, TypeInv, TypeOK, Steps, Pc
<1>9. CASE \E n \in Nodes : CheckCapacity(n) \/ PollEmpty(n)
  <2>1. PICK n \in Nodes : CheckCapacity(n) \/ PollEmpty(n)
    BY <1>9
  <2>2. PICK l \in {"idle", "poll"} : pc' = [pc EXCEPT ![n] = l]
    BY <2>1 DEF CheckCapacity, PollEmpty, Goto
  <2>3. /\ hand[n] = NoMsg /\ pc' \in [Nodes -> Pc]
        /\ UNCHANGED <<storeVars, todo, future, attempt, running, hand, verdict,
                       saving, spoilt, runs>>
    BY <2>1, <2>2 DEF CheckCapacity, PollEmpty, TypeInv, TypeOK, Steps, Pc
  <2>4. TypeOK'
    BY <2>3 DEF storeVars, TypeInv, TypeOK
  <2>5. Steps'
    BY <2>2, <2>3 DEF TypeInv, TypeOK, Steps
  <2> QED
    BY <2>4, <2>5 DEF TypeInv
<1>10. ASSUME NEW n \in Nodes, Poll(n) PROVE TypeInv'
  <2>1. queue' \in Seq(Message) /\ Head(queue) \in Message
    BY <1>10 DEF Poll, TypeInv, TypeOK
  <2> QED
    BY <1>10, <2>1 DEF Poll, Goto, TypeInv, TypeOK, Steps, Pc
<1>11. ASSUME NEW n \in Nodes, Requeue(n) PROVE TypeInv'
  <2>1. hand[n] \in Message
    BY <1>11 DEF Requeue, TypeInv, TypeOK, Steps
  <2>2. queue' = Append(queue, hand[n]) \/ queue' = queue
    BY <1>11 DEF Requeue, PutBack, Push
  <2>3. Append(queue, hand[n]) \in Seq(Message) /\ queue \in Seq(Message)
    BY <2>1 DEF TypeInv, TypeOK
  <2>4. faults' \in 0..MaxFaults /\ spoilt' \subseteq Nodes
    BY <1>11 DEF Requeue, PutBack, RedisFails, Fault, TypeInv, TypeOK
  <2> QED
    BY <1>11, <2>2, <2>3, <2>4 DEF Requeue, Goto, TypeInv, TypeOK, Steps, Pc
<1>12. ASSUME NEW n \in Nodes, LookUp(n) PROVE TypeInv'
  <2>1. faults' \in 0..MaxFaults
    BY <1>12 DEF LookUp, ReadProject, Fault, TypeInv, TypeOK
  <2> QED
    BY <1>12, <2>1 DEF LookUp, AlreadyRunning, Goto, TypeInv, TypeOK, Steps, Pc
<1>13. ASSUME NEW n \in Nodes, LookUpThrows(n) PROVE TypeInv'
  BY <1>13 DEF LookUpThrows, Fault, Goto, TypeInv, TypeOK, Steps, Pc
<1>14. ASSUME NEW n \in Nodes, Submit(n) PROVE TypeInv'
  <2>1. hand[n] \in Message
    BY <1>14 DEF Submit, TypeInv, TypeOK, Steps
  <2>2. taskdb' \in [Tasks -> TaskStatus] /\ faults' \in 0..MaxFaults
    BY <1>14, <2>1, SaveTyping DEF Submit, TypeInv, TaskStatus, Message
  <2> QED
    BY <1>14, <2>1, <2>2 DEF Submit, SubmitTask, SetFuture, Settle, Goto,
      Message, TypeInv, TypeOK, Steps, Pc, FutureState, ProjectStatus
<1>15. ASSUME NEW n \in Nodes, Discard(n) PROVE TypeInv'
  <2>1. hand[n] \in Message
    BY <1>15 DEF Discard, TypeInv, TypeOK, Steps
  <2>2. taskdb' \in [Tasks -> TaskStatus] /\ faults' \in 0..MaxFaults
    BY <1>15, <2>1, SaveTyping DEF Discard, TypeInv, TaskStatus, Message
  <2> QED
    BY <1>15, <2>2 DEF Discard, Settle, Goto, TypeInv, TypeOK, Steps, Pc,
      ProjectStatus
<1>16. ASSUME NEW n \in Nodes, Crash(n) PROVE TypeInv'
  BY <1>16 DEF Crash, Fault, Goto, TypeInv, TypeOK, Steps, Pc, FutureState,
    ProjectStatus
<1>17. ASSUME NEW t \in Tasks, Release(t) PROVE TypeInv'
  <2>1. [task |-> t, retry |-> 0] \in Message
    BY DEF Message
  <2>2. queue' \in Seq(Message)
    BY <1>17, <2>1 DEF Release, Push, TypeInv, TypeOK
  <2> QED
    BY <1>17, <2>2 DEF Release, nodeVars, TypeInv, TypeOK, Steps, TaskStatus
<1>18. ASSUME NEW p \in Projects, NEW s \in Edits, UserEdit(p, s)
       PROVE  TypeInv'
  BY <1>18 DEF UserEdit, EditProject, nodeVars, TypeInv, TypeOK, Steps
<1>19. CASE UNCHANGED vars
  BY <1>19 DEF vars, storeVars, nodeVars, TypeInv, TypeOK, Steps
<1>20. ASSUME NEW n \in Nodes, PollThrows(n) PROVE TypeInv'
  <2>1. spoilt' \subseteq Nodes /\ faults' \in 0..MaxFaults
    BY <1>20 DEF PollThrows, RedisFails, StillSpoilt, Fault, TypeInv, TypeOK
  <2> QED
    BY <1>20, <2>1 DEF PollThrows, Goto, TypeInv, TypeOK, Steps, Pc
<1> QED
  BY <1>1, <1>2, <1>3, <1>4, <1>5, <1>6, <1>7, <1>8, <1>9, <1>10, <1>11,
    <1>12, <1>13, <1>14, <1>15, <1>16, <1>17, <1>18, <1>19, <1>20
    DEF Next, Execute, Collect

\* The tables, the queue and every node stay well typed in every behaviour.
THEOREM TypeCorrect == Spec => []TypeOK
<1>1. Spec => []TypeInv
  BY TypingInit, Typing, PTL DEF Spec
<1>2. TypeInv => TypeOK
  BY DEF TypeInv
<1> QED
  BY <1>1, <1>2, PTL

-----------------------------------------------------------------------------
(* runningTasks and the futures *)

\* The pool threads change no list of futures.
LEMMA PoolSteps ==
  ASSUME TypeOK, NEW n \in Nodes, NEW t \in Tasks,
         StartThread(n, t) \/ Finish(n, t)
  PROVE  t \in FutureList(n) /\ \A m \in Nodes : FutureList(m)' = FutureList(m)
<1>1. future[n][t] # "none"
  BY DEF StartThread, Finish
<1>2. PICK s \in FutureState \ {"none"} : SetFuture(n, t, s)
  BY Consts DEF StartThread, Finish, Done, FutureState
<1> QED
  BY <1>1, <1>2 DEF SetFuture, FutureList, TypeOK

\* Removing a future removes the name of its firing and nothing else.
LEMMA ForgetOneWorker ==
  ASSUME TypeOK, OneWorkerPerInstance, NEW n \in Nodes,
         NEW t \in FutureList(n), Forget(n, t)
  PROVE  OneWorkerPerInstance'
<1>1. t \in Tasks
  BY DEF FutureList
<1>2. \A m \in Nodes :
        FutureList(m)' = IF m = n THEN FutureList(n) \ {t} ELSE FutureList(m)
  BY <1>1 DEF Forget, SetFuture, FutureList, TypeOK
<1>3. \A m \in Nodes :
        running'[m] = IF m = n THEN running[n] \ {InstanceOf[t]} ELSE running[m]
  BY DEF Forget, TypeOK
<1> QED
  BY <1>2, <1>3 DEF OneWorkerPerInstance

\* A firing gets a future only when runningTasks does not name it.
LEMMA SubmitOneWorker ==
  ASSUME TypeInv, OneWorkerPerInstance, NEW n \in Nodes, Submit(n)
  PROVE  OneWorkerPerInstance'
<1> DEFINE t == hand[n].task
<1>1. t \in Tasks /\ InstanceOf[t] \notin running[n]
  BY DEF Submit, TypeInv, TypeOK, Steps, Message
<1>2. \A m \in Nodes :
        FutureList(m)' = IF m = n THEN FutureList(n) \cup {t} ELSE FutureList(m)
  BY <1>1 DEF Submit, SubmitTask, SetFuture, FutureList, TypeInv, TypeOK
<1>3. \A m \in Nodes :
        running'[m] = IF m = n THEN running[n] \cup {InstanceOf[t]}
                               ELSE running[m]
  BY DEF Submit, SubmitTask, TypeInv, TypeOK
<1> HIDE DEF t
<1> QED
  BY <1>1, <1>2, <1>3 DEF OneWorkerPerInstance

\* Every step of execute, a pool thread or the environment keeps one worker
\* per firing and the names of the firings.
LEMMA OneWorkerStep ==
  TypeInv /\ OneWorkerPerInstance /\ [Next]_vars => OneWorkerPerInstance'
<1> SUFFICES ASSUME TypeInv, OneWorkerPerInstance, [Next]_vars
             PROVE  OneWorkerPerInstance'
  OBVIOUS
<1>1. ASSUME NEW n \in Nodes, NEW t \in Tasks,
             StartThread(n, t) \/ Finish(n, t)
      PROVE  OneWorkerPerInstance'
  <2>1. running' = running
    BY <1>1 DEF StartThread, Finish
  <2> QED
    BY <1>1, <2>1, PoolSteps DEF OneWorkerPerInstance, TypeInv
<1>2. ASSUME NEW n \in Nodes, NEW t \in Tasks,
             CollectDone(n, t) \/ CollectRetry(n, t)
      PROVE  OneWorkerPerInstance'
  <2>1. t \in FutureList(n) /\ Forget(n, t)
    BY <1>2 DEF CollectDone, CollectRetry, FutureList
  <2> QED
    BY <2>1, ForgetOneWorker DEF TypeInv
<1>3. ASSUME NEW n \in Nodes, Submit(n) PROVE OneWorkerPerInstance'
  BY <1>3, SubmitOneWorker
<1>4. ASSUME NEW n \in Nodes, Crash(n) PROVE OneWorkerPerInstance'
  <2>1. \A m \in Nodes :
          FutureList(m)' = IF m = n THEN {} ELSE FutureList(m)
    BY <1>4 DEF Crash, FutureList, TypeInv, TypeOK
  <2>2. \A m \in Nodes : running'[m] = IF m = n THEN {} ELSE running[m]
    BY <1>4 DEF Crash, TypeInv, TypeOK
  <2> QED
    BY <2>1, <2>2 DEF OneWorkerPerInstance
<1>5. CASE UNCHANGED <<future, running>>
  BY <1>5 DEF OneWorkerPerInstance, FutureList
<1>6. ASSUME NEW n \in Nodes, NEW t \in Tasks,
             CollectRetryThrows(n, t) \/ CollectPending(n, t)
      PROVE  UNCHANGED <<future, running>>
  BY <1>6 DEF CollectRetryThrows, CollectPending
<1>7. ASSUME NEW n \in Nodes,
             \/ Begin(n) \/ SaveRetry(n) \/ CheckCapacity(n) \/ PollEmpty(n)
             \/ Poll(n) \/ PollThrows(n) \/ Requeue(n) \/ LookUp(n)
             \/ LookUpThrows(n) \/ Discard(n)
      PROVE  UNCHANGED <<future, running>>
  BY <1>7 DEF Begin, SaveRetry, CheckCapacity, PollEmpty, Poll, PollThrows,
    Requeue, LookUp, LookUpThrows, Discard
<1>8. ASSUME \/ \E t \in Tasks : Release(t)
             \/ \E p \in Projects, s \in Edits : UserEdit(p, s)
             \/ UNCHANGED vars
      PROVE  UNCHANGED <<future, running>>
  BY <1>8 DEF Release, UserEdit, vars, nodeVars
<1> QED
  BY <1>1, <1>2, <1>3, <1>4, <1>5, <1>6, <1>7, <1>8 DEF Next, Execute, Collect

\* On every node, at any time, no two workers of one firing have a future
\* and runningTasks names exactly the firings of the futures.
THEOREM OneWorker == Spec => []OneWorkerPerInstance
<1>1. Init => OneWorkerPerInstance
  BY DEF Init, InitNodes, OneWorkerPerInstance, FutureList
<1>2. Spec => [](TypeInv /\ OneWorkerPerInstance)
  BY <1>1, TypingInit, Typing, OneWorkerStep, PTL DEF Spec
<1> QED
  BY <1>2, PTL

-----------------------------------------------------------------------------
(* One copy of every task *)

\* The rows that were released stay released.
KeepsReleased == \A t \in Tasks : taskdb'[t] = "INIT" => taskdb[t] = "INIT"

\* No node comes to hold a message or a future it did not hold.
HoldsNoMore ==
  \A n \in Nodes : /\ FutureList(n)' \subseteq FutureList(n)
                   /\ hand'[n] = hand[n] \/ hand'[n] = NoMsg

\* No row becomes INIT by the saves of WorkTrigger.
LEMMA SaveReleases ==
  ASSUME TypeOK, NEW t \in Tasks, NEW s, s # "INIT", SaveOneTask(t, s)
  PROVE  KeepsReleased
BY DEF TypeOK, SaveOneTask, KeepsReleased

\* Copies that disappear, or stay, cannot break the invariant.
LEMMA CopyShrink ==
  ASSUME TypeInv, CopyInv, queue' = queue, KeepsReleased, HoldsNoMore,
         \A t \in Tasks : taskdb'[t] = "INIT" => runs'[t] = runs[t]
  PROVE  CopyInv'
<1>1. \A t \in Tasks : InQueue(t)' <=> InQueue(t)
  BY DEF InQueue
<1>2. \A t \in Tasks, n \in Nodes :
        /\ InHand(n, t)' => InHand(n, t)
        /\ Holds(n, t)' => Holds(n, t)
  BY DEF HoldsNoMore, Holds, InHand
<1>3. DistinctMessages'
  BY DEF CopyInv, SingleCopy, DistinctMessages
<1>4. Exclusive'
  BY <1>1, <1>2 DEF CopyInv, SingleCopy, Exclusive, HoldsNoMore
<1>5. Unreleased'
  BY <1>1, <1>2 DEF CopyInv, Unreleased, KeepsReleased
<1> QED
  BY <1>3, <1>4, <1>5 DEF CopyInv, SingleCopy

\* A message may join the queue if its task is nowhere else afterwards.
LEMMA CopyPush ==
  ASSUME TypeInv, CopyInv, NEW m \in Message, Push(m), KeepsReleased,
         HoldsNoMore, runs' = runs, taskdb'[m.task] # "INIT",
         ~InQueue(m.task), \A n \in Nodes : ~Holds(n, m.task)'
  PROVE  CopyInv'
<1>1. /\ queue \in Seq(Message) /\ Len(queue') = Len(queue) + 1
      /\ \A i \in 1..Len(queue) : queue'[i] = queue[i]
      /\ queue'[Len(queue) + 1] = m
  BY DEF Push, TypeInv, TypeOK
<1>2. \A t \in Tasks : InQueue(t)' <=> InQueue(t) \/ t = m.task
  BY <1>1 DEF InQueue
<1>3. \A t \in Tasks, n \in Nodes :
        /\ InHand(n, t)' => InHand(n, t)
        /\ Holds(n, t)' => Holds(n, t)
  BY DEF HoldsNoMore, Holds, InHand
<1>4. DistinctMessages'
  <2> SUFFICES ASSUME NEW i \in 1..Len(queue'), NEW j \in 1..Len(queue'),
                      queue'[i].task = queue'[j].task
               PROVE  i = j
    BY DEF DistinctMessages
  <2>1. CASE i \in 1..Len(queue) /\ j \in 1..Len(queue)
    BY <1>1, <2>1 DEF CopyInv, SingleCopy, DistinctMessages
  <2>2. CASE i = Len(queue) + 1 \/ j = Len(queue) + 1
    BY <1>1, <2>2 DEF InQueue
  <2> QED
    BY <1>1, <2>1, <2>2
<1>5. Exclusive'
  BY <1>2, <1>3 DEF CopyInv, SingleCopy, Exclusive, HoldsNoMore
<1>6. Unreleased'
  BY <1>2, <1>3 DEF CopyInv, Unreleased, KeepsReleased
<1> QED
  BY <1>4, <1>5, <1>6 DEF CopyInv, SingleCopy

\* A message popped is off the queue and in one hand.
LEMMA CopyPoll ==
  ASSUME TypeInv, CopyInv, NEW n \in Nodes, Poll(n)
  PROVE  CopyInv'
<1> DEFINE h == Head(queue)
<1>1. /\ queue \in Seq(Message) /\ Len(queue) \in Nat \ {0}
      /\ h = queue[1] /\ h \in Message
      /\ Len(queue') = Len(queue) - 1
      /\ \A i \in 1..Len(queue') : queue'[i] = queue[i + 1]
  BY DEF Poll, TypeInv, TypeOK
<1>2. h.task \in Tasks /\ h # NoMsg
  BY <1>1, Consts DEF Message
<1>3. \A t \in Tasks : InQueue(t)' <=> InQueue(t) /\ t # h.task
  <2> SUFFICES ASSUME NEW t \in Tasks
               PROVE  InQueue(t)' <=> InQueue(t) /\ t # h.task
    OBVIOUS
  <2>1. ASSUME NEW i \in 1..Len(queue'), queue'[i].task = t
        PROVE  InQueue(t) /\ t # h.task
    <3>1. i + 1 \in 1..Len(queue) /\ queue[i + 1].task = t /\ i + 1 # 1
      BY <1>1, <2>1
    <3> QED
      BY <1>1, <3>1 DEF InQueue, CopyInv, SingleCopy, DistinctMessages
  <2>2. ASSUME NEW i \in 1..Len(queue), queue[i].task = t, t # h.task
        PROVE  InQueue(t)'
    <3>1. i - 1 \in 1..Len(queue') /\ queue'[i - 1] = queue[i]
      BY <1>1, <2>2
    <3> QED
      BY <2>2, <3>1 DEF InQueue
  <2> QED
    BY <2>1, <2>2 DEF InQueue
<1>4. /\ \A m \in Nodes : FutureList(m)' = FutureList(m)
      /\ \A m \in Nodes : hand'[m] = IF m = n THEN h ELSE hand[m]
      /\ hand[n] = NoMsg
  BY DEF Poll, FutureList, TypeInv, TypeOK, Steps
<1>5. InQueue(h.task)
  BY <1>1 DEF InQueue
<1> HIDE DEF h
<1>6. \A m \in Nodes, t \in Tasks :
        InHand(m, t)' <=> InHand(m, t) \/ (m = n /\ t = h.task)
  BY <1>2, <1>4 DEF InHand
<1>7. DistinctMessages'
  <2> SUFFICES ASSUME NEW i \in 1..Len(queue'), NEW j \in 1..Len(queue'),
                      queue'[i].task = queue'[j].task
               PROVE  i = j
    BY DEF DistinctMessages
  <2>1. i + 1 \in 1..Len(queue) /\ j + 1 \in 1..Len(queue)
    BY <1>1
  <2>2. i + 1 = j + 1
    BY <1>1, <2>1 DEF CopyInv, SingleCopy, DistinctMessages
  <2> QED
    BY <2>2
<1>8. Exclusive'
  BY <1>2, <1>3, <1>4, <1>5, <1>6 DEF CopyInv, SingleCopy, Exclusive, Holds
<1>9. Unreleased'
  BY <1>2, <1>3, <1>4, <1>5, <1>6 DEF Poll, CopyInv, Unreleased, Holds
<1> QED
  BY <1>7, <1>8, <1>9 DEF CopyInv, SingleCopy

\* Submitting moves the task from the hand to the futures of the same node.
LEMMA CopySubmit ==
  ASSUME TypeInv, CopyInv, NEW n \in Nodes, Submit(n)
  PROVE  CopyInv'
<1> DEFINE t == hand[n].task
<1>1. t \in Tasks /\ hand[n] # NoMsg
  BY DEF Submit, TypeInv, TypeOK, Steps, Message
<1>2. \A m \in Nodes :
        FutureList(m)' = IF m = n THEN FutureList(n) \cup {t} ELSE FutureList(m)
  BY <1>1 DEF Submit, SubmitTask, SetFuture, FutureList, TypeInv, TypeOK
<1>3. \A m \in Nodes : hand'[m] = IF m = n THEN NoMsg ELSE hand[m]
  BY DEF Submit, Settle, TypeInv, TypeOK
<1>4. InHand(n, t)
  BY <1>1 DEF InHand
<1>5. KeepsReleased
  BY <1>1, SaveReleases DEF Submit, TypeInv
<1> HIDE DEF t
<1>6. \A m \in Nodes, u \in Tasks :
        /\ InHand(m, u)' <=> InHand(m, u) /\ m # n
        /\ Holds(m, u)' => Holds(m, u)
  BY <1>2, <1>3, <1>4 DEF InHand, Holds
<1>7. \A u \in Tasks : InQueue(u)' <=> InQueue(u)
  BY DEF Submit, InQueue
<1>8. Exclusive'
  BY <1>2, <1>4, <1>6, <1>7 DEF CopyInv, SingleCopy, Exclusive, Holds
<1>9. Unreleased'
  BY <1>5, <1>6, <1>7 DEF Submit, CopyInv, Unreleased, KeepsReleased
<1>10. DistinctMessages'
  BY DEF Submit, CopyInv, SingleCopy, DistinctMessages
<1> QED
  BY <1>8, <1>9, <1>10 DEF CopyInv, SingleCopy

\* Every step moves, drops or creates copies of a task in a way that leaves
\* at most one.
LEMMA CopyStep == TypeInv /\ CopyInv /\ [Next]_vars => CopyInv'
<1> SUFFICES ASSUME TypeInv, CopyInv, [Next]_vars PROVE CopyInv'
  OBVIOUS
<1>1. ASSUME NEW n \in Nodes, NEW t \in Tasks,
             StartThread(n, t) \/ Finish(n, t)
      PROVE  CopyInv'
  <2>1. t \in FutureList(n) /\ \A m \in Nodes : FutureList(m)' = FutureList(m)
    BY <1>1, PoolSteps DEF TypeInv
  <2>2. HoldsNoMore
    BY <1>1, <2>1 DEF StartThread, Finish, HoldsNoMore
  <2>3. taskdb[t] # "INIT"
    BY <2>1 DEF CopyInv, Unreleased, Holds
  <2>4. \A u \in Tasks : taskdb'[u] = "INIT" => runs'[u] = runs[u]
    BY <1>1, <2>3 DEF StartThread, Finish, storeVars, TypeInv, TypeOK
  <2>5. queue' = queue /\ KeepsReleased
    BY <1>1 DEF StartThread, Finish, storeVars, KeepsReleased
  <2> QED
    BY <2>2, <2>4, <2>5, CopyShrink
<1>2. ASSUME NEW n \in Nodes, NEW t \in Tasks, CollectDone(n, t)
      PROVE  CopyInv'
  <2>1. HoldsNoMore
    BY <1>2 DEF CollectDone, Forget, SetFuture, HoldsNoMore, FutureList, TypeInv,
      TypeOK
  <2>2. KeepsReleased
    BY <1>2, SaveReleases DEF CollectDone, FinalStatus, TypeInv
  <2> QED
    BY <1>2, <2>1, <2>2, CopyShrink DEF CollectDone
<1>3. ASSUME NEW n \in Nodes, NEW t \in Tasks, CollectRetry(n, t)
      PROVE  CopyInv'
  <2> DEFINE m == [task |-> t, retry |-> attempt[n][t] + 1]
  <2>1. m \in Message
    BY <1>3, Consts DEF CollectRetry, RetriesLeft, Message, TypeInv, TypeOK
  <2>2. Push(m)
    BY <1>3 DEF CollectRetry
  <2>3. m.task = t
    OBVIOUS
  <2>4. /\ \A k \in Nodes : FutureList(k)' =
             IF k = n THEN FutureList(n) \ {t} ELSE FutureList(k)
        /\ hand' = hand /\ runs' = runs /\ taskdb' = taskdb
    BY <1>3 DEF CollectRetry, Forget, SetFuture, FutureList, TypeInv, TypeOK
  <2>5. t \in FutureList(n) /\ Holds(n, t)
    BY <1>3 DEF CollectRetry, FutureList, Holds
  <2>6. HoldsNoMore /\ KeepsReleased /\ taskdb'[t] # "INIT"
    BY <2>4, <2>5 DEF HoldsNoMore, KeepsReleased, CopyInv, Unreleased
  <2>7. ~InQueue(t) /\ \A k \in Nodes : ~Holds(k, t)'
    BY <2>4, <2>5 DEF CopyInv, SingleCopy, Exclusive, Holds, InHand
  <2> HIDE DEF m
  <2> QED
    BY <2>1, <2>2, <2>3, <2>4, <2>6, <2>7, CopyPush
<1>4. ASSUME NEW n \in Nodes, NEW t \in Tasks, CollectPending(n, t)
      PROVE  CopyInv'
  <2>1. KeepsReleased
    BY <1>4, SaveReleases DEF CollectPending, TypeInv
  <2> QED
    BY <1>4, <2>1, CopyShrink DEF CollectPending, HoldsNoMore, FutureList
<1>5. ASSUME NEW n \in Nodes, SaveRetry(n) PROVE CopyInv'
  <2>1. KeepsReleased
    BY <1>5, SaveReleases DEF SaveRetry, TypeInv, Steps
  <2> QED
    BY <1>5, <2>1, CopyShrink DEF SaveRetry, HoldsNoMore, FutureList
<1>6. ASSUME NEW n \in Nodes, Poll(n) PROVE CopyInv'
  BY <1>6, CopyPoll
<1>7. ASSUME NEW n \in Nodes, Requeue(n) PROVE CopyInv'
  <2>1. /\ \A k \in Nodes : FutureList(k)' = FutureList(k)
        /\ \A k \in Nodes : hand'[k] = IF k = n THEN NoMsg ELSE hand[k]
        /\ runs' = runs /\ taskdb' = taskdb
    BY <1>7 DEF Requeue, FutureList, TypeInv, TypeOK
  <2>2. HoldsNoMore /\ KeepsReleased
    BY <2>1 DEF HoldsNoMore, KeepsReleased
  <2>3. CASE queue' = queue
    BY <2>1, <2>2, <2>3, CopyShrink
  <2>4. CASE Push(hand[n])
    <3>1. PICK m \in Message : m = hand[n]
      BY <1>7 DEF Requeue, TypeInv, TypeOK, Steps
    <3>2. m.task \in Tasks /\ InHand(n, m.task) /\ Holds(n, m.task)
      BY <3>1, Consts DEF InHand, Holds, Message
    <3>3. /\ ~InQueue(m.task) /\ m.task \notin FutureList(n)
          /\ \A k \in Nodes : Holds(k, m.task) => k = n
      BY <3>2 DEF CopyInv, SingleCopy, Exclusive
    <3>4. taskdb[m.task] # "INIT"
      BY <3>2 DEF CopyInv, Unreleased
    <3>5. \A k \in Nodes : ~Holds(k, m.task)'
      BY <2>1, <3>3 DEF Holds, InHand
    <3> QED
      BY <2>1, <2>2, <2>4, <3>1, <3>3, <3>4, <3>5, CopyPush
  <2> QED
    BY <1>7, <2>3, <2>4 DEF Requeue, PutBack
<1>8. ASSUME NEW n \in Nodes, Submit(n) PROVE CopyInv'
  BY <1>8, CopySubmit
<1>9. ASSUME NEW n \in Nodes, Discard(n) PROVE CopyInv'
  <2>1. hand[n].task \in Tasks
    BY <1>9 DEF Discard, TypeInv, TypeOK, Steps, Message
  <2>2. KeepsReleased
    BY <1>9, <2>1, SaveReleases DEF Discard, TypeInv
  <2>3. HoldsNoMore
    BY <1>9 DEF Discard, Settle, HoldsNoMore, FutureList, TypeInv, TypeOK
  <2> QED
    BY <1>9, <2>2, <2>3, CopyShrink DEF Discard
<1>10. ASSUME NEW n \in Nodes, Crash(n) PROVE CopyInv'
  <2>1. HoldsNoMore
    BY <1>10 DEF Crash, HoldsNoMore, FutureList, TypeInv, TypeOK
  <2> QED
    BY <1>10, <2>1, CopyShrink DEF Crash, KeepsReleased
<1>11. ASSUME NEW t \in Tasks, Release(t) PROVE CopyInv'
  <2> DEFINE m == [task |-> t, retry |-> 0]
  <2>1. m \in Message /\ m.task = t
    BY Consts DEF Message
  <2>2. /\ Push(m) /\ runs' = runs /\ hand' = hand /\ future' = future
        /\ taskdb'[t] # "INIT" /\ KeepsReleased
    BY <1>11 DEF Release, nodeVars, KeepsReleased, TypeInv, TypeOK
  <2>3. HoldsNoMore /\ ~InQueue(t) /\ \A n \in Nodes : ~Holds(n, t)'
    BY <1>11, <2>2 DEF Release, HoldsNoMore, FutureList, Holds, InHand, CopyInv,
      Unreleased
  <2> HIDE DEF m
  <2> QED
    BY <2>1, <2>2, <2>3, CopyPush
<1>12. CASE UNCHANGED <<taskdb, queue, future, hand, runs>>
  BY <1>12, CopyShrink DEF KeepsReleased, HoldsNoMore, FutureList
<1>13. ASSUME NEW n \in Nodes, LookUpThrows(n) PROVE CopyInv'
  <2>1. HoldsNoMore
    BY <1>13 DEF LookUpThrows, HoldsNoMore, FutureList, TypeInv, TypeOK
  <2> QED
    BY <1>13, <2>1, CopyShrink DEF LookUpThrows, KeepsReleased
<1>14. ASSUME NEW n \in Nodes,
              \/ \E t \in Tasks : CollectRetryThrows(n, t)
              \/ Begin(n) \/ CheckCapacity(n) \/ PollEmpty(n) \/ PollThrows(n)
              \/ LookUp(n)
       PROVE  UNCHANGED <<taskdb, queue, future, hand, runs>>
  BY <1>14 DEF CollectRetryThrows, Begin, CheckCapacity, PollEmpty, PollThrows,
    LookUp, storeVars
<1>15. ASSUME \/ \E p \in Projects, s \in Edits : UserEdit(p, s)
              \/ UNCHANGED vars
       PROVE  UNCHANGED <<taskdb, queue, future, hand, runs>>
  BY <1>15 DEF UserEdit, EditProject, vars, storeVars, nodeVars
<1> QED
  BY <1>1, <1>2, <1>3, <1>4, <1>5, <1>6, <1>7, <1>8, <1>9, <1>10, <1>11,
    <1>12, <1>13, <1>14, <1>15 DEF Next, Execute, Collect

\* At first there are no copies at all.
LEMMA CopyInit == Init => CopyInv
BY DEF Init, InitNodes, CopyInv, SingleCopy, DistinctMessages, Exclusive, Unreleased,
  Holds, InHand, InQueue, FutureList

\* Whatever the interleaving of any number of nodes, their crashes and their
\* failures, a task is never in two places.
THEOREM OneCopy == Spec => []SingleCopy
<1>1. Spec => [](TypeInv /\ CopyInv)
  BY CopyInit, TypingInit, CopyStep, Typing, PTL DEF Spec
<1>2. CopyInv => SingleCopy
  BY DEF CopyInv
<1> QED
  BY <1>1, <1>2, PTL

-----------------------------------------------------------------------------
(* Retries *)

\* Steps that start nothing and only drop copies keep the bounds.
LEMMA RunShrink ==
  ASSUME TypeInv, RunInv, runs' = runs, queue' = queue,
         \A n \in Nodes : hand'[n] = hand[n] \/ hand'[n] = NoMsg,
         \A n \in Nodes, t \in Tasks :
           /\ future'[n][t] = "submitted" => future[n][t] = "submitted"
           /\ future'[n][t] # "none" => /\ future[n][t] # "none"
                                        /\ attempt'[n][t] >= attempt[n][t],
         attempt' \in [Nodes -> [Tasks -> 0..Retry]]
  PROVE  RunInv'
<1>1. QueueRuns'
  BY DEF RunInv, QueueRuns
<1>2. HandRuns'
  BY DEF RunInv, HandRuns
<1>3. FutureRuns'
  BY Consts DEF RunInv, FutureRuns, TypeInv, TypeOK
<1>4. RetriesBounded'
  BY DEF RunInv, RetriesBounded
<1> QED
  BY <1>1, <1>2, <1>3, <1>4 DEF RunInv

\* A message that carries a sufficient count may join the queue.
LEMMA QueuePush ==
  ASSUME TypeOK, QueueRuns, NEW m \in Message, Push(m), runs' = runs,
         runs[m.task] <= m.retry
  PROVE  QueueRuns'
<1>1. /\ queue \in Seq(Message) /\ Len(queue') = Len(queue) + 1
      /\ \A i \in 1..Len(queue) : queue'[i] = queue[i]
      /\ queue'[Len(queue) + 1] = m
  BY DEF Push, TypeOK
<1> QED
  BY <1>1 DEF QueueRuns

\* A thread starts a body: the start is within the count of its future.
LEMMA RunStart ==
  ASSUME TypeInv, CopyInv, RunInv, NEW n \in Nodes, NEW t \in Tasks,
         StartThread(n, t)
  PROVE  RunInv'
<1>1. /\ runs[t] <= attempt[n][t] /\ attempt[n][t] \in 0..Retry
      /\ runs[t] \in Nat
  BY DEF StartThread, RunInv, FutureRuns, TypeInv, TypeOK
<1>2. /\ runs'[t] = runs[t] + 1
      /\ \A u \in Tasks : u # t => runs'[u] = runs[u]
      /\ queue' = queue /\ hand' = hand /\ attempt' = attempt
  BY DEF StartThread, storeVars, TypeInv, TypeOK
<1>3. Holds(n, t)
  BY DEF StartThread, Holds, FutureList
<1>4. /\ ~InQueue(t)
      /\ \A m \in Nodes : ~InHand(m, t)
      /\ \A m \in Nodes : future[m][t] # "none" => m = n
  BY <1>3 DEF StartThread, CopyInv, SingleCopy, Exclusive, Holds, FutureList
<1>5. QueueRuns'
  <2> SUFFICES ASSUME NEW i \in 1..Len(queue)
               PROVE  runs'[queue[i].task] <= queue[i].retry
    BY <1>2 DEF QueueRuns
  <2>1. queue[i] \in Message
    BY DEF TypeInv, TypeOK
  <2>2. queue[i].task \in Tasks /\ queue[i].task # t
    BY <1>4, <2>1 DEF InQueue, Message
  <2> QED
    BY <1>2, <2>2 DEF RunInv, QueueRuns
<1>6. HandRuns'
  BY <1>2, <1>4 DEF RunInv, HandRuns, InHand, TypeInv, TypeOK, Message
<1>7. FutureRuns'
  <2> SUFFICES ASSUME NEW m \in Nodes, NEW u \in Tasks
               PROVE  /\ future'[m][u] = "submitted" => runs'[u] <= attempt'[m][u]
                      /\ future'[m][u] # "none" => runs'[u] <= attempt'[m][u] + 1
    BY DEF FutureRuns
  <2>1. CASE m = n /\ u = t
    BY <1>1, <1>2, <2>1 DEF StartThread, SetFuture, TypeInv, TypeOK
  <2>2. CASE u = t /\ m # n
    BY <1>4, <2>2 DEF StartThread, SetFuture, TypeInv, TypeOK
  <2>3. CASE u # t
    BY <1>2, <2>3 DEF StartThread, SetFuture, TypeInv, TypeOK, RunInv,
      FutureRuns
  <2> QED
    BY <2>1, <2>2, <2>3
<1>8. RetriesBounded'
  BY <1>1, <1>2, Consts DEF RunInv, RetriesBounded
<1> QED
  BY <1>5, <1>6, <1>7, <1>8 DEF RunInv

\* A retried task carries its raised count into the queue.
LEMMA RunRetry ==
  ASSUME TypeInv, RunInv, NEW n \in Nodes, NEW t \in Tasks, CollectRetry(n, t)
  PROVE  RunInv'
<1> DEFINE m == [task |-> t, retry |-> attempt[n][t] + 1]
<1>1. m \in Message /\ m.task = t /\ m.retry = attempt[n][t] + 1
  BY Consts DEF CollectRetry, RetriesLeft, Message, TypeInv, TypeOK
<1>2. Push(m) /\ runs' = runs /\ hand' = hand /\ attempt' = attempt
  BY DEF CollectRetry
<1>3. runs[t] <= attempt[n][t] + 1
  BY DEF CollectRetry, RunInv, FutureRuns
<1> HIDE DEF m
<1>4. QueueRuns'
  BY <1>1, <1>2, <1>3, QueuePush DEF RunInv, TypeInv
<1>5. HandRuns' /\ RetriesBounded'
  BY <1>2 DEF RunInv, HandRuns, RetriesBounded
<1>6. FutureRuns'
  BY <1>2 DEF CollectRetry, Forget, SetFuture, RunInv, FutureRuns, TypeInv,
    TypeOK
<1> QED
  BY <1>4, <1>5, <1>6 DEF RunInv

\* A popped message carries its count into the hand.
LEMMA RunPoll ==
  ASSUME TypeInv, RunInv, NEW n \in Nodes, Poll(n)
  PROVE  RunInv'
<1>1. /\ queue \in Seq(Message) /\ Len(queue) \in Nat \ {0}
      /\ Head(queue) = queue[1]
      /\ Len(queue') = Len(queue) - 1
      /\ \A i \in 1..Len(queue') : queue'[i] = queue[i + 1]
      /\ runs' = runs /\ future' = future /\ attempt' = attempt
  BY DEF Poll, TypeInv, TypeOK
<1>2. QueueRuns'
  BY <1>1 DEF RunInv, QueueRuns
<1>3. runs[queue[1].task] <= queue[1].retry
  BY <1>1 DEF RunInv, QueueRuns
<1>4. HandRuns'
  BY <1>1, <1>3 DEF Poll, RunInv, HandRuns, TypeInv, TypeOK
<1>5. FutureRuns' /\ RetriesBounded'
  BY <1>1 DEF RunInv, FutureRuns, RetriesBounded
<1> QED
  BY <1>2, <1>4, <1>5 DEF RunInv

\* submitTask carries the count of the message into the future.
LEMMA RunSubmit ==
  ASSUME TypeInv, RunInv, NEW n \in Nodes, Submit(n)
  PROVE  RunInv'
<1>1. PICK m \in Message : m = hand[n]
  BY DEF Submit, TypeInv, TypeOK, Steps
<1>2. m.task \in Tasks /\ m.retry \in 0..Retry /\ runs[m.task] <= m.retry
  BY <1>1, Consts DEF Message, RunInv, HandRuns
<1>3. QueueRuns' /\ HandRuns' /\ RetriesBounded'
  BY DEF Submit, Settle, RunInv, QueueRuns, HandRuns, RetriesBounded, TypeInv,
    TypeOK
<1>4. FutureRuns'
  <2> SUFFICES ASSUME NEW k \in Nodes, NEW u \in Tasks
               PROVE  /\ future'[k][u] = "submitted" => runs'[u] <= attempt'[k][u]
                      /\ future'[k][u] # "none" => runs'[u] <= attempt'[k][u] + 1
    BY DEF FutureRuns
  <2>1. SetFuture(n, m.task, "submitted") /\ runs' = runs
        /\ attempt' = [attempt EXCEPT ![n][m.task] = m.retry]
    BY <1>1 DEF Submit, SubmitTask
  <2>2. CASE k = n /\ u = m.task
    <3>1. runs'[u] <= m.retry /\ attempt'[k][u] = m.retry
      BY <1>2, <2>1, <2>2 DEF TypeInv, TypeOK
    <3> QED
      BY <1>2, <2>1, <3>1, <2>2, Consts DEF TypeInv, TypeOK
  <2>3. CASE k # n \/ u # m.task
    BY <2>1, <2>3 DEF SetFuture, RunInv, FutureRuns, TypeInv, TypeOK
  <2> QED
    BY <2>2, <2>3
<1> QED
  BY <1>3, <1>4 DEF RunInv

\* Every step keeps the starts of a body within the count its copies carry.
LEMMA RunStep == TypeInv /\ CopyInv /\ RunInv /\ [Next]_vars => RunInv'
<1> SUFFICES ASSUME TypeInv, CopyInv, RunInv, [Next]_vars PROVE RunInv'
  OBVIOUS
<1>1. TypeInv'
  BY Typing
<1>2. attempt' \in [Nodes -> [Tasks -> 0..Retry]]
  BY <1>1 DEF TypeInv, TypeOK
<1>3. ASSUME NEW n \in Nodes, NEW t \in Tasks, StartThread(n, t)
      PROVE  RunInv'
  BY <1>3, RunStart
<1>4. ASSUME NEW n \in Nodes, NEW t \in Tasks,
             Finish(n, t) \/ CollectDone(n, t)
      PROVE  RunInv'
  <2>1. PICK s \in {"none"} \cup Done : SetFuture(n, t, s)
    BY <1>4, Consts DEF Finish, CollectDone, Forget
  <2>2. /\ runs' = runs /\ queue' = queue /\ hand' = hand
        /\ attempt' = attempt /\ future[n][t] # "none"
    BY <1>4 DEF Finish, CollectDone, storeVars
  <2>3. \A k \in Nodes, u \in Tasks :
          /\ future'[k][u] = "submitted" => future[k][u] = "submitted"
          /\ future'[k][u] # "none" => future[k][u] # "none"
    BY <2>1, <2>2 DEF SetFuture, Done, TypeInv, TypeOK
  <2>4. \A k \in Nodes, u \in Tasks : attempt'[k][u] >= attempt[k][u]
    BY <2>2, Consts DEF TypeInv, TypeOK
  <2> QED
    BY <1>2, <2>2, <2>3, <2>4, RunShrink
<1>5. ASSUME NEW n \in Nodes, NEW t \in Tasks, CollectRetry(n, t)
      PROVE  RunInv'
  BY <1>5, RunRetry
<1>6. ASSUME NEW n \in Nodes, NEW t \in Tasks, CollectRetryThrows(n, t)
      PROVE  RunInv'
  <2>1. \A k \in Nodes, u \in Tasks : attempt'[k][u] >= attempt[k][u]
    BY <1>6, Consts DEF CollectRetryThrows, TypeInv, TypeOK
  <2> QED
    BY <1>2, <1>6, <2>1, RunShrink DEF CollectRetryThrows
<1>7. ASSUME NEW n \in Nodes, Poll(n) PROVE RunInv'
  BY <1>7, RunPoll
<1>8. ASSUME NEW n \in Nodes, Submit(n) PROVE RunInv'
  BY <1>8, RunSubmit
<1>9. ASSUME NEW n \in Nodes, Requeue(n) PROVE RunInv'
  <2>1. /\ runs' = runs /\ future' = future /\ attempt' = attempt
        /\ \A k \in Nodes : hand'[k] = hand[k] \/ hand'[k] = NoMsg
    BY <1>9 DEF Requeue, TypeInv, TypeOK
  <2>2. HandRuns' /\ FutureRuns' /\ RetriesBounded'
    BY <2>1 DEF RunInv, HandRuns, FutureRuns, RetriesBounded
  <2>3. QueueRuns'
    <3>1. PICK m \in Message : m = hand[n]
      BY <1>9 DEF Requeue, TypeInv, TypeOK, Steps
    <3>2. runs[m.task] <= m.retry
      BY <3>1, Consts DEF RunInv, HandRuns
    <3>3. CASE Push(m)
      BY <2>1, <3>2, <3>3, QueuePush DEF RunInv, TypeInv
    <3>4. CASE queue' = queue
      BY <2>1, <3>4 DEF RunInv, QueueRuns
    <3> QED
      BY <1>9, <3>1, <3>3, <3>4 DEF Requeue, PutBack
  <2> QED
    BY <2>2, <2>3 DEF RunInv
<1>10. ASSUME NEW n \in Nodes, Crash(n) PROVE RunInv'
  <2>1. /\ runs' = runs /\ queue' = queue
        /\ \A k \in Nodes : hand'[k] = hand[k] \/ hand'[k] = NoMsg
    BY <1>10 DEF Crash, TypeInv, TypeOK
  <2>2. \A k \in Nodes, u \in Tasks :
          future'[k][u] # "none" => /\ future'[k][u] = future[k][u]
                                    /\ attempt'[k][u] = attempt[k][u]
    BY <1>10 DEF Crash, TypeInv, TypeOK
  <2>3. \A k \in Nodes, u \in Tasks : attempt[k][u] \in Nat
    BY Consts DEF TypeInv, TypeOK
  <2>4. \A k \in Nodes, u \in Tasks :
          /\ future'[k][u] = "submitted" => future[k][u] = "submitted"
          /\ future'[k][u] # "none" => /\ future[k][u] # "none"
                                       /\ attempt'[k][u] >= attempt[k][u]
    BY <2>2, <2>3
  <2> QED
    BY <1>2, <2>1, <2>4, RunShrink
<1>11. ASSUME NEW t \in Tasks, Release(t) PROVE RunInv'
  <2> DEFINE m == [task |-> t, retry |-> 0]
  <2>1. m \in Message /\ m.task = t /\ m.retry = 0
    BY Consts DEF Message
  <2>2. Push(m) /\ UNCHANGED <<runs, hand, future, attempt>>
    BY <1>11 DEF Release, nodeVars
  <2>3. runs[t] = 0
    BY <1>11 DEF Release, CopyInv, Unreleased
  <2> HIDE DEF m
  <2>4. QueueRuns'
    BY <2>1, <2>2, <2>3, QueuePush DEF RunInv, TypeInv
  <2>5. HandRuns' /\ FutureRuns' /\ RetriesBounded'
    BY <2>2 DEF RunInv, HandRuns, FutureRuns, RetriesBounded
  <2> QED
    BY <2>4, <2>5 DEF RunInv
<1>12. CASE /\ UNCHANGED <<queue, future, attempt, runs>>
            /\ \A n \in Nodes : hand'[n] = hand[n] \/ hand'[n] = NoMsg
  <2>1. \A k \in Nodes, u \in Tasks : attempt'[k][u] >= attempt[k][u]
    BY <1>12, Consts DEF TypeInv, TypeOK
  <2> QED
    BY <1>2, <1>12, <2>1, RunShrink
<1>13. ASSUME NEW n \in Nodes,
              \/ \E t \in Tasks : CollectPending(n, t)
              \/ Begin(n) \/ SaveRetry(n) \/ CheckCapacity(n)
              \/ PollEmpty(n) \/ PollThrows(n) \/ LookUp(n)
       PROVE  UNCHANGED <<queue, future, attempt, runs, hand>>
  BY <1>13 DEF CollectPending, Begin, SaveRetry, CheckCapacity, PollEmpty,
    PollThrows, LookUp, storeVars
<1>14. ASSUME NEW n \in Nodes, LookUpThrows(n) \/ Discard(n)
       PROVE  /\ UNCHANGED <<queue, future, attempt, runs>>
              /\ \A k \in Nodes : hand'[k] = hand[k] \/ hand'[k] = NoMsg
  BY <1>14 DEF LookUpThrows, Discard, Settle, TypeInv, TypeOK
<1>15. ASSUME \/ \E p \in Projects, s \in Edits : UserEdit(p, s)
              \/ UNCHANGED vars
       PROVE  UNCHANGED <<queue, future, attempt, runs, hand>>
  BY <1>15 DEF UserEdit, EditProject, vars, storeVars, nodeVars
<1> QED
  BY <1>3, <1>4, <1>5, <1>6, <1>7, <1>8, <1>9, <1>10, <1>11, <1>12, <1>13,
    <1>14, <1>15 DEF Next, Execute, Collect

\* At first nothing has been started.
LEMMA RunInit == Init => RunInv
BY Consts DEF Init, InitNodes, RunInv, QueueRuns, HandRuns, FutureRuns, RetriesBounded

\* However often nodes crash and pushes fail, a body is started at most
\* once more than its project allows retries.
THEOREM BoundedRetries == Spec => []RetriesBounded
<1>1. Spec => [](TypeInv /\ CopyInv /\ RunInv)
  BY RunInit, CopyInit, TypingInit, RunStep, CopyStep, Typing, PTL DEF Spec
<1>2. RunInv => RetriesBounded
  BY DEF RunInv
<1> QED
  BY <1>1, <1>2, PTL

-----------------------------------------------------------------------------
(* Settled rows *)

\* Some queue, hand or list of futures still has the task.
Present(t) == InQueue(t) \/ \E n \in Nodes : Holds(n, t)

\* A push brings the task of its message into the queue, and no other.
LEMMA PushedTask ==
  ASSUME TypeOK, NEW m \in Message, Push(m), NEW t \in Tasks, InQueue(t)'
  PROVE  InQueue(t) \/ t = m.task
<1>1. /\ queue \in Seq(Message) /\ Len(queue') = Len(queue) + 1
      /\ \A i \in 1..Len(queue) : queue'[i] = queue[i]
      /\ queue'[Len(queue) + 1] = m
  BY DEF Push, TypeOK
<1> QED
  BY <1>1 DEF InQueue

\* Rows stay settled or become so without their tasks, and a task that appears
\* was released by the step.
LEMMA SettledKept ==
  ASSUME SettledIsGone,
         \A t \in Tasks : taskdb'[t] \in Settled =>
           taskdb[t] \in Settled \/ ~Present(t)',
         \A t \in Tasks : Present(t)' => Present(t) \/ taskdb[t] = "INIT"
  PROVE  SettledIsGone'
<1> SUFFICES ASSUME NEW t \in Tasks, taskdb'[t] \in Settled
             PROVE  ~Present(t)'
  BY DEF SettledIsGone, Present
<1>1. CASE taskdb[t] \in Settled
  <2>1. ~Present(t) /\ taskdb[t] # "INIT"
    BY <1>1 DEF SettledIsGone, Present, Settled
  <2> QED
    BY <2>1
<1> QED
  BY <1>1

\* Nothing appears where the queue stays and the nodes come to hold no more.
LEMMA NothingAppears ==
  ASSUME queue' = queue, HoldsNoMore
  PROVE  \A t \in Tasks : Present(t)' => Present(t)
<1>1. \A t \in Tasks : InQueue(t)' => InQueue(t)
  BY DEF InQueue
<1>2. \A t \in Tasks, n \in Nodes : Holds(n, t)' => Holds(n, t)
  BY DEF HoldsNoMore, Holds, InHand
<1> QED
  BY <1>1, <1>2 DEF Present

\* A save of another status settles no row.
LEMMA UnsettledSave ==
  ASSUME TypeOK, NEW t \in Tasks, NEW s, s \notin Settled, SaveOneTask(t, s)
  PROVE  \A u \in Tasks : taskdb'[u] \in Settled => taskdb[u] \in Settled
BY DEF TypeOK, SaveOneTask

\* A save touches no row but its own.
LEMMA OneRowSaved ==
  ASSUME TypeOK, NEW t \in Tasks, NEW s, SaveOneTask(t, s)
  PROVE  \A u \in Tasks : u # t => taskdb'[u] = taskdb[u]
BY DEF TypeOK, SaveOneTask

\* A step that settles a row drops the only copy of its task.
LEMMA SettledStep ==
  TypeInv /\ CopyInv /\ SettledIsGone /\ [Next]_vars => SettledIsGone'
<1> SUFFICES ASSUME TypeInv, CopyInv, SettledIsGone, [Next]_vars
             PROVE  SettledIsGone'
  OBVIOUS
<1>1. ASSUME queue' = queue, HoldsNoMore,
             \A t \in Tasks : taskdb'[t] \in Settled =>
               taskdb[t] \in Settled \/ ~Present(t)'
      PROVE  SettledIsGone'
  BY <1>1, NothingAppears, SettledKept
<1>2. ASSUME NEW n \in Nodes, NEW t \in Tasks,
             StartThread(n, t) \/ Finish(n, t)
      PROVE  SettledIsGone'
  <2>1. HoldsNoMore
    BY <1>2, PoolSteps DEF StartThread, Finish, HoldsNoMore, TypeInv
  <2> QED
    BY <1>1, <1>2, <2>1 DEF StartThread, Finish, storeVars
<1>3. ASSUME NEW n \in Nodes, NEW t \in Tasks, CollectDone(n, t)
      PROVE  SettledIsGone'
  <2>1. /\ \A k \in Nodes : FutureList(k)' =
             IF k = n THEN FutureList(n) \ {t} ELSE FutureList(k)
        /\ hand' = hand /\ queue' = queue
    BY <1>3 DEF CollectDone, Forget, SetFuture, FutureList, TypeInv, TypeOK
  <2>2. Holds(n, t) /\ t \in FutureList(n)
    BY <1>3 DEF CollectDone, FutureList, Holds
  <2>3. ~Present(t)'
    <3>1. ~InQueue(t)'
      BY <2>1, <2>2 DEF InQueue, CopyInv, SingleCopy, Exclusive
    <3>2. \A k \in Nodes : ~Holds(k, t)'
      BY <2>1, <2>2 DEF CopyInv, SingleCopy, Exclusive, Holds, InHand
    <3> QED
      BY <3>1, <3>2 DEF Present
  <2>4. \A u \in Tasks : u # t => taskdb'[u] = taskdb[u]
    BY <1>3, OneRowSaved DEF CollectDone, TypeInv
  <2>5. HoldsNoMore
    BY <2>1 DEF HoldsNoMore
  <2> QED
    BY <1>1, <2>1, <2>3, <2>4, <2>5
<1>4. ASSUME NEW n \in Nodes, NEW t \in Tasks, CollectRetry(n, t)
      PROVE  SettledIsGone'
  <2> DEFINE m == [task |-> t, retry |-> attempt[n][t] + 1]
  <2>1. m \in Message /\ m.task = t
    BY <1>4, Consts DEF CollectRetry, RetriesLeft, Message, TypeInv, TypeOK
  <2>2. Push(m) /\ taskdb' = taskdb
    BY <1>4 DEF CollectRetry
  <2> HIDE DEF m
  <2>3. \A u \in Tasks : InQueue(u)' => InQueue(u) \/ u = t
    BY <2>1, <2>2, PushedTask DEF TypeInv
  <2>4. \A k \in Nodes, u \in Tasks : Holds(k, u)' => Holds(k, u)
    BY <1>4 DEF CollectRetry, Forget, SetFuture, FutureList, Holds, InHand,
      TypeInv, TypeOK
  <2>5. Present(t)
    BY <1>4 DEF CollectRetry, FutureList, Holds, Present
  <2>6. \A u \in Tasks : Present(u)' => Present(u)
    BY <2>3, <2>4, <2>5 DEF Present
  <2> QED
    BY <2>2, <2>6, SettledKept
<1>5. ASSUME NEW n \in Nodes, NEW t \in Tasks, CollectPending(n, t)
      PROVE  SettledIsGone'
  <2>1. \A u \in Tasks : taskdb'[u] \in Settled => taskdb[u] \in Settled
    BY <1>5, UnsettledSave DEF CollectPending, Settled, TypeInv
  <2> QED
    BY <1>1, <1>5, <2>1 DEF CollectPending, HoldsNoMore, FutureList
<1>6. ASSUME NEW n \in Nodes, SaveRetry(n) PROVE SettledIsGone'
  <2>1. \A u \in Tasks : taskdb'[u] \in Settled => taskdb[u] \in Settled
    BY <1>6, UnsettledSave DEF SaveRetry, Settled, TypeInv, Steps
  <2> QED
    BY <1>1, <1>6, <2>1 DEF SaveRetry, HoldsNoMore, FutureList
<1>7. ASSUME NEW n \in Nodes, Poll(n) PROVE SettledIsGone'
  <2>1. /\ queue \in Seq(Message) /\ Len(queue) \in Nat \ {0}
        /\ Head(queue) = queue[1]
        /\ Len(queue') = Len(queue) - 1
        /\ \A i \in 1..Len(queue') : queue'[i] = queue[i + 1]
    BY <1>7 DEF Poll, TypeInv, TypeOK
  <2>2. \A u \in Tasks : InQueue(u)' => InQueue(u)
    BY <2>1, SMTT(30) DEF InQueue
  <2>3. \A k \in Nodes, u \in Tasks :
          InHand(k, u)' => InHand(k, u) \/ InQueue(u)
    BY <1>7, <2>1 DEF Poll, InHand, InQueue, TypeInv, TypeOK
  <2>4. \A k \in Nodes : FutureList(k)' = FutureList(k)
    BY <1>7 DEF Poll, FutureList
  <2>5. \A u \in Tasks : Present(u)' => Present(u)
    BY <2>2, <2>3, <2>4 DEF Present, Holds
  <2> QED
    BY <1>7, <2>5, SettledKept DEF Poll
<1>8. ASSUME NEW n \in Nodes, Requeue(n) PROVE SettledIsGone'
  <2>1. PICK m \in Message : m = hand[n] /\ hand[n] # NoMsg
    BY <1>8 DEF Requeue, TypeInv, TypeOK, Steps
  <2>2. /\ taskdb' = taskdb /\ \A k \in Nodes : FutureList(k)' = FutureList(k)
        /\ \A k \in Nodes : hand'[k] = hand[k] \/ hand'[k] = NoMsg
    BY <1>8 DEF Requeue, FutureList, TypeInv, TypeOK
  <2>3. \A u \in Tasks : InQueue(u)' => InQueue(u) \/ InHand(n, u)
    <3>1. CASE Push(m)
      BY <2>1, <3>1, PushedTask DEF InHand, TypeInv
    <3>2. CASE queue' = queue
      BY <3>2 DEF InQueue
    <3> QED
      BY <1>8, <2>1, <3>1, <3>2 DEF Requeue, PutBack
  <2>4. \A k \in Nodes, u \in Tasks : Holds(k, u)' => Holds(k, u)
    BY <2>2 DEF InHand, Holds
  <2>5. \A u \in Tasks : Present(u)' => Present(u)
    BY <2>3, <2>4 DEF Present, Holds
  <2> QED
    BY <2>2, <2>5, SettledKept
<1>9. ASSUME NEW n \in Nodes, Submit(n) PROVE SettledIsGone'
  <2>1. PICK m \in Message : m = hand[n] /\ hand[n] # NoMsg
    BY <1>9 DEF Submit, TypeInv, TypeOK, Steps
  <2>2. m.task \in Tasks /\ queue' = queue
    BY <1>9 DEF Submit, Message
  <2>3. \A u \in Tasks : taskdb'[u] \in Settled => taskdb[u] \in Settled
    BY <1>9, <2>1, <2>2, UnsettledSave DEF Submit, Settled, TypeInv
  <2>4. \A k \in Nodes, u \in Tasks : Holds(k, u)' => Holds(k, u)
    <3>1. \A k \in Nodes : hand'[k] = hand[k] \/ hand'[k] = NoMsg
      BY <1>9 DEF Submit, Settle, TypeInv, TypeOK
    <3>2. \A k \in Nodes, u \in Tasks :
            u \in FutureList(k)' => u \in FutureList(k) \/ InHand(k, u)
      BY <1>9, <2>1, <2>2 DEF Submit, SubmitTask, SetFuture, FutureList,
        InHand, TypeInv, TypeOK
    <3> QED
      BY <3>1, <3>2 DEF Holds, InHand
  <2>5. \A u \in Tasks : Present(u)' => Present(u)
    BY <2>2, <2>4 DEF Present, InQueue
  <2> QED
    BY <2>3, <2>5, SettledKept
<1>10. ASSUME NEW n \in Nodes, Discard(n) PROVE SettledIsGone'
  <2>1. PICK t \in Tasks : t = hand[n].task /\ InHand(n, t) /\ Holds(n, t)
    BY <1>10 DEF Discard, TypeInv, TypeOK, Steps, Message, InHand, Holds
  <2>2. /\ \A k \in Nodes : FutureList(k)' = FutureList(k)
        /\ \A k \in Nodes : hand'[k] = IF k = n THEN NoMsg ELSE hand[k]
        /\ queue' = queue
    BY <1>10 DEF Discard, Settle, FutureList, TypeInv, TypeOK
  <2>3. \A u \in Tasks : u # t => taskdb'[u] = taskdb[u]
    BY <1>10, <2>1, OneRowSaved DEF Discard, TypeInv
  <2>4. ~Present(t)'
    <3>1. ~InQueue(t)'
      BY <2>1, <2>2 DEF InQueue, CopyInv, SingleCopy, Exclusive
    <3>2. \A k \in Nodes : ~Holds(k, t)'
      BY <2>1, <2>2 DEF CopyInv, SingleCopy, Exclusive, Holds, InHand
    <3> QED
      BY <3>1, <3>2 DEF Present
  <2>5. HoldsNoMore
    BY <2>2 DEF HoldsNoMore
  <2> QED
    BY <1>1, <2>2, <2>3, <2>4, <2>5
<1>11. ASSUME NEW n \in Nodes, Crash(n) \/ LookUpThrows(n)
       PROVE  SettledIsGone'
  <2>1. CASE Crash(n)
    BY <1>1, <2>1 DEF Crash, HoldsNoMore, FutureList, TypeInv, TypeOK
  <2>2. CASE LookUpThrows(n)
    BY <1>1, <2>2 DEF LookUpThrows, HoldsNoMore, FutureList, TypeInv, TypeOK
  <2> QED
    BY <1>11, <2>1, <2>2
<1>12. ASSUME NEW t \in Tasks, Release(t) PROVE SettledIsGone'
  <2> DEFINE m == [task |-> t, retry |-> 0]
  <2>1. m \in Message /\ m.task = t
    BY Consts DEF Message
  <2>2. /\ Push(m) /\ UNCHANGED <<hand, future>> /\ taskdb[t] = "INIT"
        /\ \A u \in Tasks : taskdb'[u] \in Settled => taskdb[u] \in Settled
    BY <1>12 DEF Release, nodeVars, Settled, TypeInv, TypeOK
  <2> HIDE DEF m
  <2>3. \A u \in Tasks : InQueue(u)' => InQueue(u) \/ u = t
    BY <2>1, <2>2, PushedTask DEF TypeInv
  <2>4. \A u \in Tasks : Present(u)' => Present(u) \/ taskdb[u] = "INIT"
    BY <2>2, <2>3 DEF Present, Holds, InHand, FutureList
  <2> QED
    BY <2>2, <2>4, SettledKept
<1>13. CASE UNCHANGED <<taskdb, queue, future, hand>>
  BY <1>1, <1>13 DEF HoldsNoMore, FutureList
<1>14. ASSUME NEW n \in Nodes,
              \/ \E t \in Tasks : CollectRetryThrows(n, t)
              \/ Begin(n) \/ CheckCapacity(n) \/ PollEmpty(n) \/ PollThrows(n)
              \/ LookUp(n)
       PROVE  UNCHANGED <<taskdb, queue, future, hand>>
  BY <1>14 DEF CollectRetryThrows, Begin, CheckCapacity, PollEmpty, PollThrows,
    LookUp, storeVars
<1>15. ASSUME \/ \E p \in Projects, s \in Edits : UserEdit(p, s)
              \/ UNCHANGED vars
       PROVE  UNCHANGED <<taskdb, queue, future, hand>>
  BY <1>15 DEF UserEdit, EditProject, vars, storeVars, nodeVars
<1> QED
  BY <1>2, <1>3, <1>4, <1>5, <1>6, <1>7, <1>8, <1>9, <1>10, <1>11, <1>12,
    <1>13, <1>14, <1>15 DEF Next, Execute, Collect

\* Once a row says SUCCESS, FAIL, STOP or DELETE the task is in no queue, hand
\* or list of futures of any node, so nothing can run it again.
THEOREM SettledOver == Spec => []SettledIsGone
<1>1. Init => SettledIsGone
  BY DEF Init, InitNodes, SettledIsGone, Settled
<1>2. Spec => [](TypeInv /\ CopyInv /\ SettledIsGone)
  BY <1>1, CopyInit, TypingInit, SettledStep, CopyStep, Typing, PTL DEF Spec
<1> QED
  BY <1>2, PTL
=============================================================================
