--------------------------- MODULE WorkRowsProofs ---------------------------
(***************************************************************************)
(* Proofs about WorkTrigger when no statement or push fails and no node    *)
(* dies: what the status of a row says about the copy of its task.         *)
(***************************************************************************)
EXTENDS WorkTokensProofs

\* Either one node reads the queue, or no body returns a value that leads to
\* a retry (BaseTask.call as written returns 0).  Otherwise the late save of a
\* retry may hit a row another node has written since.
OneSaver == (\A n, m \in Nodes : n = m) \/ "nonzero" \notin Outcomes

\* A row is saved after the push only by the node that is about to do so.
Saving(n) == pc[n] = "saveRetry"

Late(n, t) == Saving(n) /\ saving[n] = t

SavingInv == \A n \in Nodes : saving[n] # NoTask <=> Saving(n)

\* The row of a task in the queue or in a node's hand is ACTIVE, that of a task
\* with a future is RUNNING; the row of a retry lags behind its message.
Row(t) ==
  /\ \A n \in Nodes : Late(n, t) => InQueue(t) /\ taskdb[t] = "RUNNING"
  /\ InQueue(t) => taskdb[t] = "ACTIVE" \/ \E n \in Nodes : Late(n, t)
  /\ \A n \in Nodes : InHand(n, t) => taskdb[t] = "ACTIVE"
  /\ \A n \in Nodes : t \in FutureList(n) => taskdb[t] = "RUNNING"

\* The converse: a row that says so is backed by a copy.
Backed(t) ==
  /\ taskdb[t] = "ACTIVE" => InQueue(t) \/ \E n \in Nodes : InHand(n, t)
  /\ taskdb[t] = "RUNNING" =>
       \E n \in Nodes : t \in FutureList(n) \/ saving[n] = t

RowsInv ==
  /\ SavingInv
  /\ \A t \in Tasks : Row(t)
  /\ "throws" \notin Outcomes => \A t \in Tasks : Backed(t)

\* A body ends as bodies may, and only a nonzero value leads to a retry.
ReturnsInv ==
  /\ \A n \in Nodes, t \in Tasks :
       future[n][t] \in Done => future[n][t] \in Outcomes
  /\ \A n \in Nodes : Saving(n) => "nonzero" \in Outcomes

\* The count a copy carries is the number of starts, less the one that its
\* future stands for; a row says FAIL when all are used and the task is gone.
Exact(t) ==
  /\ \A r \in 0..Retry : QueuedWith(t, r) => runs[t] = r
  /\ \A n \in Nodes :
       /\ InHand(n, t) => runs[t] = hand[n].retry
       /\ future[n][t] = "submitted" => runs[t] = attempt[n][t]
       /\ future[n][t] \in {"working"} \cup Done => runs[t] = attempt[n][t] + 1
  /\ taskdb[t] = "FAIL" => Nowhere(t) /\ runs[t] = Retry + 1

AllExact == \A t \in Tasks : Exact(t)

\* A push that throws raises a count without a start, and spoils a connection.
ExactInv == spoilt = {} => AllExact

-----------------------------------------------------------------------------
(* Without failures *)

\* With no failure allowed, none happens.
LEMMA NoFaults ==
  ASSUME MaxFaults = 0, TypeOK
  PROVE  /\ ~Fault
         /\ \A t \in Tasks : \A s :
              SaveOneTask(t, s) => taskdb' = [taskdb EXCEPT ![t] = s]
<1>1. ~Fault
  BY DEF Fault, TypeOK
<1> QED
  BY <1>1 DEF SaveOneTask

\* After a push the queue has what it had and the message, nothing else.
LEMMA PushedOnly ==
  ASSUME TypeOK, NEW m \in Message, Push(m)
  PROVE  /\ \A t \in Tasks : \A r :
              QueuedWith(t, r)' => QueuedWith(t, r) \/ (t = m.task /\ r = m.retry)
         /\ \A t \in Tasks : InQueue(t)' <=> InQueue(t) \/ t = m.task
<1>1. /\ queue \in Seq(Message) /\ Len(queue') = Len(queue) + 1
      /\ Len(queue) \in Nat
      /\ \A i \in 1..Len(queue) : queue'[i] = queue[i]
      /\ queue'[Len(queue) + 1] = m
  BY DEF Push, TypeOK
<1> QED
  BY <1>1 DEF QueuedWith, InQueue

\* A pop brings no message into the queue.
LEMMA PoppedOnly ==
  ASSUME TypeOK, NEW n \in Nodes, Poll(n)
  PROVE  /\ \A t \in Tasks : \A r : QueuedWith(t, r)' => QueuedWith(t, r)
         /\ \A t \in Tasks : InQueue(t)' => InQueue(t)
         /\ \A t \in Tasks : InQueue(t) => InQueue(t)' \/ t = Head(queue).task
<1>1. /\ queue \in Seq(Message) /\ Len(queue) \in Nat \ {0}
      /\ Head(queue) = queue[1]
      /\ Len(queue') = Len(queue) - 1
      /\ \A i \in 1..Len(queue') : queue'[i] = queue[i + 1]
  BY DEF Poll, TypeOK
<1>2. \A i \in 1..Len(queue') : i + 1 \in 1..Len(queue)
  BY <1>1
<1>3. \A i \in 1..Len(queue) :
        i = 1 \/ (i - 1 \in 1..Len(queue') /\ queue'[i - 1] = queue[i])
  BY <1>1
<1> QED
  BY <1>1, <1>2, <1>3 DEF QueuedWith, InQueue

-----------------------------------------------------------------------------
(* FAIL means that all retries were run *)

\* Steps that start no body of t and bring no new copy of it.
LEMMA ExactKept ==
  ASSUME NEW t \in Tasks, Exact(t), runs' = runs,
         taskdb'[t] = taskdb[t] \/ taskdb'[t] # "FAIL",
         InQueue(t)' => InQueue(t),
         \A r \in 0..Retry : QueuedWith(t, r)' => QueuedWith(t, r),
         \A n \in Nodes : hand'[n] = hand[n] \/ ~InHand(n, t)',
         \A n \in Nodes :
           future'[n][t] = "none" \/
             /\ attempt'[n][t] = attempt[n][t]
             /\ \/ future'[n][t] = future[n][t]
                \/ future[n][t] = "working" /\ future'[n][t] \in Done
  PROVE  Exact(t)'
<1>1. \A n \in Nodes : InHand(n, t)' => InHand(n, t) /\ hand'[n] = hand[n]
  BY DEF InHand
<1>2. \A n \in Nodes : t \in FutureList(n)' => t \in FutureList(n)
  BY DEF FutureList, Done
<1>3. Nowhere(t) => Nowhere(t)'
  BY <1>1, <1>2 DEF Nowhere, Holds
<1> QED
  BY <1>1, <1>3 DEF Exact, Done

\* A task a node holds is not reported FAIL.
LEMMA HeldNotFail ==
  ASSUME NEW t \in Tasks, Exact(t), NEW n \in Nodes, Holds(n, t)
  PROVE  taskdb[t] # "FAIL"
BY DEF Exact, Nowhere

\* A thread starts the body of a task: the count of its future now stands for
\* one start less.
LEMMA ExactStart ==
  ASSUME TokenInv, AllExact, NEW n \in Nodes, NEW t \in Tasks,
         StartThread(n, t)
  PROVE  AllExact'
<1> USE DEF TokenInv, TypeInv
<1>1. /\ UNCHANGED <<taskdb, queue, hand, attempt>>
      /\ future[n][t] = "submitted" /\ future'[n][t] = "working"
      /\ \A m \in Nodes, u \in Tasks :
           m # n \/ u # t => future'[m][u] = future[m][u]
      /\ runs'[t] = runs[t] + 1
      /\ \A u \in Tasks : u # t => runs'[u] = runs[u]
  BY DEF StartThread, SetFuture, storeVars, TypeOK
<1>2. /\ Holds(n, t) /\ ~InQueue(t)
      /\ \A m \in Nodes : ~InHand(m, t)
      /\ \A m \in Nodes : m # n => future[m][t] = "none"
  BY <1>1 DEF Holds, FutureList, CopyInv, SingleCopy, Exclusive
<1>3. Exact(t)'
  <2>1. taskdb[t] # "FAIL" /\ runs[t] = attempt[n][t]
    BY <1>1, <1>2, HeldNotFail DEF AllExact, Exact
  <2>2. \A r \in 0..Retry : ~QueuedWith(t, r)'
    BY <1>1, <1>2 DEF QueuedWith, InQueue
  <2>3. \A m \in Nodes : ~InHand(m, t)'
    BY <1>1, <1>2 DEF InHand
  <2> QED
    BY <1>1, <1>2, <2>1, <2>2, <2>3 DEF Exact, Done
<1>4. ASSUME NEW u \in Tasks, u # t PROVE Exact(u)'
  <2>1. \A r \in 0..Retry : QueuedWith(u, r)' => QueuedWith(u, r)
    BY <1>1 DEF QueuedWith
  <2>2. \A m \in Nodes : InHand(m, u)' <=> InHand(m, u)
    BY <1>1 DEF InHand
  <2>3. Nowhere(u) => Nowhere(u)'
    BY <1>1, <1>4 DEF Nowhere, InQueue, Holds, InHand, FutureList
  <2> QED
    BY <1>1, <1>4, <2>1, <2>2, <2>3 DEF AllExact, Exact
<1> QED
  BY <1>3, <1>4 DEF AllExact

\* A settled task is gone; it is FAIL when its last retry has run.
LEMMA ExactCollectDone ==
  ASSUME MaxFaults = 0, TokenInv, AllExact, NEW n \in Nodes, NEW t \in Tasks,
         CollectDone(n, t)
  PROVE  AllExact'
<1> USE DEF TokenInv, TypeInv
<1>1. /\ UNCHANGED <<queue, hand, attempt, runs>>
      /\ t \in FutureList(n) /\ future[n][t] \in Done
      /\ future'[n][t] = "none"
      /\ \A m \in Nodes, u \in Tasks :
           m # n \/ u # t => future'[m][u] = future[m][u]
      /\ taskdb' = [taskdb EXCEPT ![t] = FinalStatus(n, t)]
  BY NoFaults DEF CollectDone, Forget, SetFuture, FutureList, Done, TypeOK
<1>2. \A u \in Tasks : /\ InQueue(u)' => InQueue(u)
                       /\ \A r \in 0..Retry : QueuedWith(u, r)' => QueuedWith(u, r)
  BY <1>1 DEF InQueue, QueuedWith
<1>3. ASSUME NEW u \in Tasks, u # t \/ taskdb'[u] # "FAIL" PROVE Exact(u)'
  BY <1>1, <1>2, <1>3, ExactKept DEF AllExact, TypeOK
<1>4. ASSUME taskdb'[t] = "FAIL" PROVE Exact(t)'
  <2>1. FinalStatus(n, t) = "FAIL"
    BY <1>1, <1>4 DEF TypeOK
  <2>2. future[n][t] = "nonzero" /\ attempt[n][t] = Retry
    BY <1>1, <2>1, Consts DEF FinalStatus, Done, CollectDone, RetriesLeft, TypeOK
  <2>3. /\ Holds(n, t) /\ ~InQueue(t)
        /\ \A m \in Nodes : ~InHand(m, t)
        /\ \A m \in Nodes : m # n => future[m][t] = "none"
    BY <1>1 DEF Holds, FutureList, CopyInv, SingleCopy, Exclusive
  <2>4. Nowhere(t)'
    BY <1>1, <2>3 DEF Nowhere, InQueue, Holds, InHand, FutureList
  <2>5. runs[t] = Retry + 1
    BY <1>1, <2>2 DEF AllExact, Exact
  <2>6. \A r \in 0..Retry : ~QueuedWith(t, r)'
    BY <2>4 DEF Nowhere, InQueue, QueuedWith
  <2>7. \A m \in Nodes : ~InHand(m, t)' /\ future'[m][t] = "none"
    BY <2>4 DEF Nowhere, Holds, FutureList
  <2> QED
    BY <1>1, <2>4, <2>5, <2>6, <2>7 DEF Exact, Done
<1> QED
  BY <1>3, <1>4 DEF AllExact

\* A message that joins the queue from a node, or from the trigger, carries the
\* number of starts.
LEMMA ExactPush ==
  ASSUME TokenInv, TokenInv', AllExact, NEW m \in Message, Push(m),
         runs' = runs, attempt' = attempt,
         runs[m.task] = m.retry, taskdb'[m.task] # "FAIL",
         \A u \in Tasks : u # m.task => taskdb'[u] = taskdb[u],
         \A n \in Nodes : hand'[n] = hand[n] \/ hand'[n] = NoMsg,
         \A n \in Nodes, u \in Tasks :
           future'[n][u] = future[n][u] \/ future'[n][u] = "none"
  PROVE  AllExact'
<1> USE DEF TokenInv, TypeInv
<1>1. \A u \in Tasks :
        /\ \A r : QueuedWith(u, r)' =>
                    QueuedWith(u, r) \/ (u = m.task /\ r = m.retry)
        /\ InQueue(u)' <=> InQueue(u) \/ u = m.task
  BY PushedOnly
<1>2. ASSUME NEW u \in Tasks, u # m.task PROVE Exact(u)'
  <2>1. \A n \in Nodes : hand'[n] = hand[n] \/ ~InHand(n, u)'
    BY DEF InHand
  <2>2. \A r \in 0..Retry : QueuedWith(u, r)' => QueuedWith(u, r)
    BY <1>1, <1>2
  <2> QED
    BY <1>1, <1>2, <2>1, <2>2, ExactKept DEF AllExact
<1>3. ASSUME NEW u \in Tasks, u = m.task PROVE Exact(u)'
  <2>1. \A n \in Nodes : ~Holds(n, u)'
    BY <1>1, <1>3 DEF CopyInv, SingleCopy, Exclusive
  <2>2. \A n \in Nodes : ~InHand(n, u)' /\ future'[n][u] = "none"
    BY <2>1 DEF Holds, FutureList
  <2>3. \A r \in 0..Retry : QueuedWith(u, r)' => QueuedWith(u, r) \/ r = m.retry
    BY <1>1
  <2> QED
    BY <1>3, <2>2, <2>3 DEF AllExact, Exact, Done
<1> QED
  BY <1>2, <1>3 DEF AllExact

\* The message popped carries its count into the hand.
LEMMA ExactPoll ==
  ASSUME TokenInv, AllExact, NEW n \in Nodes, Poll(n)
  PROVE  AllExact'
<1> USE DEF TokenInv, TypeInv
<1>1. /\ Head(queue) \in Message
      /\ QueuedWith(Head(queue).task, Head(queue).retry)
  BY Popped
<1>2. PICK h \in Message : h = Head(queue)
  BY <1>1
<1>3. /\ UNCHANGED <<taskdb, future, attempt, runs>>
      /\ \A k \in Nodes : hand'[k] = IF k = n THEN h ELSE hand[k]
  BY <1>2 DEF Poll, TypeOK
<1>4. \A u \in Tasks : /\ InQueue(u)' => InQueue(u)
                       /\ \A r : QueuedWith(u, r)' => QueuedWith(u, r)
  BY PoppedOnly
<1>5. h.task \in Tasks /\ h.retry \in 0..Retry /\ QueuedWith(h.task, h.retry)
  BY <1>1, <1>2 DEF Message
<1>6. ASSUME NEW u \in Tasks, u # h.task PROVE Exact(u)'
  <2>1. \A k \in Nodes : hand'[k] = hand[k] \/ ~InHand(k, u)'
    BY <1>3, <1>6 DEF InHand
  <2>2. \A r \in 0..Retry : QueuedWith(u, r)' => QueuedWith(u, r)
    BY <1>4
  <2> QED
    BY <1>3, <1>4, <2>1, <2>2, ExactKept DEF AllExact
<1>7. ASSUME NEW u \in Tasks, u = h.task PROVE Exact(u)'
  <2>1. InQueue(u)
    BY <1>5, <1>7 DEF QueuedWith, InQueue
  <2>2. \A k \in Nodes : ~InHand(k, u) /\ future[k][u] = "none"
    BY <2>1 DEF CopyInv, SingleCopy, Exclusive, Holds, FutureList
  <2>3. \A k \in Nodes : InHand(k, u)' => hand'[k] = h
    BY <1>3, <2>2 DEF InHand
  <2>4. \A r \in 0..Retry : QueuedWith(u, r)' => QueuedWith(u, r)
    BY <1>4
  <2>5. runs[u] = h.retry /\ taskdb[u] # "FAIL"
    BY <1>5, <1>7, <2>1 DEF AllExact, Exact, Nowhere
  <2> QED
    BY <1>3, <2>2, <2>3, <2>4, <2>5 DEF AllExact, Exact, Done
<1> QED
  BY <1>6, <1>7 DEF AllExact

\* submitTask restores the count from the message.
LEMMA ExactSubmit ==
  ASSUME MaxFaults = 0, TokenInv, AllExact, NEW n \in Nodes, Submit(n)
  PROVE  AllExact'
<1> USE DEF TokenInv, TypeInv
<1>1. PICK m \in Message : m = hand[n] /\ hand[n] # NoMsg
  BY DEF Submit, TypeOK, Steps
<1>2. m.task \in Tasks /\ m.retry \in 0..Retry /\ InHand(n, m.task)
  BY <1>1 DEF Message, InHand
<1>3. /\ UNCHANGED <<queue, runs>>
      /\ taskdb' = [taskdb EXCEPT ![m.task] = "RUNNING"]
      /\ \A k \in Nodes : hand'[k] = IF k = n THEN NoMsg ELSE hand[k]
      /\ future'[n][m.task] = "submitted" /\ attempt'[n][m.task] = m.retry
      /\ \A k \in Nodes, u \in Tasks : k # n \/ u # m.task =>
           future'[k][u] = future[k][u] /\ attempt'[k][u] = attempt[k][u]
  <2>1. taskdb' = [taskdb EXCEPT ![m.task] = "RUNNING"]
    BY <1>1, <1>2, NoFaults DEF Submit
  <2> QED
    BY <1>1, <1>2, <2>1 DEF Submit, SubmitTask, SetFuture, Settle, TypeOK
<1>4. \A u \in Tasks : /\ InQueue(u)' => InQueue(u)
                       /\ \A r : QueuedWith(u, r)' => QueuedWith(u, r)
  BY <1>3 DEF InQueue, QueuedWith
<1>5. ASSUME NEW u \in Tasks, u # m.task PROVE Exact(u)'
  <2>1. \A k \in Nodes : hand'[k] = hand[k] \/ ~InHand(k, u)'
    BY <1>3 DEF InHand
  <2>2. \A r \in 0..Retry : QueuedWith(u, r)' => QueuedWith(u, r)
    BY <1>4
  <2>3. taskdb'[u] = taskdb[u]
    BY <1>3, <1>5 DEF TypeOK
  <2> QED
    BY <1>3, <1>4, <1>5, <2>1, <2>2, <2>3, ExactKept DEF AllExact
<1>6. ASSUME NEW u \in Tasks, u = m.task PROVE Exact(u)'
  <2>1. /\ ~InQueue(u)
        /\ \A k \in Nodes : k # n => ~InHand(k, u) /\ future[k][u] = "none"
    BY <1>2, <1>6 DEF CopyInv, SingleCopy, Exclusive, Holds, FutureList
  <2>2. \A k \in Nodes : ~InHand(k, u)'
    BY <1>3, <2>1 DEF InHand
  <2>3. \A r \in 0..Retry : ~QueuedWith(u, r)'
    BY <1>3, <2>1 DEF InQueue, QueuedWith
  <2>4. taskdb'[u] = "RUNNING"
    BY <1>3, <1>6 DEF TypeOK
  <2>5. runs[u] = m.retry
    BY <1>1, <1>2, <1>6 DEF AllExact, Exact
  <2> QED
    BY <1>3, <1>6, <2>1, <2>2, <2>3, <2>4, <2>5 DEF Exact, Done
<1> QED
  BY <1>5, <1>6 DEF AllExact

\* Without failures a connection is spoilt by the retry of a project with a
\* crontab only, and stays so.
LEMMA SpoiltStep ==
  ASSUME MaxFaults = 0, TypeOK, [Next]_vars
  PROVE  \/ spoilt' = spoilt
         \/ \E n \in Nodes, t \in Tasks :
              ~Serializable(t) /\ spoilt' = spoilt \cup {n}
<1>1. ASSUME NEW n \in Nodes, NEW t \in Tasks,
             \/ StartThread(n, t) \/ Finish(n, t) \/ CollectDone(n, t)
             \/ CollectRetry(n, t) \/ CollectPending(n, t)
      PROVE  spoilt' = spoilt
  BY <1>1 DEF StartThread, Finish, CollectDone, CollectRetry, CollectPending
<1>2. ASSUME NEW n \in Nodes,
             \/ Begin(n) \/ SaveRetry(n) \/ CheckCapacity(n) \/ PollEmpty(n)
             \/ Poll(n) \/ LookUp(n) \/ Submit(n) \/ Discard(n)
      PROVE  spoilt' = spoilt
  BY <1>2 DEF Begin, SaveRetry, CheckCapacity, PollEmpty, Poll, LookUp, Submit,
    Discard
<1>3. ASSUME NEW n \in Nodes, PollThrows(n) \/ Requeue(n)
      PROVE  spoilt' = spoilt
  BY <1>3, NoFaults DEF PollThrows, StillSpoilt, RedisFails, Requeue, PutBack
<1>4. ASSUME NEW n \in Nodes, NEW t \in Tasks, CollectRetryThrows(n, t)
      PROVE  spoilt' = spoilt \/ (~Serializable(t) /\ spoilt' = spoilt \cup {n})
  BY <1>4, NoFaults DEF CollectRetryThrows, PushThrows, StillSpoilt, RedisFails
<1>5. ASSUME \/ \E t \in Tasks : Release(t)
             \/ \E p \in Projects, s \in Edits : UserEdit(p, s)
             \/ UNCHANGED vars
      PROVE  spoilt' = spoilt
  BY <1>5 DEF Release, UserEdit, vars, nodeVars
<1>6. \A n \in Nodes : ~LookUpThrows(n) /\ ~Crash(n)
  BY NoFaults DEF LookUpThrows, Crash
<1> QED
  BY <1>1, <1>2, <1>3, <1>4, <1>5, <1>6 DEF Next, Execute, Collect

LEMMA SpoiltStays ==
  ASSUME MaxFaults = 0, TypeOK, [Next]_vars, spoilt' = {}
  PROVE  spoilt = {}
BY SpoiltStep

\* Every step keeps the counts exact.
LEMMA ExactStep ==
  ASSUME MaxFaults = 0, TokenInv, TokenInv', ExactInv, [Next]_vars
  PROVE  ExactInv'
<1> SUFFICES ASSUME spoilt' = {} PROVE AllExact'
  BY DEF ExactInv
<1> USE DEF TokenInv, TypeInv
<1>0. spoilt = {} /\ AllExact
  BY SpoiltStays DEF ExactInv
<1>1. ASSUME NEW n \in Nodes, NEW t \in Tasks, StartThread(n, t)
      PROVE  AllExact'
  BY <1>0, <1>1, ExactStart
<1>2. ASSUME NEW n \in Nodes, NEW t \in Tasks, CollectDone(n, t)
      PROVE  AllExact'
  BY <1>0, <1>2, ExactCollectDone
<1>3. ASSUME NEW n \in Nodes, NEW t \in Tasks, CollectRetry(n, t)
      PROVE  AllExact'
  <2> DEFINE m == [task |-> t, retry |-> attempt[n][t] + 1]
  <2>1. /\ UNCHANGED <<taskdb, hand, attempt, runs>>
        /\ t \in FutureList(n) /\ future[n][t] = "nonzero"
        /\ \A k \in Nodes, u \in Tasks :
             future'[k][u] = future[k][u] \/ future'[k][u] = "none"
    BY <1>3 DEF CollectRetry, Forget, SetFuture, FutureList, TypeOK
  <2>2. m \in Message /\ m.task = t /\ Push(m) /\ m.retry = attempt[n][t] + 1
    BY <1>3, Consts DEF CollectRetry, RetriesLeft, Message, TypeOK
  <2>3. runs[t] = attempt[n][t] + 1 /\ taskdb[t] # "FAIL"
    BY <1>0, <2>1 DEF AllExact, Exact, Done, Nowhere, Holds
  <2> HIDE DEF m
  <2> QED
    BY <1>0, <2>1, <2>2, <2>3, ExactPush
<1>4. ASSUME NEW t \in Tasks, Release(t) PROVE AllExact'
  <2> DEFINE m == [task |-> t, retry |-> 0]
  <2>1. m \in Message /\ m.task = t /\ m.retry = 0
    BY Consts DEF Message
  <2>2. /\ Push(m) /\ UNCHANGED <<hand, future, attempt, runs>>
        /\ taskdb'[t] # "FAIL" /\ runs[t] = 0
        /\ \A u \in Tasks : u # t => taskdb'[u] = taskdb[u]
    BY <1>4 DEF Release, nodeVars, TypeOK, CopyInv, Unreleased
  <2> HIDE DEF m
  <2> QED
    BY <1>0, <2>1, <2>2, ExactPush
<1>5. ASSUME NEW n \in Nodes, Poll(n) PROVE AllExact'
  BY <1>0, <1>5, ExactPoll
<1>6. ASSUME NEW n \in Nodes, Submit(n) PROVE AllExact'
  BY <1>0, <1>6, ExactSubmit
<1>7. ASSUME NEW n \in Nodes, Requeue(n) PROVE AllExact'
  <2>1. PICK m \in Message : m = hand[n] /\ hand[n] # NoMsg
    BY <1>7 DEF Requeue, TypeOK, Steps
  <2>2. /\ Push(m) /\ UNCHANGED <<taskdb, future, attempt, runs>>
        /\ \A k \in Nodes : hand'[k] = hand[k] \/ hand'[k] = NoMsg
    BY <1>7, <2>1, NoFaults DEF Requeue, PutBack, RedisFails, TypeOK
  <2>3. m.task \in Tasks /\ InHand(n, m.task) /\ Holds(n, m.task)
    BY <2>1 DEF Message, InHand, Holds
  <2>4. runs[m.task] = m.retry /\ taskdb'[m.task] # "FAIL"
    BY <1>0, <2>1, <2>2, <2>3, HeldNotFail DEF AllExact, Exact
  <2> QED
    BY <1>0, <2>2, <2>4, ExactPush
<1>8. ASSUME UNCHANGED <<queue, hand, runs, attempt>>,
             \A t \in Tasks : taskdb'[t] = taskdb[t] \/ taskdb'[t] # "FAIL",
             \A n \in Nodes, t \in Tasks :
               \/ future'[n][t] = future[n][t]
               \/ future[n][t] = "working" /\ future'[n][t] \in Done
      PROVE  AllExact'
  <2>1. \A u \in Tasks : /\ InQueue(u)' => InQueue(u)
                         /\ \A r \in 0..Retry :
                              QueuedWith(u, r)' => QueuedWith(u, r)
    BY <1>8 DEF InQueue, QueuedWith
  <2> QED
    BY <1>0, <1>8, <2>1, ExactKept DEF AllExact
<1>9. ASSUME NEW n \in Nodes, Discard(n) PROVE AllExact'
  <2>1. /\ UNCHANGED <<queue, runs, future, attempt>>
        /\ \A k \in Nodes : hand'[k] = hand[k] \/ hand'[k] = NoMsg
    BY <1>9 DEF Discard, Settle, TypeOK
  <2>2. PICK t \in Tasks : t = hand[n].task
    BY <1>9 DEF Discard, TypeOK, Steps, Message
  <2>3. \A u \in Tasks : taskdb'[u] = taskdb[u] \/ taskdb'[u] # "FAIL"
    BY <1>9, <2>2, NoFaults DEF Discard, TypeOK
  <2>4. \A u \in Tasks : /\ InQueue(u)' => InQueue(u)
                         /\ \A r \in 0..Retry :
                              QueuedWith(u, r)' => QueuedWith(u, r)
    BY <2>1 DEF InQueue, QueuedWith
  <2>5. \A u \in Tasks, k \in Nodes : hand'[k] = hand[k] \/ ~InHand(k, u)'
    BY <2>1 DEF InHand
  <2> QED
    BY <1>0, <2>1, <2>3, <2>4, <2>5, ExactKept DEF AllExact
<1>10. ASSUME NEW n \in Nodes, NEW t \in Tasks, Finish(n, t)
       PROVE  AllExact'
  <2>1. PICK o \in Done : SetFuture(n, t, o)
    BY <1>10, Consts DEF Finish
  <2>2. UNCHANGED <<taskdb, queue, hand, runs, attempt>> /\ future[n][t] = "working"
    BY <1>10 DEF Finish, storeVars
  <2>3. \A k \in Nodes, u \in Tasks :
          \/ future'[k][u] = future[k][u]
          \/ future[k][u] = "working" /\ future'[k][u] \in Done
    BY <2>1, <2>2 DEF SetFuture, TypeOK
  <2> QED
    BY <1>8, <2>2, <2>3
<1>11. ASSUME NEW n \in Nodes, NEW t \in Tasks
       PROVE  ~CollectRetryThrows(n, t)
  BY <1>0, NoFaults
    DEF CollectRetryThrows, PushThrows, RedisFails, StillSpoilt
<1>12. ASSUME NEW n \in Nodes, NEW t \in Tasks, CollectPending(n, t)
       PROVE  AllExact'
  <2>1. UNCHANGED <<queue, hand, runs, future, attempt>>
        /\ taskdb' = [taskdb EXCEPT ![t] = "RUNNING"]
    BY <1>12, NoFaults DEF CollectPending
  <2>2. \A u \in Tasks : taskdb'[u] = taskdb[u] \/ taskdb'[u] # "FAIL"
    BY <2>1 DEF TypeOK
  <2> QED
    BY <1>8, <2>1, <2>2
<1>13. ASSUME NEW n \in Nodes, SaveRetry(n) PROVE AllExact'
  <2>1. UNCHANGED <<queue, hand, runs, future, attempt>>
        /\ taskdb' = [taskdb EXCEPT ![saving[n]] = "ACTIVE"]
    BY <1>13, NoFaults DEF SaveRetry, Steps
  <2>2. \A u \in Tasks : taskdb'[u] = taskdb[u] \/ taskdb'[u] # "FAIL"
    BY <2>1 DEF TypeOK
  <2> QED
    BY <1>8, <2>1, <2>2
<1>14. ASSUME \/ \E n \in Nodes : \/ Begin(n) \/ CheckCapacity(n)
                                  \/ PollEmpty(n) \/ PollThrows(n)
                                  \/ LookUp(n)
              \/ \E p \in Projects, s \in Edits : UserEdit(p, s)
              \/ UNCHANGED vars
       PROVE  AllExact'
  <2>1. UNCHANGED <<taskdb, queue, hand, runs, future, attempt>>
    BY <1>14 DEF Begin, CheckCapacity, PollEmpty, PollThrows, LookUp, UserEdit,
      EditProject, vars, storeVars, nodeVars
  <2> QED
    BY <1>8, <2>1
<1>15. \A n \in Nodes : ~LookUpThrows(n) /\ ~Crash(n)
  BY NoFaults DEF LookUpThrows, Crash
<1> QED
  BY <1>1, <1>2, <1>3, <1>4, <1>5, <1>6, <1>7, <1>9, <1>10, <1>11, <1>12,
    <1>13, <1>14, <1>15 DEF Next, Execute, Collect

\* At first there is no copy, and no row says FAIL.
LEMMA ExactInit == Init => ExactInv
<1> SUFFICES ASSUME Init PROVE ExactInv
  OBVIOUS
<1>1. \A t \in Tasks : taskdb[t] = "INIT" /\ ~InQueue(t)
  <2>1. Len(queue) = 0
    BY DEF Init
  <2>2. \A t \in Tasks : ~InQueue(t)
    BY <2>1 DEF InQueue
  <2> QED
    BY <2>2 DEF Init
<1>2. \A n \in Nodes, t \in Tasks : ~InHand(n, t) /\ future[n][t] = "none"
  BY DEF Init, InitNodes, InHand
<1>3. \A t \in Tasks, r \in 0..Retry : ~QueuedWith(t, r)
  BY <1>1 DEF InQueue, QueuedWith
<1> QED
  BY <1>1, <1>2, <1>3 DEF ExactInv, AllExact, Exact, Done

\* Hence the counts are exact in every state.
LEMMA ExactAlways ==
  ASSUME MaxFaults = 0
  PROVE  Spec => [](TokenInv /\ ExactInv)
<1>1. TokenInv /\ TokenInv' /\ ExactInv /\ [Next]_vars => ExactInv'
  BY ExactStep
<1> QED
  BY <1>1, TokenInvInit, TokenInvStep, ExactInit, PTL DEF Spec

\* With any number of nodes and no failures: a task is reported FAIL only when
\* it has been run once and again for each retry, until the retry of a project
\* with a crontab spoils the connection of a node.
THEOREM ExhaustedFail ==
  ASSUME MaxFaults = 0
  PROVE  Spec => []FailMeansExhausted
<1>1. ExactInv => FailMeansExhausted
  BY DEF ExactInv, AllExact, Exact, FailMeansExhausted
<1> QED
  BY <1>1, ExactAlways, PTL

-----------------------------------------------------------------------------
(* What a row says about the copy of its task *)

\* Bodies end as Outcomes allows, and a row is saved late only after a retry.
LEMMA ReturnsStep ==
  ASSUME MaxFaults = 0, TypeInv, ReturnsInv, [Next]_vars
  PROVE  ReturnsInv'
<1> USE DEF TypeInv
<1>1. ASSUME NEW n \in Nodes, NEW t \in Tasks,
             \/ StartThread(n, t) \/ Finish(n, t)
             \/ CollectDone(n, t) \/ CollectRetryThrows(n, t)
             \/ CollectPending(n, t)
      PROVE  ReturnsInv'
  <2>1. \A k \in Nodes : Saving(k)' => Saving(k)
    BY <1>1 DEF StartThread, Finish, CollectDone, Visit, CollectRetryThrows,
      CollectPending, Saving, Goto, TypeOK, nodeVars
  <2>2. \A k \in Nodes, u \in Tasks :
          future'[k][u] \in Done =>
            future'[k][u] = future[k][u] \/ future'[k][u] \in Outcomes
    <3>1. CASE Finish(n, t)
      <4>1. PICK o \in Outcomes : SetFuture(n, t, o)
        BY <3>1 DEF Finish
      <4> QED
        BY <4>1 DEF SetFuture, TypeOK
    <3>2. CASE UNCHANGED future
      BY <3>2
    <3>3. CASE StartThread(n, t)
      BY <3>3 DEF StartThread, SetFuture, Done, TypeOK
    <3>4. CASE CollectDone(n, t)
      BY <3>4 DEF CollectDone, Forget, SetFuture, Done, TypeOK
    <3> QED
      BY <1>1, <3>1, <3>2, <3>3, <3>4 DEF CollectRetryThrows, CollectPending
  <2> QED
    BY <2>1, <2>2 DEF ReturnsInv
<1>2. ASSUME NEW n \in Nodes, NEW t \in Tasks, CollectRetry(n, t)
      PROVE  ReturnsInv'
  <2>1. "nonzero" \in Outcomes
    BY <1>2 DEF CollectRetry, ReturnsInv, Done
  <2>2. \A k \in Nodes, u \in Tasks :
          future'[k][u] \in Done => future'[k][u] = future[k][u]
    BY <1>2 DEF CollectRetry, Forget, SetFuture, Done, TypeOK
  <2> QED
    BY <2>1, <2>2 DEF ReturnsInv
<1>3. ASSUME NEW n \in Nodes, Submit(n) PROVE ReturnsInv'
  <2>1. \A k \in Nodes : Saving(k)' => Saving(k)
    BY <1>3 DEF Submit, Settle, Saving, Goto, TypeOK
  <2>2. \A k \in Nodes, u \in Tasks :
          future'[k][u] \in Done => future'[k][u] = future[k][u]
    BY <1>3 DEF Submit, SubmitTask, SetFuture, Done, TypeOK
  <2> QED
    BY <2>1, <2>2 DEF ReturnsInv
<1>4. ASSUME UNCHANGED future, \A k \in Nodes : Saving(k)' => Saving(k)
      PROVE  ReturnsInv'
  BY <1>4 DEF ReturnsInv
<1>5. ASSUME NEW n \in Nodes,
             \/ Begin(n) \/ SaveRetry(n) \/ CheckCapacity(n) \/ PollEmpty(n)
             \/ Poll(n) \/ PollThrows(n) \/ Requeue(n) \/ LookUp(n)
             \/ Discard(n)
      PROVE  ReturnsInv'
  <2>1. UNCHANGED future
    BY <1>5 DEF Begin, SaveRetry, CheckCapacity, PollEmpty, Poll, PollThrows,
      Requeue, LookUp, Discard
  <2>2. \A k \in Nodes : Saving(k)' => Saving(k)
    BY <1>5 DEF Begin, SaveRetry, CheckCapacity, PollEmpty, Poll, PollThrows,
      Requeue, LookUp, Discard, Settle, Saving, Goto, TypeOK
  <2> QED
    BY <2>1, <2>2, <1>4
<1>6. ASSUME \/ \E t \in Tasks : Release(t)
             \/ \E p \in Projects, s \in Edits : UserEdit(p, s)
             \/ UNCHANGED vars
      PROVE  ReturnsInv'
  <2>1. UNCHANGED <<future, pc>>
    BY <1>6 DEF Release, UserEdit, vars, nodeVars
  <2> QED
    BY <2>1, <1>4 DEF Saving
<1>7. \A n \in Nodes : ~LookUpThrows(n) /\ ~Crash(n)
  BY NoFaults DEF LookUpThrows, Crash
<1> QED
  BY <1>1, <1>2, <1>3, <1>5, <1>6, <1>7 DEF Next, Execute, Collect

\* While a row is still to be saved, its node is the only one.
LEMMA Alone ==
  ASSUME OneSaver, ReturnsInv, NEW n \in Nodes, NEW k \in Nodes, Saving(k)
  PROVE  k = n
BY DEF OneSaver, ReturnsInv

\* A task that neither its row nor its copies are changed.
LEMMA RowKept ==
  ASSUME NEW t \in Tasks, Row(t), taskdb'[t] = taskdb[t],
         InQueue(t)' <=> InQueue(t),
         \A n \in Nodes : /\ InHand(n, t)' => InHand(n, t)
                          /\ t \in FutureList(n)' => t \in FutureList(n)
                          /\ Late(n, t)' <=> Late(n, t)
  PROVE  Row(t)'
BY DEF Row

\* Nor does such a task lose its backing.
LEMMA BackedKept ==
  ASSUME NEW t \in Tasks, Backed(t), taskdb'[t] = taskdb[t],
         InQueue(t) => InQueue(t)',
         \A n \in Nodes : /\ InHand(n, t) => InHand(n, t)'
                          /\ t \in FutureList(n) => t \in FutureList(n)'
                          /\ saving[n] = t => saving'[n] = t
  PROVE  Backed(t)'
BY DEF Backed

\* A task that a node holds is nowhere else, and its row is not saved late.
LEMMA HeldAlone ==
  ASSUME TokenInv, RowsInv, NEW n \in Nodes, NEW t \in Tasks, Holds(n, t)
  PROVE  /\ ~InQueue(t)
         /\ \A k \in Nodes : ~Late(k, t) /\ saving[k] # t
         /\ \A k \in Nodes : k # n => ~InHand(k, t) /\ t \notin FutureList(k)
         /\ ~(InHand(n, t) /\ t \in FutureList(n))
<1>1. /\ ~InQueue(t)
      /\ \A k \in Nodes : k # n => ~Holds(k, t)
      /\ ~(InHand(n, t) /\ t \in FutureList(n))
  BY DEF TokenInv, CopyInv, SingleCopy, Exclusive
<1>2. \A k \in Nodes : ~Late(k, t)
  BY <1>1 DEF RowsInv, Row
<1>3. \A k \in Nodes : saving[k] # t
  BY <1>2, Consts DEF RowsInv, SavingInv, Late
<1> QED
  BY <1>1, <1>2, <1>3 DEF Holds

\* What every step of these lemmas assumes and shows.
Calm == MaxFaults = 0 /\ OneSaver
RowsHyp == TokenInv /\ TokenInv' /\ RowsInv /\ ReturnsInv

\* A node that is not about to save a row late: no node is.
LEMMA NobodyLate ==
  ASSUME OneSaver, RowsHyp, NEW n \in Nodes, ~Saving(n)
  PROVE  \A k \in Nodes : ~Saving(k)
BY Alone DEF RowsHyp

\* Steps that leave rows, queue, hands and the list of futures as they are.
LEMMA RowsSame ==
  ASSUME RowsInv, UNCHANGED <<taskdb, queue, hand, saving>>,
         \A k \in Nodes : Saving(k)' <=> Saving(k),
         \A k \in Nodes, u \in Tasks :
           future'[k][u] = "none" <=> future[k][u] = "none"
  PROVE  RowsInv'
<1>1. \A u \in Tasks :
        /\ InQueue(u)' <=> InQueue(u)
        /\ \A k \in Nodes : /\ InHand(k, u)' <=> InHand(k, u)
                            /\ u \in FutureList(k)' <=> u \in FutureList(k)
                            /\ Late(k, u)' <=> Late(k, u)
  BY DEF InQueue, InHand, FutureList, Late
<1>2. \A u \in Tasks : Row(u)'
  BY <1>1, RowKept DEF RowsInv
<1>3. "throws" \notin Outcomes => \A u \in Tasks : Backed(u)'
  BY <1>1, BackedKept DEF RowsInv
<1>4. SavingInv'
  BY DEF RowsInv, SavingInv
<1> QED
  BY <1>2, <1>3, <1>4 DEF RowsInv

\* A step that takes one task from a node and leaves the others alone.
LEMMA RowsButOne ==
  ASSUME RowsInv, SavingInv', NEW t \in Tasks, Row(t)',
         "throws" \notin Outcomes => Backed(t)',
         \A u \in Tasks : u # t =>
           /\ taskdb'[u] = taskdb[u]
           /\ InQueue(u)' <=> InQueue(u)
           /\ \A k \in Nodes : /\ InHand(k, u)' <=> InHand(k, u)
                               /\ u \in FutureList(k)' <=> u \in FutureList(k)
                               /\ Late(k, u)' <=> Late(k, u)
                               /\ saving[k] = u => saving'[k] = u
  PROVE  RowsInv'
<1>1. ASSUME NEW u \in Tasks, u # t PROVE Row(u)'
  BY <1>1, RowKept DEF RowsInv
<1>2. ASSUME NEW u \in Tasks, u # t, "throws" \notin Outcomes PROVE Backed(u)'
  BY <1>2, BackedKept DEF RowsInv
<1> QED
  BY <1>1, <1>2 DEF RowsInv

\* A settled task is gone, its row is final.
LEMMA RowsCollectDone ==
  ASSUME Calm, RowsHyp, NEW n \in Nodes, NEW t \in Tasks, CollectDone(n, t)
  PROVE  RowsInv'
<1> USE DEF RowsHyp, TokenInv, TypeInv, Calm
<1>1. /\ UNCHANGED <<queue, hand, saving, pc>>
      /\ t \in FutureList(n) /\ future'[n][t] = "none"
      /\ future[n][t] \in {"zero", "nonzero", "throws"}
      /\ \A m \in Nodes, u \in Tasks :
           m # n \/ u # t => future'[m][u] = future[m][u]
      /\ taskdb' = [taskdb EXCEPT ![t] = FinalStatus(n, t)]
  BY NoFaults DEF CollectDone, Forget, SetFuture, FutureList, TypeOK
<1>2. \A u \in Tasks :
        /\ InQueue(u)' <=> InQueue(u)
        /\ \A k \in Nodes :
             /\ InHand(k, u)' <=> InHand(k, u)
             /\ u # t => (u \in FutureList(k)' <=> u \in FutureList(k))
             /\ Late(k, u)' <=> Late(k, u)
  BY <1>1 DEF InQueue, InHand, Late, Saving, FutureList
<1>3. Holds(n, t)
  BY <1>1 DEF Holds
<1>4. ~InQueue(t) /\ \A k \in Nodes : ~Late(k, t) /\ ~InHand(k, t)
  BY <1>1, <1>3, HeldAlone DEF Holds
<1>5. \A k \in Nodes : t \notin FutureList(k)'
  BY <1>1, <1>3, HeldAlone DEF FutureList
<1>6. Row(t)'
  BY <1>2, <1>4, <1>5 DEF Row
<1>7. "throws" \notin Outcomes => Backed(t)'
  <2>1. "throws" \notin Outcomes => future[n][t] \in {"zero", "nonzero"}
    BY <1>1 DEF ReturnsInv, Done
  <2>2. "throws" \notin Outcomes => FinalStatus(n, t) \in {"SUCCESS", "FAIL"}
    BY <2>1 DEF FinalStatus
  <2> QED
    BY <1>1, <2>2 DEF Backed, TypeOK
<1>8. SavingInv'
  BY <1>1 DEF RowsInv, SavingInv, Saving
<1>9. \A u \in Tasks : u # t => taskdb'[u] = taskdb[u]
  BY <1>1 DEF TypeOK
<1> QED
  BY <1>1, <1>2, <1>6, <1>7, <1>8, <1>9, RowsButOne

\* The message of a retry is out, the row still says RUNNING.
LEMMA RowsCollectRetry ==
  ASSUME Calm, RowsHyp, NEW n \in Nodes, NEW t \in Tasks, CollectRetry(n, t)
  PROVE  RowsInv'
<1> USE DEF RowsHyp, TokenInv, TypeInv, Calm
<1> DEFINE m == [task |-> t, retry |-> attempt[n][t] + 1]
<1>1. /\ UNCHANGED <<taskdb, hand>> /\ Push(m)
      /\ t \in FutureList(n) /\ future'[n][t] = "none"
      /\ \A k \in Nodes, u \in Tasks :
           k # n \/ u # t => future'[k][u] = future[k][u]
      /\ pc[n] = "collect"
      /\ \A k \in Nodes : pc'[k] = IF k = n THEN "saveRetry" ELSE pc[k]
      /\ \A k \in Nodes : saving'[k] = IF k = n THEN t ELSE saving[k]
  BY DEF CollectRetry, Visit, Goto, Forget, SetFuture, FutureList, TypeOK
<1>2. m \in Message /\ m.task = t
  BY Consts DEF CollectRetry, RetriesLeft, Message, TypeOK
<1> HIDE DEF m
<1>3. \A u \in Tasks : InQueue(u)' <=> InQueue(u) \/ u = t
  BY <1>1, <1>2, PushedOnly
<1>4. Saving(n)' /\ ~Saving(n) /\ saving[n] = NoTask
      /\ \A k \in Nodes : k # n => (Saving(k)' <=> Saving(k))
  BY <1>1 DEF Saving, RowsInv, SavingInv
<1>5. \A u \in Tasks, k \in Nodes :
        /\ InHand(k, u)' <=> InHand(k, u)
        /\ u # t => (u \in FutureList(k)' <=> u \in FutureList(k))
        /\ u # t => (Late(k, u)' <=> Late(k, u))
        /\ saving[k] = u => saving'[k] = u
  BY <1>1, <1>4, Consts DEF InHand, FutureList, Late
<1>6. taskdb'[t] = "RUNNING"
  BY <1>1 DEF RowsInv, Row
<1>7. \A k \in Nodes : ~InHand(k, t)'
  BY <1>1, <1>3 DEF CopyInv, SingleCopy, Exclusive, Holds
<1>8. Row(t)'
  BY <1>1, <1>3, <1>4, <1>6, <1>7 DEF Row, Late
<1>9. Backed(t)'
  BY <1>1, <1>6 DEF Backed
<1>10. SavingInv'
  BY <1>1, <1>4, Consts DEF RowsInv, SavingInv
<1> QED
  BY <1>1, <1>3, <1>5, <1>8, <1>9, <1>10, RowsButOne

\* The late save makes the row ACTIVE, as the message in the queue asks.
LEMMA RowsSaveRetry ==
  ASSUME Calm, RowsHyp, NEW n \in Nodes, SaveRetry(n)
  PROVE  RowsInv'
<1> USE DEF RowsHyp, TokenInv, TypeInv, Calm
<1>1. PICK t \in Tasks : t = saving[n]
  BY DEF SaveRetry, Steps
<1>2. /\ UNCHANGED <<queue, hand, future>> /\ Saving(n) /\ saving[n] = t
      /\ \A k \in Nodes : pc'[k] = IF k = n THEN "collect" ELSE pc[k]
      /\ \A k \in Nodes : saving'[k] = IF k = n THEN NoTask ELSE saving[k]
      /\ taskdb' = [taskdb EXCEPT ![t] = "ACTIVE"]
  BY <1>1, NoFaults DEF SaveRetry, Saving, Goto, TypeOK
<1>3. ~Saving(n)' /\ \A k \in Nodes : k # n => (Saving(k)' <=> Saving(k))
  BY <1>2 DEF Saving
<1>4. \A u \in Tasks :
        /\ InQueue(u)' <=> InQueue(u)
        /\ \A k \in Nodes :
             /\ InHand(k, u)' <=> InHand(k, u)
             /\ u \in FutureList(k)' <=> u \in FutureList(k)
             /\ u # t => (Late(k, u)' <=> Late(k, u))
             /\ u # t => (saving[k] = u => saving'[k] = u)
  BY <1>2, <1>3 DEF InQueue, InHand, FutureList, Late
<1>5. InQueue(t)
  BY <1>2 DEF RowsInv, Row, Late
<1>6. taskdb'[t] = "ACTIVE" /\ \A u \in Tasks : u # t => taskdb'[u] = taskdb[u]
  BY <1>2 DEF TypeOK
<1>7. \A k \in Nodes : t \notin FutureList(k)
  BY <1>5 DEF CopyInv, SingleCopy, Exclusive, Holds
<1>8. \A k \in Nodes : ~Saving(k)'
  BY <1>2, <1>3, Alone
<1>9. Row(t)'
  BY <1>4, <1>6, <1>7, <1>8 DEF Row, Late
<1>10. Backed(t)'
  BY <1>4, <1>5, <1>6 DEF Backed
<1>11. SavingInv'
  BY <1>2, <1>3 DEF RowsInv, SavingInv
<1> QED
  BY <1>4, <1>6, <1>9, <1>10, <1>11, RowsButOne

\* The message popped belongs to an ACTIVE row.
LEMMA RowsPoll ==
  ASSUME Calm, RowsHyp, NEW n \in Nodes, Poll(n)
  PROVE  RowsInv'
<1> USE DEF RowsHyp, TokenInv, TypeInv, Calm
<1>1. /\ Head(queue) \in Message
      /\ QueuedWith(Head(queue).task, Head(queue).retry)
  BY Popped
<1>2. PICK h \in Message : h = Head(queue)
  BY <1>1
<1>3. PICK t \in Tasks : t = h.task
  BY DEF Message
<1>4. /\ UNCHANGED <<taskdb, future, saving>>
      /\ pc[n] = "poll"
      /\ \A k \in Nodes : pc'[k] = IF k = n THEN "popped" ELSE pc[k]
      /\ \A k \in Nodes : hand'[k] = IF k = n THEN h ELSE hand[k]
      /\ hand[n] = NoMsg
  BY <1>2 DEF Poll, Goto, TypeOK, Steps
<1>5. InQueue(t)
  BY <1>1, <1>2, <1>3 DEF QueuedWith, InQueue
<1>6. /\ \A k \in Nodes : Saving(k)' <=> Saving(k)
      /\ \A k \in Nodes : ~Saving(k)
  <2>1. ~Saving(n)
    BY <1>4 DEF Saving
  <2>2. \A k \in Nodes : ~Saving(k)
    BY <2>1, NobodyLate
  <2> QED
    BY <1>4, <2>2 DEF Saving
<1>7. \A u \in Tasks : u # t =>
        /\ InQueue(u)' <=> InQueue(u)
        /\ \A k \in Nodes : InHand(k, u)' <=> InHand(k, u)
  BY <1>2, <1>3, <1>4, PoppedOnly DEF InHand
<1>8. \A u \in Tasks, k \in Nodes :
        /\ u \in FutureList(k)' <=> u \in FutureList(k)
        /\ Late(k, u)' <=> Late(k, u)
  BY <1>4, <1>6 DEF FutureList, Late
<1>9. taskdb[t] = "ACTIVE"
  BY <1>5, <1>6 DEF RowsInv, Row, Late
<1>10. \A k \in Nodes : t \notin FutureList(k)
  BY <1>5 DEF CopyInv, SingleCopy, Exclusive, Holds
<1>11. Row(t)'
  BY <1>4, <1>6, <1>8, <1>9, <1>10 DEF Row, Late
<1>12. InHand(n, t)'
  BY <1>3, <1>4, Consts DEF InHand
<1>13. Backed(t)'
  BY <1>4, <1>9, <1>12 DEF Backed
<1>14. SavingInv'
  BY <1>4, <1>6 DEF RowsInv, SavingInv
<1> QED
  BY <1>4, <1>7, <1>8, <1>11, <1>13, <1>14, RowsButOne

\* The message goes back to the tail; its row is and stays ACTIVE.
LEMMA RowsRequeue ==
  ASSUME Calm, RowsHyp, NEW n \in Nodes, Requeue(n)
  PROVE  RowsInv'
<1> USE DEF RowsHyp, TokenInv, TypeInv, Calm
<1>1. PICK m \in Message : m = hand[n] /\ hand[n] # NoMsg
  BY DEF Requeue, TypeOK, Steps
<1>2. PICK t \in Tasks : t = m.task
  BY DEF Message
<1>3. /\ Push(m) /\ UNCHANGED <<taskdb, future, saving>>
      /\ pc[n] = "popped"
      /\ \A k \in Nodes : pc'[k] = IF k = n THEN "idle" ELSE pc[k]
      /\ \A k \in Nodes : hand'[k] = IF k = n THEN NoMsg ELSE hand[k]
  BY <1>1, NoFaults DEF Requeue, PutBack, RedisFails, Goto, TypeOK
<1>4. InHand(n, t) /\ Holds(n, t)
  BY <1>1, <1>2 DEF InHand, Holds
<1>5. \A u \in Tasks : InQueue(u)' <=> InQueue(u) \/ u = t
  BY <1>2, <1>3, PushedOnly
<1>6. \A k \in Nodes : Saving(k)' <=> Saving(k)
  BY <1>3 DEF Saving
<1>7. \A u \in Tasks, k \in Nodes :
        /\ u # t => (InHand(k, u)' <=> InHand(k, u))
        /\ u \in FutureList(k)' <=> u \in FutureList(k)
        /\ Late(k, u)' <=> Late(k, u)
  BY <1>1, <1>2, <1>3, <1>6 DEF InHand, FutureList, Late
<1>8. taskdb[t] = "ACTIVE"
  BY <1>4 DEF RowsInv, Row
<1>9. \A k \in Nodes : t \notin FutureList(k) /\ ~Late(k, t)
  BY <1>4, HeldAlone
<1>10. Row(t)'
  BY <1>3, <1>7, <1>8, <1>9 DEF Row
<1>11. Backed(t)'
  BY <1>3, <1>5, <1>8 DEF Backed
<1>12. SavingInv'
  BY <1>3, <1>6 DEF RowsInv, SavingInv
<1> QED
  BY <1>3, <1>5, <1>7, <1>10, <1>11, <1>12, RowsButOne

\* The row says RUNNING and the task has a future.
LEMMA RowsSubmit ==
  ASSUME Calm, RowsHyp, NEW n \in Nodes, Submit(n)
  PROVE  RowsInv'
<1> USE DEF RowsHyp, TokenInv, TypeInv, Calm
<1>1. PICK m \in Message : m = hand[n] /\ hand[n] # NoMsg
  BY DEF Submit, TypeOK, Steps
<1>2. PICK t \in Tasks : t = m.task
  BY DEF Message
<1>3. /\ UNCHANGED <<queue, saving>>
      /\ taskdb' = [taskdb EXCEPT ![t] = "RUNNING"]
      /\ pc[n] = "decided"
      /\ \A k \in Nodes : pc'[k] = IF k = n THEN "idle" ELSE pc[k]
      /\ \A k \in Nodes : hand'[k] = IF k = n THEN NoMsg ELSE hand[k]
      /\ future'[n][t] = "submitted"
      /\ \A k \in Nodes, u \in Tasks :
           k # n \/ u # t => future'[k][u] = future[k][u]
  <2>1. taskdb' = [taskdb EXCEPT ![t] = "RUNNING"]
    BY <1>1, <1>2, NoFaults DEF Submit
  <2> QED
    BY <1>1, <1>2, <2>1 DEF Submit, SubmitTask, SetFuture, Settle, Goto, TypeOK
<1>4. InHand(n, t) /\ Holds(n, t)
  BY <1>1, <1>2 DEF InHand, Holds
<1>5. \A k \in Nodes : Saving(k)' <=> Saving(k)
  BY <1>3 DEF Saving
<1>6. \A u \in Tasks :
        /\ InQueue(u)' <=> InQueue(u)
        /\ \A k \in Nodes :
             /\ u # t => (InHand(k, u)' <=> InHand(k, u))
             /\ u # t => (u \in FutureList(k)' <=> u \in FutureList(k))
             /\ Late(k, u)' <=> Late(k, u)
  BY <1>1, <1>2, <1>3, <1>5 DEF InQueue, InHand, FutureList, Late
<1>7. ~InQueue(t) /\ \A k \in Nodes : ~Late(k, t) /\ (k # n => ~InHand(k, t))
  BY <1>4, HeldAlone
<1>8. \A k \in Nodes : ~InHand(k, t)'
  BY <1>3, <1>7 DEF InHand
<1>9. taskdb'[t] = "RUNNING" /\ \A u \in Tasks : u # t => taskdb'[u] = taskdb[u]
  BY <1>3 DEF TypeOK
<1>10. Row(t)'
  BY <1>6, <1>7, <1>8, <1>9 DEF Row
<1>11. Backed(t)'
  BY <1>3, <1>9 DEF Backed, FutureList
<1>12. SavingInv'
  BY <1>3, <1>5 DEF RowsInv, SavingInv
<1> QED
  BY <1>3, <1>6, <1>9, <1>10, <1>11, <1>12, RowsButOne

\* The task of a stopped project is settled without a run.
LEMMA RowsDiscard ==
  ASSUME Calm, RowsHyp, NEW n \in Nodes, Discard(n)
  PROVE  RowsInv'
<1> USE DEF RowsHyp, TokenInv, TypeInv, Calm
<1>1. PICK m \in Message : m = hand[n] /\ hand[n] # NoMsg
  BY DEF Discard, TypeOK, Steps
<1>2. PICK t \in Tasks : t = m.task
  BY DEF Message
<1>3. PICK s \in {"STOP", "DELETE"} : taskdb' = [taskdb EXCEPT ![t] = s]
  BY <1>1, <1>2, NoFaults DEF Discard
<1>4. /\ UNCHANGED <<queue, saving, future>>
      /\ pc[n] = "decided"
      /\ \A k \in Nodes : pc'[k] = IF k = n THEN "idle" ELSE pc[k]
      /\ \A k \in Nodes : hand'[k] = IF k = n THEN NoMsg ELSE hand[k]
  BY DEF Discard, Settle, Goto, TypeOK
<1>5. InHand(n, t) /\ Holds(n, t)
  BY <1>1, <1>2 DEF InHand, Holds
<1>6. \A k \in Nodes : Saving(k)' <=> Saving(k)
  BY <1>4 DEF Saving
<1>7. \A u \in Tasks :
        /\ InQueue(u)' <=> InQueue(u)
        /\ \A k \in Nodes :
             /\ u # t => (InHand(k, u)' <=> InHand(k, u))
             /\ u \in FutureList(k)' <=> u \in FutureList(k)
             /\ Late(k, u)' <=> Late(k, u)
  BY <1>1, <1>2, <1>4, <1>6 DEF InQueue, InHand, FutureList, Late
<1>8. /\ ~InQueue(t)
      /\ \A k \in Nodes : /\ ~Late(k, t) /\ t \notin FutureList(k)
                          /\ k # n => ~InHand(k, t)
  BY <1>5, HeldAlone
<1>9. \A k \in Nodes : ~InHand(k, t)'
  BY <1>4, <1>8 DEF InHand
<1>10. taskdb'[t] = s /\ \A u \in Tasks : u # t => taskdb'[u] = taskdb[u]
  BY <1>3 DEF TypeOK
<1>11. Row(t)'
  BY <1>7, <1>8, <1>9 DEF Row
<1>12. Backed(t)'
  BY <1>10 DEF Backed
<1>13. SavingInv'
  BY <1>4, <1>6 DEF RowsInv, SavingInv
<1> QED
  BY <1>4, <1>7, <1>10, <1>11, <1>12, <1>13, RowsButOne

\* TaskTrigger saves the row and pushes the task.
LEMMA RowsRelease ==
  ASSUME Calm, RowsHyp, NEW t \in Tasks, Release(t)
  PROVE  RowsInv'
<1> USE DEF RowsHyp, TokenInv, TypeInv, Calm
<1> DEFINE m == [task |-> t, retry |-> 0]
<1>1. m \in Message /\ m.task = t
  BY Consts DEF Message
<1>2. /\ Push(m) /\ UNCHANGED <<hand, future, saving, pc>>
      /\ taskdb[t] = "INIT"
      /\ taskdb'[t] = "ACTIVE"
      /\ \A u \in Tasks : u # t => taskdb'[u] = taskdb[u]
  BY DEF Release, nodeVars, TypeOK
<1> HIDE DEF m
<1>3. \A u \in Tasks : InQueue(u)' <=> InQueue(u) \/ u = t
  BY <1>1, <1>2, PushedOnly
<1>4. \A u \in Tasks, k \in Nodes :
        /\ InHand(k, u)' <=> InHand(k, u)
        /\ u \in FutureList(k)' <=> u \in FutureList(k)
        /\ Late(k, u)' <=> Late(k, u)
  BY <1>2 DEF InHand, FutureList, Late, Saving
<1>5. \A k \in Nodes : ~InHand(k, t) /\ t \notin FutureList(k) /\ ~Late(k, t)
  BY <1>2 DEF CopyInv, Unreleased, Holds, RowsInv, Row
<1>6. Row(t)'
  BY <1>2, <1>4, <1>5 DEF Row
<1>7. Backed(t)'
  BY <1>2, <1>3 DEF Backed
<1>8. SavingInv'
  BY <1>2 DEF RowsInv, SavingInv, Saving
<1> QED
  BY <1>2, <1>3, <1>4, <1>6, <1>7, <1>8, RowsButOne

\* Every step keeps rows and copies together.
LEMMA RowsStep ==
  ASSUME Calm, RowsHyp, [Next]_vars
  PROVE  RowsInv'
<1> USE DEF RowsHyp, TokenInv, TypeInv, Calm
<1>1. ASSUME NEW n \in Nodes, NEW t \in Tasks,
             \/ StartThread(n, t) \/ CollectRetryThrows(n, t)
             \/ CollectPending(n, t)
      PROVE  RowsInv'
  <2>1. UNCHANGED <<taskdb, queue, hand, saving>>
    <3>1. CASE CollectPending(n, t)
      <4>1. taskdb[t] = "RUNNING" /\ taskdb' = [taskdb EXCEPT ![t] = "RUNNING"]
        BY <3>1, NoFaults DEF CollectPending, RowsInv, Row, FutureList
      <4> QED
        BY <3>1, <4>1 DEF CollectPending, TypeOK
    <3> QED
      BY <1>1, <3>1 DEF StartThread, CollectRetryThrows, storeVars
  <2>2. \A k \in Nodes : Saving(k)' <=> Saving(k)
    BY <1>1 DEF StartThread, CollectRetryThrows, CollectPending, Visit,
      Saving, Goto, TypeOK
  <2>3. \A k \in Nodes, u \in Tasks :
          future'[k][u] = "none" <=> future[k][u] = "none"
    <3>1. CASE StartThread(n, t)
      BY <3>1 DEF StartThread, SetFuture, TypeOK
    <3>2. CASE UNCHANGED future
      BY <3>2
    <3> QED
      BY <1>1, <3>1, <3>2 DEF CollectRetryThrows, CollectPending
  <2> QED
    BY <2>1, <2>2, <2>3, RowsSame
<1>2. ASSUME NEW n \in Nodes, NEW t \in Tasks, Finish(n, t)
      PROVE  RowsInv'
  <2>1. PICK o \in Done : SetFuture(n, t, o)
    BY <1>2, Consts DEF Finish
  <2>2. UNCHANGED <<taskdb, queue, hand, saving, pc>> /\ future[n][t] = "working"
    BY <1>2 DEF Finish, storeVars
  <2>3. \A k \in Nodes, u \in Tasks :
          future'[k][u] = "none" <=> future[k][u] = "none"
    BY <2>1, <2>2 DEF SetFuture, Done, TypeOK
  <2> QED
    BY <2>2, <2>3, RowsSame DEF Saving
<1>3. ASSUME \/ \E n \in Nodes : \/ Begin(n) \/ CheckCapacity(n)
                                 \/ PollEmpty(n) \/ PollThrows(n) \/ LookUp(n)
             \/ \E p \in Projects, s \in Edits : UserEdit(p, s)
             \/ UNCHANGED vars
      PROVE  RowsInv'
  <2>1. UNCHANGED <<taskdb, queue, hand, saving, future>>
    BY <1>3 DEF Begin, CheckCapacity, PollEmpty, PollThrows, LookUp, UserEdit,
      EditProject, vars, storeVars, nodeVars
  <2>2. \A k \in Nodes : Saving(k)' <=> Saving(k)
    BY <1>3 DEF Begin, CheckCapacity, PollEmpty, PollThrows, LookUp, UserEdit,
      vars, nodeVars, Saving, Goto, TypeOK
  <2> QED
    BY <2>1, <2>2, RowsSame
<1>4. ASSUME NEW n \in Nodes, NEW t \in Tasks,
             CollectDone(n, t) \/ CollectRetry(n, t)
      PROVE  RowsInv'
  BY <1>4, RowsCollectDone, RowsCollectRetry
<1>5. ASSUME NEW n \in Nodes,
             \/ SaveRetry(n) \/ Poll(n) \/ Requeue(n) \/ Submit(n) \/ Discard(n)
      PROVE  RowsInv'
  BY <1>5, RowsSaveRetry, RowsPoll, RowsRequeue, RowsSubmit, RowsDiscard
<1>6. ASSUME NEW t \in Tasks, Release(t) PROVE RowsInv'
  BY <1>6, RowsRelease
<1>7. \A n \in Nodes : ~LookUpThrows(n) /\ ~Crash(n)
  BY NoFaults DEF LookUpThrows, Crash
<1> QED
  BY <1>1, <1>2, <1>3, <1>4, <1>5, <1>6, <1>7 DEF Next, Execute, Collect

\* At first every row says INIT and no node has anything to save.
LEMMA RowsInit == Init => RowsInv /\ ReturnsInv
<1> SUFFICES ASSUME Init PROVE RowsInv /\ ReturnsInv
  OBVIOUS
<1>1. \A t \in Tasks : taskdb[t] = "INIT" /\ ~InQueue(t)
  <2>1. Len(queue) = 0
    BY DEF Init
  <2>2. \A t \in Tasks : ~InQueue(t)
    BY <2>1 DEF InQueue
  <2> QED
    BY <2>2 DEF Init
<1>2. /\ \A n \in Nodes : ~Saving(n) /\ saving[n] = NoTask
      /\ \A n \in Nodes, t \in Tasks : ~InHand(n, t) /\ future[n][t] = "none"
  BY DEF Init, InitNodes, InHand, Saving
<1>3. RowsInv
  BY <1>1, <1>2 DEF RowsInv, SavingInv, Row, Backed, Late, FutureList
<1>4. ReturnsInv
  BY <1>2 DEF ReturnsInv, Done
<1> QED
  BY <1>3, <1>4

\* The invariant of the runs without failures.
LEMMA RowsAlways ==
  ASSUME Calm
  PROVE  Spec => [](TokenInv /\ RowsInv /\ ReturnsInv)
<1>1. TokenInv /\ TokenInv' /\ RowsInv /\ ReturnsInv /\ [Next]_vars => RowsInv'
  BY RowsStep DEF RowsHyp
<1>2. TokenInv /\ ReturnsInv /\ [Next]_vars => ReturnsInv'
  BY ReturnsStep DEF TokenInv, Calm
<1> QED
  BY <1>1, <1>2, TokenInvInit, TokenInvStep, RowsInit, PTL DEF Spec

\* A task whose row is still to be saved after a retry has run.
RanInv ==
  spoilt = {} => \A n \in Nodes, t \in Tasks : Late(n, t) => runs[t] # 0

\* Only a retry leaves such a row, after a run.
LEMMA RanStep ==
  ASSUME MaxFaults = 0, TokenInv, ExactInv, RanInv, [Next]_vars
  PROVE  RanInv'
<1> SUFFICES ASSUME spoilt' = {} PROVE RanInv'
  BY DEF RanInv
<1> USE DEF TokenInv, TypeInv
<1>0. spoilt = {}
  BY SpoiltStays
<1>1. ASSUME \A u \in Tasks : runs'[u] = runs[u] \/ runs'[u] # 0,
             \A k \in Nodes : Saving(k)' => Saving(k) /\ saving'[k] = saving[k]
      PROVE  RanInv'
  BY <1>0, <1>1 DEF RanInv, Late
<1>2. ASSUME NEW n \in Nodes, NEW t \in Tasks, CollectRetry(n, t)
      PROVE  RanInv'
  <2>1. runs[t] # 0
    <3>1. future[n][t] = "nonzero" /\ attempt[n][t] \in Nat
      BY <1>2 DEF CollectRetry, TypeOK
    <3>2. runs[t] = attempt[n][t] + 1
      BY <1>0, <3>1 DEF ExactInv, AllExact, Exact, Done
    <3> QED
      BY <3>1, <3>2
  <2>2. /\ UNCHANGED runs /\ saving'[n] = t
        /\ \A k \in Nodes : k # n => saving'[k] = saving[k] /\ pc'[k] = pc[k]
    BY <1>2 DEF CollectRetry, Goto, TypeOK
  <2> QED
    BY <1>0, <2>1, <2>2 DEF RanInv, Late, Saving
<1>3. ASSUME NEW n \in Nodes, NEW t \in Tasks, StartThread(n, t)
      PROVE  RanInv'
  <2>1. /\ UNCHANGED <<pc, saving>>
        /\ \A u \in Tasks : runs'[u] = runs[u] \/ runs'[u] # 0
    BY <1>3 DEF StartThread, TypeOK
  <2> QED
    BY <1>1, <2>1 DEF Saving
<1>4. ASSUME \/ \E n \in Nodes, t \in Tasks :
                  \/ Finish(n, t) \/ CollectDone(n, t)
                  \/ CollectRetryThrows(n, t) \/ CollectPending(n, t)
             \/ \E n \in Nodes :
                  \/ Begin(n) \/ SaveRetry(n) \/ CheckCapacity(n)
                  \/ PollEmpty(n) \/ Poll(n) \/ PollThrows(n) \/ Requeue(n)
                  \/ LookUp(n) \/ Submit(n) \/ Discard(n)
             \/ \E t \in Tasks : Release(t)
             \/ \E p \in Projects, s \in Edits : UserEdit(p, s)
             \/ UNCHANGED vars
      PROVE  RanInv'
  <2>1. UNCHANGED runs
    BY <1>4 DEF Finish, CollectDone, CollectRetryThrows, CollectPending, Begin,
      SaveRetry, CheckCapacity, PollEmpty, Poll, PollThrows, Requeue, LookUp,
      Submit, Discard, Release, UserEdit, vars
  <2>2. \A k \in Nodes : Saving(k)' => Saving(k) /\ saving'[k] = saving[k]
    <3> USE DEF Saving, Goto, TypeOK
    <3>1. CASE \E n \in Nodes, t \in Tasks :
                 Finish(n, t) \/ CollectDone(n, t) \/ CollectRetryThrows(n, t)
      BY <3>1 DEF Finish, CollectDone, CollectRetryThrows, Visit
    <3>2. CASE \E n \in Nodes, t \in Tasks : CollectPending(n, t)
      BY <3>2 DEF CollectPending, Visit
    <3>3. CASE \E n \in Nodes :
                 Begin(n) \/ SaveRetry(n) \/ CheckCapacity(n) \/ PollEmpty(n)
      BY <3>3 DEF Begin, SaveRetry, CheckCapacity, PollEmpty
    <3>4. CASE \E n \in Nodes :
                 \/ Poll(n) \/ PollThrows(n) \/ Requeue(n) \/ LookUp(n)
                 \/ Submit(n) \/ Discard(n)
      BY <3>4 DEF Poll, PollThrows, Requeue, LookUp, Submit, Discard, Settle
    <3>5. CASE \/ \E t \in Tasks : Release(t)
               \/ \E p \in Projects, s \in Edits : UserEdit(p, s)
               \/ UNCHANGED vars
      BY <3>5 DEF Release, UserEdit, vars, nodeVars
    <3> QED
      BY <1>4, <3>1, <3>2, <3>3, <3>4, <3>5
  <2> QED
    BY <1>1, <2>1, <2>2
<1>5. \A n \in Nodes : ~LookUpThrows(n) /\ ~Crash(n)
  BY NoFaults DEF LookUpThrows, Crash
<1> QED
  BY <1>2, <1>3, <1>4, <1>5 DEF Next, Execute, Collect

\* Without failures and projects with a crontab every connection is fine.
NoneSpoilt == CronProjects = {} => spoilt = {}

\* What takes part in the proofs of modules that build on this one.
LEMMA CalmAlways ==
  ASSUME Calm
  PROVE  Spec => [](TokenInv /\ RowsInv /\ ExactInv /\ RanInv /\ NoneSpoilt)
<1>1. TokenInv /\ ExactInv /\ RanInv /\ [Next]_vars => RanInv'
  BY RanStep DEF Calm
<1>2. Init => RanInv
  BY DEF Init, InitNodes, RanInv, Late, Saving
<1>3. Spec => [](TokenInv /\ ExactInv)
  BY ExactAlways DEF Calm
<1>4. Init => NoneSpoilt
  BY DEF Init, InitNodes, NoneSpoilt
<1>5. TokenInv /\ NoneSpoilt /\ [Next]_vars => NoneSpoilt'
  <2> SUFFICES ASSUME TokenInv, NoneSpoilt, [Next]_vars, CronProjects = {}
               PROVE  spoilt' = {}
    BY DEF NoneSpoilt
  <2>1. spoilt = {} /\ \A t \in Tasks : Serializable(t)
    BY DEF NoneSpoilt, Serializable
  <2> QED
    BY <2>1, SpoiltStep DEF Calm, TokenInv, TypeInv
<1> QED
  BY <1>1, <1>2, <1>3, <1>4, <1>5, RowsAlways, PTL DEF Spec

\* What the row of a task says when a node saves it, and how often its body has
\* run by then.
LEMMA RowSaved ==
  ASSUME MaxFaults = 0, TokenInv, RowsInv, ExactInv, RanInv, NEW n \in Nodes
  PROVE  /\ \A t \in Tasks :
              /\ CollectPending(n, t) => taskdb[t] = "RUNNING"
              /\ CollectDone(n, t) =>
                   /\ taskdb[t] = "RUNNING"
                   /\ spoilt = {} =>
                        /\ runs[t] # 0
                        /\ FinalStatus(n, t) = "FAIL" => runs[t] = Retry + 1
              /\ StartThread(n, t) =>
                   /\ taskdb[t] = "RUNNING"
                   /\ spoilt = {} => runs[t] <= Retry
         /\ SaveRetry(n) =>
              /\ taskdb[saving[n]] = "RUNNING"
              /\ spoilt = {} =>
                   runs[saving[n]] \in 1..Retry
         /\ Submit(n) \/ Discard(n) => taskdb[hand[n].task] = "ACTIVE"
<1> USE DEF TokenInv, TypeInv
<1>1. ASSUME NEW t \in Tasks, t \in FutureList(n) PROVE taskdb[t] = "RUNNING"
  BY <1>1 DEF RowsInv, Row
<1>2. ASSUME NEW t \in Tasks, CollectPending(n, t) PROVE taskdb[t] = "RUNNING"
  BY <1>1, <1>2 DEF CollectPending, FutureList
<1>3. ASSUME NEW t \in Tasks, CollectDone(n, t)
      PROVE  /\ taskdb[t] = "RUNNING"
             /\ spoilt = {} =>
                  /\ runs[t] # 0
                  /\ FinalStatus(n, t) = "FAIL" => runs[t] = Retry + 1
  <2>1. taskdb[t] = "RUNNING"
    BY <1>1, <1>3 DEF CollectDone, FutureList
  <2>2. future[n][t] \in Done /\ attempt[n][t] \in 0..Retry
    BY <1>3 DEF CollectDone, Done, TypeOK
  <2>3. spoilt = {} => runs[t] = attempt[n][t] + 1
    BY <2>2 DEF ExactInv, AllExact, Exact
  <2>4. FinalStatus(n, t) = "FAIL" => attempt[n][t] = Retry
    <3>1. FinalStatus(n, t) = "FAIL" => future[n][t] = "nonzero"
      BY <2>2 DEF FinalStatus, Done
    <3> QED
      BY <1>3, <2>2, <3>1, Consts DEF CollectDone, RetriesLeft
  <2> QED
    BY <2>1, <2>2, <2>3, <2>4
<1>4. ASSUME NEW t \in Tasks, StartThread(n, t)
      PROVE  /\ taskdb[t] = "RUNNING"
             /\ spoilt = {} => runs[t] <= Retry
  <2>1. taskdb[t] = "RUNNING"
    BY <1>1, <1>4 DEF StartThread, FutureList
  <2>2. future[n][t] = "submitted" /\ attempt[n][t] \in 0..Retry
    BY <1>4 DEF StartThread, TypeOK
  <2> QED
    BY <2>1, <2>2, Consts DEF ExactInv, AllExact, Exact
<1>5. ASSUME SaveRetry(n)
      PROVE  /\ taskdb[saving[n]] = "RUNNING"
             /\ spoilt = {} =>
                  runs[saving[n]] \in 1..Retry
  <2>1. PICK t \in Tasks : t = saving[n] /\ Late(n, t)
    BY <1>5 DEF SaveRetry, Steps, Late, Saving
  <2>2. InQueue(t) /\ taskdb[t] = "RUNNING"
    BY <2>1 DEF RowsInv, Row
  <2>3. PICK r \in 0..Retry : QueuedWith(t, r)
    <3>1. PICK i \in 1..Len(queue) : queue[i].task = t
      BY <2>2 DEF InQueue
    <3>2. queue[i] \in Message
      BY <3>1 DEF TypeOK
    <3> QED
      BY <3>1, <3>2 DEF QueuedWith, Message
  <2>4. spoilt = {} => runs[t] = r
    BY <2>3 DEF ExactInv, AllExact, Exact
  <2>5. spoilt = {} => runs[t] # 0
    BY <2>1 DEF RanInv
  <2> QED
    BY <2>1, <2>2, <2>4, <2>5, Consts
<1>6. ASSUME Submit(n) \/ Discard(n) PROVE taskdb[hand[n].task] = "ACTIVE"
  <2>1. PICK u \in Tasks : u = hand[n].task /\ InHand(n, u)
    BY <1>6 DEF Submit, Discard, TypeOK, Steps, Message, InHand
  <2> QED
    BY <2>1 DEF RowsInv, Row
<1> QED
  BY <1>2, <1>3, <1>4, <1>5, <1>6

\* Without failures, with one worker node or bodies that return zero, and when
\* no body throws, whose row stays RUNNING for ever, a task that waits or runs by
\* its row is in the queue, in a hand or in a list of futures.
THEOREM NothingLost ==
  ASSUME MaxFaults = 0, OneSaver, "throws" \notin Outcomes
  PROVE  Spec => []NoTaskLost
<1>1. RowsInv => NoTaskLost
  BY DEF RowsInv, Backed, NoTaskLost
<1>2. Spec => [](TokenInv /\ RowsInv /\ ReturnsInv)
  BY RowsAlways DEF Calm
<1> QED
  BY <1>1, <1>2, PTL
=============================================================================
