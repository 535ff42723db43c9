-------------------------- MODULE WorkTokensProofs --------------------------
(***************************************************************************)
(* The proof that WorkTrigger implements WorkTokens: a released task is a  *)
(* token that nothing forges or copies, for any number of nodes, tasks,    *)
(* retries and failures.                                                   *)
(***************************************************************************)
EXTENDS WorkTriggerProofs

\* Where a task is, with the retry count it carries there.
QueuedWith(t, r) ==
  \E i \in 1..Len(queue) : queue[i].task = t /\ queue[i].retry = r

HeldWith(n, t, r) ==
  \/ InHand(n, t) /\ hand[n].retry = r
  \/ t \in FutureList(n) /\ attempt[n][t] = r

Nowhere(t) == ~InQueue(t) /\ \A n \in Nodes : ~Holds(n, t)

\* The row a retry has still to save belongs to a released task.
SavesReleased ==
  \A n \in Nodes : pc[n] = "saveRetry" => taskdb[saving[n]] # "INIT"

TokenInv == TypeInv /\ CopyInv /\ RunInv /\ SavesReleased

-----------------------------------------------------------------------------
(* The mapping *)

\* A task in the queue maps to a token there, with the count of its message.
LEMMA MapQueued ==
  TokenInv => \A t \in Tasks, r \in Nat :
    QueuedWith(t, r) => Place(t) = "queue" /\ RetriesUsed(t) = r
<1> SUFFICES ASSUME TokenInv, NEW t \in Tasks, NEW r \in Nat, QueuedWith(t, r)
             PROVE  Place(t) = "queue" /\ RetriesUsed(t) = r
  OBVIOUS
<1>1. PICK i \in 1..Len(queue) : queue[i].task = t /\ queue[i].retry = r
  BY DEF QueuedWith
<1>2. InQueue(t)
  BY <1>1 DEF InQueue
<1>3. Place(t) = "queue"
  BY <1>2 DEF Place
<1>4. Queued(t) = i
  BY <1>1 DEF Queued, TokenInv, CopyInv, SingleCopy, DistinctMessages
<1> QED
  BY <1>1, <1>3, <1>4 DEF RetriesUsed

\* A task with a node maps to a token the node holds, with the count of the
\* message in its hand or of the future.
LEMMA MapHeld ==
  TokenInv => \A t \in Tasks, n \in Nodes, r \in Nat :
    HeldWith(n, t, r) => Place(t) = n /\ RetriesUsed(t) = r
<1> SUFFICES ASSUME TokenInv, NEW t \in Tasks, NEW n \in Nodes, NEW r \in Nat,
                    HeldWith(n, t, r)
             PROVE  Place(t) = n /\ RetriesUsed(t) = r
  OBVIOUS
<1>1. Holds(n, t)
  BY DEF HeldWith, Holds
<1>2. /\ ~InQueue(t) /\ ~(InHand(n, t) /\ t \in FutureList(n))
      /\ \A m \in Nodes : Holds(m, t) => m = n
  BY <1>1 DEF TokenInv, CopyInv, SingleCopy, Exclusive
<1>3. n \in Holders(t) /\ (CHOOSE m \in Nodes : Holds(m, t)) = n
  BY <1>1, <1>2 DEF Holders
<1>4. Place(t) = n
  BY <1>2, <1>3 DEF Place
<1>5. n \notin {"new", "queue", "gone"}
  BY NodesAssumption
<1>6. RetriesUsed(t) = IF InHand(n, t) THEN hand[n].retry ELSE attempt[n][t]
  BY <1>4, <1>5 DEF RetriesUsed
<1> QED
  BY <1>2, <1>4, <1>6 DEF HeldWith

\* A task that is nowhere maps to a token not issued yet, or gone.
LEMMA MapNowhere ==
  \A t \in Tasks :
    Nowhere(t) =>
      /\ Place(t) = IF taskdb[t] = "INIT" THEN "new" ELSE "gone"
      /\ RetriesUsed(t) = 0
<1> SUFFICES ASSUME NEW t \in Tasks, Nowhere(t)
             PROVE  /\ Place(t) = IF taskdb[t] = "INIT" THEN "new" ELSE "gone"
                    /\ RetriesUsed(t) = 0
  OBVIOUS
<1>1. ~InQueue(t) /\ Holders(t) = {}
  BY DEF Nowhere, Holders
<1>2. Place(t) = IF taskdb[t] = "INIT" THEN "new" ELSE "gone"
  BY <1>1 DEF Place
<1> QED
  BY <1>2 DEF RetriesUsed

\* There is no other place.
LEMMA Somewhere ==
  TokenInv => \A t \in Tasks :
    \/ \E r \in 0..Retry : QueuedWith(t, r)
    \/ \E n \in Nodes, r \in 0..Retry : HeldWith(n, t, r)
    \/ Nowhere(t)
<1> SUFFICES ASSUME TokenInv, NEW t \in Tasks, ~Nowhere(t)
             PROVE  \/ \E r \in 0..Retry : QueuedWith(t, r)
                    \/ \E n \in Nodes, r \in 0..Retry : HeldWith(n, t, r)
  OBVIOUS
<1>1. CASE InQueue(t)
  <2>1. PICK i \in 1..Len(queue) : queue[i].task = t
    BY <1>1 DEF InQueue
  <2>2. queue[i] \in Message
    BY DEF TokenInv, TypeInv, TypeOK
  <2>3. queue[i].retry \in 0..Retry
    BY <2>2 DEF Message
  <2> QED
    BY <2>1, <2>3 DEF QueuedWith
<1>2. ASSUME NEW n \in Nodes, InHand(n, t)
      PROVE  \E r \in 0..Retry : HeldWith(n, t, r)
  <2>1. hand[n].retry \in 0..Retry
    BY <1>2 DEF InHand, TokenInv, TypeInv, TypeOK, Message
  <2> QED
    BY <1>2, <2>1 DEF HeldWith
<1>3. ASSUME NEW n \in Nodes, t \in FutureList(n)
      PROVE  \E r \in 0..Retry : HeldWith(n, t, r)
  <2>1. attempt[n][t] \in 0..Retry
    BY DEF TokenInv, TypeInv, TypeOK
  <2> QED
    BY <1>3, <2>1 DEF HeldWith
<1> QED
  BY <1>1, <1>2, <1>3 DEF Nowhere, Holds

\* The mapping after a step, from what holds after it.
LEMMA MapAfter ==
  TokenInv' => \A t \in Tasks :
    /\ \A r \in Nat : QueuedWith(t, r)' => Place(t)' = "queue" /\ RetriesUsed(t)' = r
    /\ \A n \in Nodes, r \in Nat :
         HeldWith(n, t, r)' => Place(t)' = n /\ RetriesUsed(t)' = r
    /\ Nowhere(t)' =>
         /\ Place(t)' = IF taskdb'[t] = "INIT" THEN "new" ELSE "gone"
         /\ RetriesUsed(t)' = 0
<1>1. TokenInv' => (\A t \in Tasks, r \in Nat :
        QueuedWith(t, r) => Place(t) = "queue" /\ RetriesUsed(t) = r)'
  BY MapQueued, PTL
<1>2. TokenInv' => (\A t \in Tasks, n \in Nodes, r \in Nat :
        HeldWith(n, t, r) => Place(t) = n /\ RetriesUsed(t) = r)'
  BY MapHeld, PTL
<1>3. (\A t \in Tasks :
        Nowhere(t) =>
          /\ Place(t) = IF taskdb[t] = "INIT" THEN "new" ELSE "gone"
          /\ RetriesUsed(t) = 0)'
  BY MapNowhere, PTL
<1> QED
  BY <1>1, <1>2, <1>3

\* A task that stays where it is, with its count, does not move its token.
Stays(t) ==
  /\ \A r \in 0..Retry : QueuedWith(t, r) => QueuedWith(t, r)'
  /\ \A n \in Nodes, r \in 0..Retry : HeldWith(n, t, r) => HeldWith(n, t, r)'
  /\ Nowhere(t) => Nowhere(t)' /\ (taskdb'[t] = "INIT" <=> taskdb[t] = "INIT")

\* A step that leaves a token where it is, with its count, leaves its mapping
\* alone.
LEMMA TokenStays ==
  ASSUME TokenInv, TokenInv', NEW t \in Tasks, Stays(t)
  PROVE  Place(t)' = Place(t) /\ RetriesUsed(t)' = RetriesUsed(t)
<1>1. CASE \E r \in 0..Retry : QueuedWith(t, r)
  BY <1>1, MapQueued, MapAfter DEF Stays
<1>2. CASE \E n \in Nodes, r \in 0..Retry : HeldWith(n, t, r)
  BY <1>2, MapHeld, MapAfter DEF Stays
<1>3. CASE Nowhere(t)
  BY <1>3, MapNowhere, MapAfter DEF Stays
<1> QED
  BY <1>1, <1>2, <1>3, Somewhere

-----------------------------------------------------------------------------
(* Rows *)

\* No row is released but by TaskTrigger, and none is taken back to INIT.
SameReleased == \A t \in Tasks : taskdb'[t] = "INIT" <=> taskdb[t] = "INIT"

\* The save of a released row leaves it released.
LEMMA SaveSameReleased ==
  ASSUME TypeOK, NEW t \in Tasks, taskdb[t] # "INIT", NEW s, s # "INIT",
         SaveOneTask(t, s)
  PROVE  SameReleased
BY DEF TypeOK, SaveOneTask, SameReleased

\* What a node holds was released.
LEMMA HeldReleased ==
  ASSUME TokenInv, NEW n \in Nodes, NEW t \in Tasks, Holds(n, t)
  PROVE  taskdb[t] # "INIT"
BY DEF TokenInv, CopyInv, Unreleased

\* Every save of execute is that of a task its node holds or has just retried.
LEMMA ExecuteReleases ==
  ASSUME TokenInv, NEW n \in Nodes, Execute(n)
  PROVE  SameReleased
<1> USE DEF TokenInv, TypeInv
<1>1. ASSUME NEW t \in Tasks, CollectDone(n, t) PROVE SameReleased
  <2>1. taskdb[t] # "INIT"
    BY <1>1, HeldReleased DEF CollectDone, Holds, FutureList
  <2> QED
    BY <1>1, <2>1, SaveSameReleased DEF CollectDone, FinalStatus
<1>2. ASSUME NEW t \in Tasks, CollectPending(n, t) PROVE SameReleased
  <2>1. taskdb[t] # "INIT"
    BY <1>2, HeldReleased DEF CollectPending, Holds, FutureList
  <2> QED
    BY <1>2, <2>1, SaveSameReleased DEF CollectPending
<1>3. CASE SaveRetry(n)
  BY <1>3, SaveSameReleased DEF SaveRetry, SavesReleased, Steps
<1>4. CASE Submit(n) \/ Discard(n)
  <2>1. hand[n] # NoMsg /\ hand[n].task \in Tasks
    BY <1>4 DEF Submit, Discard, TypeOK, Steps, Message
  <2>2. taskdb[hand[n].task] # "INIT"
    BY <2>1, HeldReleased DEF Holds, InHand
  <2> QED
    BY <1>4, <2>1, <2>2, SaveSameReleased DEF Submit, Discard
<1>5. ASSUME \/ \E t \in Tasks : CollectRetry(n, t) \/ CollectRetryThrows(n, t)
             \/ Begin(n) \/ CheckCapacity(n) \/ PollEmpty(n) \/ Poll(n)
             \/ PollThrows(n) \/ Requeue(n) \/ LookUp(n) \/ LookUpThrows(n)
      PROVE  SameReleased
  <2>1. taskdb' = taskdb
    BY <1>5 DEF CollectRetry, CollectRetryThrows, Begin, CheckCapacity,
      PollEmpty, Poll, PollThrows, Requeue, LookUp, LookUpThrows, storeVars
  <2> QED
    BY <2>1 DEF SameReleased
<1> QED
  BY <1>1, <1>2, <1>3, <1>4, <1>5 DEF Execute, Collect

\* Pool threads, crashes and users touch no row of taskdb.
LEMMA OthersRelease ==
  ASSUME \/ \E n \in Nodes : Crash(n)
         \/ \E n \in Nodes, t \in Tasks : StartThread(n, t) \/ Finish(n, t)
         \/ \E p \in Projects, s \in Edits : UserEdit(p, s)
         \/ UNCHANGED vars
  PROVE  SameReleased
<1>1. taskdb' = taskdb
  BY DEF Crash, StartThread, Finish, UserEdit, EditProject, vars, storeVars
<1> QED
  BY <1>1 DEF SameReleased

\* Only a retry leaves a row to be saved, and its task was released.
LEMMA SavesStep == TokenInv /\ [Next]_vars => SavesReleased'
<1> SUFFICES ASSUME TokenInv, [Next]_vars PROVE SavesReleased'
  OBVIOUS
<1> USE DEF TokenInv, TypeInv
<1>1. \A t \in Tasks : taskdb'[t] = "INIT" => taskdb[t] = "INIT"
  <2>1. ASSUME NEW t \in Tasks, Release(t)
        PROVE  \A u \in Tasks : taskdb'[u] = "INIT" => taskdb[u] = "INIT"
    BY <2>1 DEF Release, TypeOK
  <2> QED
    BY <2>1, ExecuteReleases, OthersRelease DEF Next, SameReleased
<1>2. ASSUME NEW m \in Nodes, pc'[m] = "saveRetry",
             pc[m] = "saveRetry", saving'[m] = saving[m]
      PROVE  taskdb'[saving'[m]] # "INIT"
  BY <1>1, <1>2 DEF SavesReleased, Steps
<1>3. ASSUME NEW n \in Nodes, NEW t \in Tasks, CollectRetry(n, t)
      PROVE  SavesReleased'
  <2>1. taskdb'[t] # "INIT"
    BY <1>1, <1>3, HeldReleased DEF CollectRetry, Holds, FutureList
  <2>2. \A m \in Nodes :
          /\ saving'[m] = IF m = n THEN t ELSE saving[m]
          /\ m # n => pc'[m] = pc[m]
    BY <1>3 DEF CollectRetry, Goto, TypeOK
  <2> QED
    BY <1>2, <2>1, <2>2 DEF SavesReleased
<1>4. ASSUME NEW n \in Nodes,
             \/ Crash(n) \/ SaveRetry(n)
             \/ Begin(n) \/ CheckCapacity(n) \/ PollEmpty(n) \/ Poll(n)
             \/ PollThrows(n) \/ Requeue(n) \/ LookUp(n) \/ LookUpThrows(n)
             \/ Submit(n) \/ Discard(n)
             \/ \E t \in Tasks : CollectRetryThrows(n, t)
      PROVE  SavesReleased'
  <2>1. \A m \in Nodes : pc'[m] = "saveRetry" =>
          pc[m] = "saveRetry" /\ saving'[m] = saving[m]
    BY <1>4 DEF Crash, SaveRetry, Begin, CheckCapacity, PollEmpty, Poll,
      PollThrows, Requeue, LookUp, LookUpThrows, Submit, Discard, Settle,
      CollectRetryThrows, Goto, TypeOK
  <2> QED
    BY <1>2, <2>1 DEF SavesReleased
<1>5. CASE pc' = pc /\ saving' = saving
  BY <1>2, <1>5 DEF SavesReleased
<1>6. ASSUME \/ \E n \in Nodes, t \in Tasks :
                  CollectDone(n, t) \/ CollectPending(n, t)
                  \/ StartThread(n, t) \/ Finish(n, t)
             \/ \E t \in Tasks : Release(t)
             \/ \E p \in Projects, s \in Edits : UserEdit(p, s)
             \/ UNCHANGED vars
      PROVE  pc' = pc /\ saving' = saving
  BY <1>6 DEF CollectDone, CollectPending, StartThread, Finish, Release,
    UserEdit, nodeVars, vars
<1> QED
  BY <1>3, <1>4, <1>5, <1>6 DEF Next, Execute, Collect

\* The invariant under which the mapping is well defined.
LEMMA TokenInvInit == Init => TokenInv
<1>1. Init => SavesReleased
  BY DEF Init, InitNodes, SavesReleased
<1> QED
  BY <1>1, TypingInit, CopyInit, RunInit DEF TokenInv

\* Every step keeps it.
LEMMA TokenInvStep == TokenInv /\ [Next]_vars => TokenInv'
BY Typing, CopyStep, RunStep, SavesStep DEF TokenInv

-----------------------------------------------------------------------------
(* What a step leaves where it is *)

\* A task that neither the queue nor a node is told of stays.
LEMMA Untouched ==
  ASSUME NEW t \in Tasks, taskdb'[t] = "INIT" <=> taskdb[t] = "INIT",
         InQueue(t)' => InQueue(t),
         \A r \in 0..Retry : QueuedWith(t, r) => QueuedWith(t, r)',
         \A n \in Nodes : \/ hand'[n] = hand[n]
                          \/ ~InHand(n, t) /\ ~InHand(n, t)',
         \A n \in Nodes : t \in FutureList(n)' <=> t \in FutureList(n),
         \A n \in Nodes : t \in FutureList(n) => attempt'[n][t] = attempt[n][t]
  PROVE  Stays(t)
<1>1. \A n \in Nodes :
        /\ InHand(n, t)' <=> InHand(n, t)
        /\ InHand(n, t) => hand'[n] = hand[n]
  BY DEF InHand
<1>2. \A n \in Nodes, r \in 0..Retry : HeldWith(n, t, r) => HeldWith(n, t, r)'
  BY <1>1 DEF HeldWith
<1>3. Nowhere(t) => Nowhere(t)'
  BY <1>1 DEF Nowhere, Holds
<1> QED
  BY <1>2, <1>3 DEF Stays

\* A push adds its message to those in the queue.
LEMMA Pushed ==
  ASSUME TypeOK, NEW m \in Message, Push(m)
  PROVE  /\ QueuedWith(m.task, m.retry)'
         /\ \A t \in Tasks : /\ InQueue(t)' => InQueue(t) \/ t = m.task
                             /\ \A r : QueuedWith(t, r) => QueuedWith(t, r)'
<1>1. /\ queue \in Seq(Message) /\ Len(queue') = Len(queue) + 1
      /\ Len(queue) \in Nat
      /\ \A i \in 1..Len(queue) : queue'[i] = queue[i]
      /\ queue'[Len(queue) + 1] = m
  BY DEF Push, TypeOK
<1> QED
  BY <1>1, PushedTask DEF QueuedWith

\* A pop takes the head off and leaves the other messages.
LEMMA Popped ==
  ASSUME TokenInv, NEW n \in Nodes, Poll(n)
  PROVE  /\ Head(queue) \in Message
         /\ QueuedWith(Head(queue).task, Head(queue).retry)
         /\ \A t \in Tasks :
              /\ InQueue(t)' => InQueue(t)
              /\ t # Head(queue).task =>
                   \A r : QueuedWith(t, r) => QueuedWith(t, r)'
<1>1. /\ queue \in Seq(Message) /\ Len(queue) \in Nat \ {0}
      /\ Head(queue) = queue[1] /\ Head(queue) \in Message
      /\ Len(queue') = Len(queue) - 1
      /\ \A i \in 1..Len(queue') : queue'[i] = queue[i + 1]
  BY DEF Poll, TokenInv, TypeInv, TypeOK
<1>2. QueuedWith(Head(queue).task, Head(queue).retry)
  BY <1>1 DEF QueuedWith
<1>3. ASSUME NEW t \in Tasks, InQueue(t)' PROVE InQueue(t)
  <2>1. PICK i \in 1..Len(queue') : queue'[i].task = t
    BY <1>3 DEF InQueue
  <2>2. i + 1 \in 1..Len(queue) /\ queue[i + 1].task = t
    BY <1>1, <2>1
  <2> QED
    BY <2>2 DEF InQueue
<1>4. ASSUME NEW t \in Tasks, t # Head(queue).task, NEW r, QueuedWith(t, r)
      PROVE  QueuedWith(t, r)'
  <2>1. PICK i \in 1..Len(queue) : queue[i].task = t /\ queue[i].retry = r
    BY <1>4 DEF QueuedWith
  <2>2. i - 1 \in 1..Len(queue') /\ queue'[i - 1] = queue[i]
    BY <1>1, <1>4, <2>1
  <2> QED
    BY <2>1, <2>2 DEF QueuedWith
<1> QED
  BY <1>1, <1>2, <1>3, <1>4

\* With the same queue, the same messages are in it.
LEMMA SameQueue ==
  ASSUME queue' = queue
  PROVE  \A t \in Tasks : /\ InQueue(t)' => InQueue(t)
                          /\ \A r : QueuedWith(t, r) => QueuedWith(t, r)'
BY DEF InQueue, QueuedWith

-----------------------------------------------------------------------------
(* Every step is a step of WorkTokens *)

\* Before and after a step.
Around == TokenInv /\ TokenInv'

\* All tokens but that of t stay.
OthersStay(t) == \A u \in Tasks : u # t => Stays(u)

\* No token moves, no body starts.
LEMMA Stutter ==
  ASSUME Around, runs' = runs, \A t \in Tasks : Stays(t)
  PROVE  UNCHANGED Tokens!tokenVars
<1>1. \A t \in Tasks : Place(t)' = Place(t) /\ RetriesUsed(t)' = RetriesUsed(t)
  BY TokenStays DEF Around
<1> QED
  BY <1>1 DEF Tokens!tokenVars

\* One token leaves a node: back to the queue, or for good.
LEMMA LeaveNode ==
  ASSUME Around, NEW n \in Nodes, NEW t \in Tasks, NEW r \in 0..Retry,
         HeldWith(n, t, r), OthersStay(t), runs' = runs,
         \/ QueuedWith(t, r)'
         \/ r < Retry /\ QueuedWith(t, r + 1)'
         \/ Nowhere(t)' /\ taskdb'[t] # "INIT"
  PROVE  Tokens!Next
<1>1. \A u \in Tasks : u # t =>
        Place(u)' = Place(u) /\ RetriesUsed(u)' = RetriesUsed(u)
  BY TokenStays DEF Around, OthersStay
<1>2. Place(t) = n /\ RetriesUsed(t) = r /\ r \in Nat
  BY MapHeld, Consts DEF Around
<1>3. Tokens!Held(t)
  BY <1>2 DEF Tokens!Held
<1>4. CASE QueuedWith(t, r)'
  <2>1. Place(t)' = "queue" /\ RetriesUsed(t)' = r
    BY <1>2, <1>4, MapAfter DEF Around
  <2>2. Tokens!PutBack(t)
    BY <1>1, <1>2, <1>3, <2>1 DEF Tokens!PutBack, Tokens!MoveTo
  <2> QED
    BY <2>2 DEF Tokens!Next
<1>5. CASE r < Retry /\ QueuedWith(t, r + 1)'
  <2>1. Place(t)' = "queue" /\ RetriesUsed(t)' = r + 1
    BY <1>2, <1>5, MapAfter DEF Around
  <2>2. Tokens!RetryLater(t)
    BY <1>1, <1>2, <1>3, <1>5, <2>1 DEF Tokens!RetryLater, Tokens!MoveTo
  <2> QED
    BY <2>2 DEF Tokens!Next
<1>6. CASE Nowhere(t)' /\ taskdb'[t] # "INIT"
  <2>1. Place(t)' = "gone" /\ RetriesUsed(t)' = 0
    BY <1>6, MapAfter DEF Around
  <2>2. Tokens!Drop(t)
    BY <1>1, <1>2, <1>3, <2>1 DEF Tokens!Drop, Tokens!MoveTo
  <2> QED
    BY <2>2 DEF Tokens!Next
<1> QED
  BY <1>4, <1>5, <1>6

\* A thread starts a body: within the retries its token has used.
LEMMA MapStart ==
  ASSUME Around, NEW n \in Nodes, NEW t \in Tasks, StartThread(n, t)
  PROVE  Tokens!Next
<1>1. /\ t \in FutureList(n)
      /\ \A m \in Nodes : FutureList(m)' = FutureList(m)
  BY PoolSteps DEF Around, TokenInv, TypeInv
<1>2. UNCHANGED <<taskdb, queue, hand, attempt>>
  BY DEF StartThread, storeVars
<1>3. \A u \in Tasks : Stays(u)
  BY <1>1, <1>2, SameQueue, Untouched
<1>4. \A u \in Tasks : Place(u)' = Place(u) /\ RetriesUsed(u)' = RetriesUsed(u)
  BY <1>3, TokenStays DEF Around
<1>5. HeldWith(n, t, attempt[n][t]) /\ attempt[n][t] \in Nat
  BY <1>1, Consts DEF HeldWith, Around, TokenInv, TypeInv, TypeOK
<1>6. Place(t) = n /\ RetriesUsed(t) = attempt[n][t]
  BY <1>5, MapHeld DEF Around
<1>7. runs[t] <= attempt[n][t]
  BY DEF StartThread, Around, TokenInv, RunInv, FutureRuns
<1>8. runs' = [runs EXCEPT ![t] = @ + 1]
  BY DEF StartThread
<1>9. Tokens!Start(t)
  BY <1>4, <1>6, <1>7, <1>8 DEF Tokens!Start, Tokens!Held
<1> QED
  BY <1>9 DEF Tokens!Next

\* TaskTrigger releases a task: its token is issued.
LEMMA MapRelease ==
  ASSUME Around, NEW t \in Tasks, Release(t)
  PROVE  Tokens!Next
<1> DEFINE m == [task |-> t, retry |-> 0]
<1>1. m \in Message /\ m.task = t /\ m.retry = 0
  BY Consts DEF Message
<1>2. /\ Push(m) /\ UNCHANGED <<hand, future, attempt, runs>>
      /\ \A u \in Tasks : u # t => taskdb'[u] = taskdb[u]
  BY DEF Release, nodeVars, Around, TokenInv, TypeInv, TypeOK
<1> HIDE DEF m
<1>3. /\ QueuedWith(t, 0)'
      /\ \A u \in Tasks : /\ InQueue(u)' => InQueue(u) \/ u = t
                          /\ \A r : QueuedWith(u, r) => QueuedWith(u, r)'
  BY <1>1, <1>2, Pushed DEF Around, TokenInv, TypeInv
<1>4. \A u \in Tasks : u # t => Stays(u)
  <2>1. \A n \in Nodes : FutureList(n)' = FutureList(n)
    BY <1>2 DEF FutureList
  <2>2. \A u \in Tasks : u # t => (InQueue(u)' => InQueue(u))
    BY <1>3
  <2>3. \A u \in Tasks : \A r \in 0..Retry :
          QueuedWith(u, r) => QueuedWith(u, r)'
    BY <1>3
  <2> QED
    BY <1>2, <2>1, <2>2, <2>3, Untouched
<1>5. \A u \in Tasks : u # t =>
        Place(u)' = Place(u) /\ RetriesUsed(u)' = RetriesUsed(u)
  BY <1>4, TokenStays DEF Around
<1>6. Nowhere(t) /\ taskdb[t] = "INIT"
  BY DEF Release, Nowhere, Around, TokenInv, CopyInv, Unreleased
<1>7. Place(t) = "new" /\ RetriesUsed(t) = 0
  BY <1>6, MapNowhere
<1>8. Place(t)' = "queue" /\ RetriesUsed(t)' = 0
  BY <1>3, MapAfter DEF Around
<1>9. Tokens!Issue(t)
  BY <1>2, <1>5, <1>7, <1>8 DEF Tokens!Issue, Tokens!MoveTo
<1> QED
  BY <1>9 DEF Tokens!Next

\* A node takes the head of the queue.
LEMMA MapPoll ==
  ASSUME Around, NEW n \in Nodes, Poll(n)
  PROVE  Tokens!Next
<1> DEFINE h == Head(queue)
<1>1. /\ h \in Message /\ QueuedWith(h.task, h.retry)
      /\ \A u \in Tasks :
           /\ InQueue(u)' => InQueue(u)
           /\ u # h.task => \A r : QueuedWith(u, r) => QueuedWith(u, r)'
  BY Popped DEF Around
<1>2. /\ UNCHANGED <<taskdb, future, attempt, runs>>
      /\ hand[n] = NoMsg
      /\ \A k \in Nodes : hand'[k] = IF k = n THEN h ELSE hand[k]
  BY DEF Poll, Around, TokenInv, TypeInv, TypeOK, Steps
<1> HIDE DEF h
<1>3. PICK t \in Tasks, r \in 0..Retry : t = h.task /\ r = h.retry
  BY <1>1 DEF Message
<1>4. \A u \in Tasks : u # t => Stays(u)
  BY <1>1, <1>2, <1>3, Untouched DEF FutureList, InHand
<1>5. \A u \in Tasks : u # t =>
        Place(u)' = Place(u) /\ RetriesUsed(u)' = RetriesUsed(u)
  BY <1>4, TokenStays DEF Around
<1>6. Place(t) = "queue" /\ RetriesUsed(t) = r
  BY <1>1, <1>3, MapQueued, Consts DEF Around
<1>7. HeldWith(n, t, r)'
  BY <1>1, <1>2, <1>3, Consts DEF HeldWith, InHand
<1>8. Place(t)' = n /\ RetriesUsed(t)' = r
  BY <1>3, <1>7, MapAfter, Consts DEF Around
<1>9. Tokens!Take(n, t)
  BY <1>2, <1>5, <1>6, <1>8 DEF Tokens!Take, Tokens!MoveTo
<1> QED
  BY <1>9 DEF Tokens!Next

\* A task that leaves node n, hand and futures, is nowhere afterwards unless
\* the queue has it.
LEMMA LeftAlone ==
  ASSUME TokenInv, NEW n \in Nodes, NEW t \in Tasks, Holds(n, t),
         \A k \in Nodes : k # n => hand'[k] = hand[k],
         \A k \in Nodes : k # n => FutureList(k)' = FutureList(k),
         ~Holds(n, t)', InQueue(t)' => InQueue(t)
  PROVE  Nowhere(t)'
<1>1. ~InQueue(t) /\ \A k \in Nodes : Holds(k, t) => k = n
  BY DEF TokenInv, CopyInv, SingleCopy, Exclusive
<1>2. \A k \in Nodes : k # n => ~Holds(k, t)'
  BY <1>1 DEF Holds, InHand
<1> QED
  BY <1>1, <1>2 DEF Nowhere

\* A future that is settled leaves the list: its token is dropped.
LEMMA MapCollectDone ==
  ASSUME Around, SameReleased, NEW n \in Nodes, NEW t \in Tasks,
         CollectDone(n, t)
  PROVE  Tokens!Next
<1> USE DEF Around, TokenInv, TypeInv
<1>1. /\ UNCHANGED <<queue, hand, attempt, runs>>
      /\ t \in FutureList(n)
      /\ \A k \in Nodes : FutureList(k)' =
           IF k = n THEN FutureList(n) \ {t} ELSE FutureList(k)
  BY DEF CollectDone, Forget, SetFuture, FutureList, TypeOK
<1>2. PICK r \in 0..Retry : r = attempt[n][t]
  BY DEF TypeOK
<1>3. HeldWith(n, t, r) /\ Holds(n, t) /\ ~InHand(n, t)
  BY <1>1, <1>2 DEF HeldWith, Holds, CopyInv, SingleCopy, Exclusive
<1>4. OthersStay(t)
  BY <1>1, SameQueue, Untouched DEF OthersStay, SameReleased
<1>5. ~Holds(n, t)'
  BY <1>1, <1>3 DEF Holds, InHand
<1>6. Nowhere(t)' /\ taskdb'[t] # "INIT"
  BY <1>1, <1>3, <1>5, SameQueue, LeftAlone, HeldReleased DEF SameReleased
<1> QED
  BY <1>1, <1>3, <1>4, <1>6, LeaveNode

\* A retried task goes back to the queue with one more retry used.
LEMMA MapCollectRetry ==
  ASSUME Around, SameReleased, NEW n \in Nodes, NEW t \in Tasks,
         CollectRetry(n, t)
  PROVE  Tokens!Next
<1> USE DEF Around, TokenInv, TypeInv
<1> DEFINE m == [task |-> t, retry |-> attempt[n][t] + 1]
<1>1. /\ UNCHANGED <<hand, attempt, runs>>
      /\ t \in FutureList(n)
      /\ \A k \in Nodes : FutureList(k)' =
           IF k = n THEN FutureList(n) \ {t} ELSE FutureList(k)
  BY DEF CollectRetry, Forget, SetFuture, FutureList, TypeOK
<1>2. PICK r \in 0..Retry : r = attempt[n][t]
  BY DEF TypeOK
<1>3. r < Retry /\ m \in Message /\ m.task = t /\ m.retry = r + 1 /\ Push(m)
  BY <1>2, Consts DEF CollectRetry, RetriesLeft, Message
<1> HIDE DEF m
<1>4. /\ QueuedWith(t, r + 1)'
      /\ \A u \in Tasks : /\ InQueue(u)' => InQueue(u) \/ u = t
                          /\ \A q : QueuedWith(u, q) => QueuedWith(u, q)'
  BY <1>3, Pushed
<1>5. HeldWith(n, t, r)
  BY <1>1, <1>2 DEF HeldWith
<1>6. OthersStay(t)
  <2>1. \A u \in Tasks : u # t => (InQueue(u)' => InQueue(u))
    BY <1>4
  <2>2. \A u \in Tasks : \A q \in 0..Retry :
          QueuedWith(u, q) => QueuedWith(u, q)'
    BY <1>4
  <2> QED
    BY <1>1, <2>1, <2>2, Untouched DEF OthersStay, SameReleased
<1> QED
  BY <1>1, <1>3, <1>4, <1>5, <1>6, LeaveNode

\* A push that throws uses up a retry and leaves the token where it is.
LEMMA MapRetryThrows ==
  ASSUME Around, SameReleased, NEW n \in Nodes, NEW t \in Tasks,
         CollectRetryThrows(n, t)
  PROVE  Tokens!Next
<1> USE DEF Around, TokenInv, TypeInv
<1>1. /\ UNCHANGED <<queue, hand, runs, future>>
      /\ t \in FutureList(n)
      /\ \A k \in Nodes : FutureList(k)' = FutureList(k)
  BY DEF CollectRetryThrows, FutureList
<1>2. PICK r \in 0..Retry : r = attempt[n][t]
  BY DEF TypeOK
<1>3. /\ r < Retry /\ r \in Nat
      /\ attempt' = [attempt EXCEPT ![n][t] = @ + 1]
  BY <1>2, Consts DEF CollectRetryThrows, RetriesLeft
<1>4. /\ attempt'[n][t] = r + 1
      /\ \A k \in Nodes, u \in Tasks : u # t => attempt'[k][u] = attempt[k][u]
  BY <1>2, <1>3 DEF TypeOK
<1>5. HeldWith(n, t, r) /\ HeldWith(n, t, r + 1)'
  BY <1>1, <1>2, <1>4 DEF HeldWith
<1>6. \A u \in Tasks : u # t => Stays(u)
  BY <1>1, <1>4, SameQueue, Untouched DEF SameReleased
<1>7. \A u \in Tasks : u # t =>
        Place(u)' = Place(u) /\ RetriesUsed(u)' = RetriesUsed(u)
  BY <1>6, TokenStays
<1>8. Place(t) = n /\ RetriesUsed(t) = r
  BY <1>3, <1>5, MapHeld
<1>9. Place(t)' = n /\ RetriesUsed(t)' = r + 1
  BY <1>3, <1>5, MapAfter
<1>10. Tokens!RetryLater(t)
  BY <1>1, <1>3, <1>7, <1>8, <1>9 DEF Tokens!RetryLater, Tokens!Held
<1> QED
  BY <1>10 DEF Tokens!Next

\* A message goes back to the queue, or is lost by the failing push, a
\* throwing look-up or a refusal.
LEMMA MapHandEmpties ==
  ASSUME Around, SameReleased, NEW n \in Nodes,
         Requeue(n) \/ LookUpThrows(n) \/ Discard(n)
  PROVE  Tokens!Next
<1> USE DEF Around, TokenInv, TypeInv
<1>1. /\ UNCHANGED <<attempt, runs, future>>
      /\ \A k \in Nodes : FutureList(k)' = FutureList(k)
      /\ \A k \in Nodes : hand'[k] = IF k = n THEN NoMsg ELSE hand[k]
      /\ hand[n] \in Message
  BY DEF Requeue, LookUpThrows, Discard, Settle, FutureList, TypeOK, Steps
<1>2. PICK t \in Tasks, r \in 0..Retry : t = hand[n].task /\ r = hand[n].retry
  BY <1>1 DEF Message
<1>3. /\ HeldWith(n, t, r) /\ Holds(n, t) /\ t \notin FutureList(n)
      /\ InHand(n, t)
  BY <1>1, <1>2, Consts DEF HeldWith, Holds, InHand, CopyInv, SingleCopy,
    Exclusive
<1>4. \A u \in Tasks : u # t => ~InHand(n, u) /\ ~InHand(n, u)'
  BY <1>1, <1>2 DEF InHand
<1>5. CASE queue' = queue
  <2>1. OthersStay(t)
    BY <1>1, <1>4, <1>5, SameQueue, Untouched DEF OthersStay, SameReleased
  <2>2. ~Holds(n, t)'
    BY <1>1, <1>3 DEF Holds, InHand
  <2>3. Nowhere(t)' /\ taskdb'[t] # "INIT"
    BY <1>1, <1>3, <1>5, <2>2, SameQueue, LeftAlone, HeldReleased
      DEF SameReleased
  <2> QED
    BY <1>1, <1>3, <2>1, <2>3, LeaveNode
<1>6. CASE Push(hand[n])
  <2>1. PICK m \in Message : m = hand[n]
    BY <1>1
  <2>2. /\ QueuedWith(t, r)'
        /\ \A u \in Tasks : /\ InQueue(u)' => InQueue(u) \/ u = t
                            /\ \A q : QueuedWith(u, q) => QueuedWith(u, q)'
    BY <1>2, <1>6, <2>1, Pushed
  <2>3. OthersStay(t)
    <3>1. \A u \in Tasks : u # t => (InQueue(u)' => InQueue(u))
      BY <2>2
    <3>2. \A u \in Tasks : \A q \in 0..Retry :
            QueuedWith(u, q) => QueuedWith(u, q)'
      BY <2>2
    <3> QED
      BY <1>1, <1>4, <3>1, <3>2, Untouched DEF OthersStay, SameReleased
  <2> QED
    BY <1>1, <1>3, <2>2, <2>3, LeaveNode
<1> QED
  BY <1>5, <1>6 DEF Requeue, LookUpThrows, Discard, PutBack

\* submitTask moves the message of the hand into a future of the same node,
\* with its count: the token stays.
LEMMA MapSubmit ==
  ASSUME Around, SameReleased, NEW n \in Nodes, Submit(n)
  PROVE  UNCHANGED Tokens!tokenVars
<1> USE DEF Around, TokenInv, TypeInv
<1>1. PICK t \in Tasks, r \in 0..Retry :
        t = hand[n].task /\ r = hand[n].retry /\ hand[n] # NoMsg
  BY DEF Submit, TypeOK, Steps, Message
<1>2. /\ UNCHANGED <<queue, runs>>
      /\ \A k \in Nodes : hand'[k] = IF k = n THEN NoMsg ELSE hand[k]
      /\ SetFuture(n, t, "submitted")
      /\ attempt' = [attempt EXCEPT ![n][t] = r]
  BY <1>1 DEF Submit, SubmitTask, Settle, TypeOK
<1>3. /\ \A k \in Nodes : FutureList(k)' =
           IF k = n THEN FutureList(n) \cup {t} ELSE FutureList(k)
      /\ attempt'[n][t] = r
      /\ \A k \in Nodes, u \in Tasks :
           k # n \/ u # t => attempt'[k][u] = attempt[k][u]
  BY <1>2 DEF SetFuture, FutureList, TypeOK
<1>4. /\ InHand(n, t) /\ t \notin FutureList(n)
      /\ \A k \in Nodes : Holds(k, t) => k = n
      /\ ~InQueue(t)
  BY <1>1 DEF InHand, Holds, CopyInv, SingleCopy, Exclusive
<1>5. \A u \in Tasks : u # t => ~InHand(n, u) /\ ~InHand(n, u)'
  BY <1>1, <1>2 DEF InHand
<1>6. \A u \in Tasks : u # t => Stays(u)
  BY <1>2, <1>3, <1>5, SameQueue, Untouched DEF SameReleased
<1>7. \A k \in Nodes, q \in 0..Retry : HeldWith(k, t, q) => k = n /\ q = r
  BY <1>1, <1>4 DEF HeldWith, Holds
<1>8. HeldWith(n, t, r)'
  BY <1>3 DEF HeldWith
<1>9. /\ \A q \in 0..Retry : QueuedWith(t, q) => QueuedWith(t, q)'
      /\ ~Nowhere(t)
  BY <1>2, <1>4, SameQueue DEF Nowhere, Holds
<1>10. Stays(t)
  BY <1>7, <1>8, <1>9 DEF Stays
<1> QED
  BY <1>2, <1>6, <1>10, Stutter

\* A node that dies drops what it holds.
LEMMA MapCrash ==
  ASSUME Around, SameReleased, NEW n \in Nodes, Crash(n)
  PROVE  [Tokens!Next]_(Tokens!tokenVars)
<1> USE DEF Around, TokenInv, TypeInv
<1>1. /\ UNCHANGED <<queue, runs>>
      /\ \A k \in Nodes : hand'[k] = IF k = n THEN NoMsg ELSE hand[k]
      /\ \A k \in Nodes : FutureList(k)' = IF k = n THEN {} ELSE FutureList(k)
      /\ \A k \in Nodes : k # n => attempt'[k] = attempt[k]
  BY DEF Crash, FutureList, TypeOK
<1>2. \A t \in Tasks : ~Holds(n, t)'
  BY <1>1 DEF Holds, InHand
<1>3. ASSUME NEW t \in Tasks, ~Holds(n, t)
      PROVE  Place(t) # n /\ Place(t)' = Place(t)
             /\ RetriesUsed(t)' = RetriesUsed(t)
  <2>1. Stays(t)
    BY <1>1, <1>3, SameQueue, Untouched DEF SameReleased, Holds, InHand
  <2>2. Place(t) # n
    <3>1. CASE \E r \in 0..Retry : QueuedWith(t, r)
      BY <3>1, MapQueued, NodesAssumption
    <3>2. CASE \E m \in Nodes, r \in 0..Retry : HeldWith(m, t, r)
      BY <1>3, <3>2, MapHeld DEF HeldWith, Holds
    <3>3. CASE Nowhere(t)
      BY <3>3, MapNowhere, NodesAssumption
    <3> QED
      BY <3>1, <3>2, <3>3, Somewhere
  <2> QED
    BY <2>1, <2>2, TokenStays
<1>4. ASSUME NEW t \in Tasks, Holds(n, t)
      PROVE  Place(t) = n /\ Place(t)' = "gone" /\ RetriesUsed(t)' = 0
  <2>1. \E r \in 0..Retry : HeldWith(n, t, r)
    BY <1>4 DEF Holds, InHand, HeldWith, TypeOK, Message
  <2>2. Place(t) = n
    BY <2>1, MapHeld
  <2>3. Nowhere(t)'
    BY <1>1, <1>2, <1>4, SameQueue, LeftAlone
  <2>4. taskdb'[t] # "INIT"
    BY <1>4, HeldReleased DEF SameReleased
  <2> QED
    BY <2>2, <2>3, <2>4, MapAfter
<1>5. CASE \E t \in Tasks : Holds(n, t)
  <2>1. Tokens!Die(n)
    BY <1>1, <1>3, <1>4, <1>5 DEF Tokens!Die
  <2> QED
    BY <2>1 DEF Tokens!Next
<1>6. CASE \A t \in Tasks : ~Holds(n, t)
  BY <1>1, <1>3, <1>6 DEF Tokens!tokenVars
<1> QED
  BY <1>5, <1>6

\* What neither a queue, a hand, a future nor a count can tell.
LEMMA MapSilent ==
  ASSUME Around, SameReleased, UNCHANGED <<queue, hand, attempt, runs>>,
         \A n \in Nodes : FutureList(n)' = FutureList(n)
  PROVE  UNCHANGED Tokens!tokenVars
<1>1. \A t \in Tasks : Stays(t)
  BY SameQueue, Untouched DEF SameReleased
<1> QED
  BY <1>1, Stutter

\* Every step of a node, a thread, the trigger or a user is one of the token.
LEMMA MapStep ==
  Around /\ [Next]_vars => [Tokens!Next]_(Tokens!tokenVars)
<1> SUFFICES ASSUME Around, [Next]_vars
             PROVE  [Tokens!Next]_(Tokens!tokenVars)
  OBVIOUS
<1>1. ASSUME NEW t \in Tasks, Release(t) PROVE Tokens!Next
  BY <1>1, MapRelease
<1>2. ASSUME NEW n \in Nodes, Execute(n)
      PROVE  [Tokens!Next]_(Tokens!tokenVars)
  <2>1. SameReleased
    BY <1>2, ExecuteReleases DEF Around
  <2>2. ASSUME NEW t \in Tasks, CollectDone(n, t) PROVE Tokens!Next
    BY <2>1, <2>2, MapCollectDone
  <2>3. ASSUME NEW t \in Tasks, CollectRetry(n, t) PROVE Tokens!Next
    BY <2>1, <2>3, MapCollectRetry
  <2>4. ASSUME NEW t \in Tasks, CollectRetryThrows(n, t) PROVE Tokens!Next
    BY <2>1, <2>4, MapRetryThrows
  <2>5. CASE Poll(n)
    BY <2>5, MapPoll
  <2>6. CASE Requeue(n) \/ LookUpThrows(n) \/ Discard(n)
    BY <2>1, <2>6, MapHandEmpties
  <2>7. CASE Submit(n)
    BY <2>1, <2>7, MapSubmit
  <2>8. ASSUME \/ \E t \in Tasks : CollectPending(n, t)
               \/ Begin(n) \/ SaveRetry(n) \/ CheckCapacity(n)
               \/ PollEmpty(n) \/ PollThrows(n) \/ LookUp(n)
        PROVE  UNCHANGED Tokens!tokenVars
    <3>1. UNCHANGED <<queue, future, attempt, runs, hand>>
      BY <2>8 DEF CollectPending, Begin, SaveRetry, CheckCapacity, PollEmpty,
        PollThrows, LookUp, storeVars
    <3>2. \A m \in Nodes : FutureList(m)' = FutureList(m)
      BY <3>1 DEF FutureList
    <3> QED
      BY <2>1, <3>1, <3>2, MapSilent
  <2> QED
    BY <1>2, <2>2, <2>3, <2>4, <2>5, <2>6, <2>7, <2>8 DEF Execute, Collect
<1>3. ASSUME NEW n \in Nodes, Crash(n)
      PROVE  [Tokens!Next]_(Tokens!tokenVars)
  BY <1>3, MapCrash, OthersRelease
<1>4. ASSUME NEW n \in Nodes, NEW t \in Tasks, StartThread(n, t)
      PROVE  Tokens!Next
  BY <1>4, MapStart
<1>5. ASSUME NEW n \in Nodes, NEW t \in Tasks, Finish(n, t)
      PROVE  UNCHANGED Tokens!tokenVars
  <2>1. /\ UNCHANGED <<queue, hand, attempt, runs>>
        /\ \A m \in Nodes : FutureList(m)' = FutureList(m)
    BY <1>5, PoolSteps DEF Finish, storeVars, Around, TokenInv, TypeInv
  <2> QED
    BY <1>5, <2>1, OthersRelease, MapSilent
<1>6. ASSUME \/ \E p \in Projects, s \in Edits : UserEdit(p, s)
             \/ UNCHANGED vars
      PROVE  UNCHANGED Tokens!tokenVars
  <2>1. UNCHANGED <<queue, future, attempt, runs, hand>>
    BY <1>6 DEF UserEdit, EditProject, vars, storeVars, nodeVars
  <2>2. \A m \in Nodes : FutureList(m)' = FutureList(m)
    BY <2>1 DEF FutureList
  <2> QED
    BY <1>6, <2>1, <2>2, OthersRelease, MapSilent
<1> QED
  BY <1>1, <1>2, <1>3, <1>4, <1>5, <1>6 DEF Next

\* Every behaviour of the queue, the nodes and their pools, crashes and failing
\* pushes included, is one of tokens that are moved, not copied, and whose
\* retries allow each start.
THEOREM Implementation == Spec => ImplementsTokens
<1>1. Init => Tokens!Init
  <2> SUFFICES ASSUME Init PROVE Tokens!Init
    OBVIOUS
  <2>1. \A t \in Tasks : taskdb[t] = "INIT" /\ runs[t] = 0
    BY DEF Init, InitNodes
  <2>2. \A n \in Nodes : hand[n] = NoMsg /\ FutureList(n) = {}
    BY DEF Init, InitNodes, FutureList
  <2>3. Len(queue) = 0
    BY DEF Init
  <2>4. \A t \in Tasks : Nowhere(t)
    BY <2>2, <2>3 DEF Nowhere, InQueue, Holds, InHand
  <2>5. \A t \in Tasks : Place(t) = "new" /\ RetriesUsed(t) = 0
    BY <2>1, <2>4, MapNowhere
  <2> QED
    BY <2>5 DEF Tokens!Init, Init, InitNodes
<1>2. Spec => []TokenInv
  BY TokenInvInit, TokenInvStep, PTL DEF Spec
<1>3. TokenInv /\ TokenInv' => Around
  BY DEF Around
<1> QED
  BY <1>1, <1>2, <1>3, MapStep, PTL DEF Spec, ImplementsTokens, Tokens!Spec
=============================================================================
