-------------------------- MODULE TaskTriggerProofs --------------------------
(***************************************************************************)
(* Proofs about TaskTrigger for any set of tasks and projects, any         *)
(* dependences, delays and resolution of the clock, and any bound on time  *)
(* and crashes.                                                            *)
(***************************************************************************)
EXTENDS TaskTrigger, WellFoundedInduction, TLAPS

Pushing == pc \in {"pushInit", "pushCache"}

\* The cache is a function, and a task is in hand when it is to be pushed.
FormInv ==
  /\ cache = [k \in DOMAIN cache |-> cache[k]]
  /\ hand # NoTask <=> Pushing
  /\ pc = "pushCache" => cache # Empty /\ cache[FirstKey(cache)] = hand

TypeInv == TypeOK /\ FormInv

\* The time that must be over when t is pushed.
Earliest(t) == Lunch[t] + Delay[ProjectOf[t]]

\* No check is planned before the delay of the task is over.
TimeInv ==
  /\ \A t \in Tasks : t \in initTasks \/ taskdb[t] = "INIT" => Lunch[t] <= now
  /\ \A k \in DOMAIN cache : Earliest(cache[k]) <= k
  /\ \A t \in Checking : Earliest(t) <= triggertime[t]
  /\ Pushing => Earliest(hand) < now

QueuedTask(t) == \E i \in 1..Len(queue) : queue[i].task = t

Distinct ==
  \A i, j \in 1..Len(queue) : queue[i].task = queue[j].task => i = j

\* The entry the loop is at, once its task is released.
Released(k) == pc = "pushCache" /\ k = FirstKey(cache)

\* Without failed statements the rows say where the tasks are.
RowInv ==
  /\ \A t \in initTasks : taskdb[t] = "INIT"
  /\ \A k \in DOMAIN cache : ~Released(k) => taskdb[cache[k]] = "CHECKING"
  /\ \A k, j \in DOMAIN cache : cache[k] = cache[j] => k = j
  /\ Pushing => taskdb[hand] = "ACTIVE"

PushInv ==
  /\ PushedOnce
  /\ \A t \in Tasks :
       taskdb[t] \in {"NONE", "INIT", "CHECKING"} \/ t = hand => pushed[t] = 0

CacheInv == pc # "down" => Checking \subseteq {t \in Tasks : Cached(t)} \cup lost

\* What holds whatever the workers do with the messages they take.
CoreInv == RowInv /\ PushInv /\ CacheInv

\* A task in hand passed the check with what was read in this execution, and
\* what was read as finished stays so.
CheckInv ==
  /\ Pushing => CheckTask(hand)
  /\ \A t \in okTasks : taskdb[t] \in OkStatus

\* What holds of the queue when the workers settle what they take.
QueueInv ==
  /\ Pushing => ~QueuedTask(hand)
  /\ \A t \in Tasks : QueuedTask(t) => taskdb[t] = "ACTIVE"
  /\ Distinct
  /\ ReleasedIsQueued

PlainInv == CoreInv /\ CheckInv /\ QueueInv

\* A step keeps each of the three, the last two without the help of the other.
Keeps == CoreInv' /\ (CheckInv => CheckInv') /\ (QueueInv => QueueInv')

-----------------------------------------------------------------------------
(* The operators of the cache *)

\* The assumptions on the constants, gathered for citation.
LEMMA Consts ==
  /\ NoTask \notin Tasks
  /\ Lunch \in [Tasks -> Nat] /\ Delay \in [Projects -> Nat]
  /\ ProjectOf \in [Tasks -> Projects]
  /\ TicksPerSecond \in Nat \ {0} /\ Delta \in Nat /\ Delta >= TicksPerSecond
  /\ MaxFaults \in Nat /\ Horizon \in Nat /\ MaxCrashes \in Nat
  /\ Edits \subseteq ProjectStatus
BY StoreAssumption, TriggerAssumption

\* A set of times that is not empty has a first.
LEMMA FirstExists ==
  ASSUME NEW S, S \subseteq Nat, S # {}
  PROVE  \E k \in S : \A x \in S : k <= x
<1>1. PICK k \in S : \A x \in S : ~(<<x, k>> \in OpToRel(<, Nat))
  BY NatLessThanWellFounded, WFMin
<1>2. \A x \in S : x \in Nat /\ k \in Nat /\ ~(x < k)
  BY <1>1 DEF OpToRel
<1> QED
  BY <1>2

\* FirstKey is the first key of a cache that is not empty.
LEMMA FirstKeyIsFirst ==
  ASSUME NEW c, DOMAIN c \subseteq Nat, DOMAIN c # {}
  PROVE  /\ FirstKey(c) \in DOMAIN c
         /\ \A x \in DOMAIN c : FirstKey(c) <= x
BY FirstExists DEF FirstKey

\* A cache other than the empty one has keys.
LEMMA NotEmpty ==
  ASSUME NEW c, c = [k \in DOMAIN c |-> c[k]], c # Empty
  PROVE  DOMAIN c # {}
BY DEF Empty

\* The time stored in a row is less than a second before the time meant.
LEMMA TruncateBounds ==
  ASSUME NEW k \in Nat
  PROVE  /\ Truncate(k) \in Nat
         /\ Truncate(k) + TicksPerSecond > k
<1>1. /\ k % TicksPerSecond \in Nat /\ k % TicksPerSecond < TicksPerSecond
      /\ k % TicksPerSecond <= k
  BY Consts
<1> QED
  BY <1>1, Consts DEF Truncate

\* The caches there are: finite functions from times to tasks.
IsCache(c) ==
  /\ DOMAIN c \subseteq Nat /\ \A k \in DOMAIN c : c[k] \in Tasks
  /\ c = [k \in DOMAIN c |-> c[k]]

\* A put adds a key or replaces the task under it.
LEMMA PutIsCache ==
  ASSUME NEW c, IsCache(c), NEW k \in Nat, NEW t \in Tasks
  PROVE  /\ IsCache(PutCache(c, k, t))
         /\ DOMAIN PutCache(c, k, t) = DOMAIN c \cup {k}
         /\ PutCache(c, k, t)[k] = t
         /\ \A x \in DOMAIN c : x # k => PutCache(c, k, t)[x] = c[x]
BY DEF IsCache, PutCache

\* A poll takes away the first key and nothing else.
LEMMA PollIsCache ==
  ASSUME NEW c, IsCache(c)
  PROVE  /\ IsCache(PollFirst(c))
         /\ DOMAIN PollFirst(c) = DOMAIN c \ {FirstKey(c)}
         /\ \A x \in DOMAIN PollFirst(c) : PollFirst(c)[x] = c[x]
BY DEF IsCache, PollFirst

\* A cache read from rows has the tasks of the rows under their times.
LEMMA LoadIsCache ==
  ASSUME TypeOK, NEW rows, rows \subseteq Tasks, NEW c \in Loaded(rows)
  PROVE  /\ IsCache(c)
         /\ DOMAIN c = {triggertime[t] : t \in rows}
         /\ \A k \in DOMAIN c : c[k] \in rows /\ triggertime[c[k]] = k
BY DEF Loaded, IsCache, TypeOK

\* The loop over the cache is at a key of it that is due.
LEMMA DueKey ==
  ASSUME TypeInv, NEW t \in Tasks, Check(t)
  PROVE  /\ FirstKey(cache) \in DOMAIN cache /\ cache[FirstKey(cache)] = t
         /\ FirstKey(cache) \in Nat /\ FirstKey(cache) < now
<1>1. DOMAIN cache # {}
  BY NotEmpty DEF Check, FirstDue, TypeInv, FormInv
<1> QED
  BY <1>1, FirstKeyIsFirst DEF Check, FirstDue, TypeInv, TypeOK

\* So is it while the task it released is still to be pushed.
LEMMA PushKey ==
  ASSUME TypeInv, pc = "pushCache"
  PROVE  /\ FirstKey(cache) \in DOMAIN cache /\ cache[FirstKey(cache)] = hand
         /\ FirstKey(cache) \in Nat
<1>1. DOMAIN cache # {}
  BY NotEmpty DEF TypeInv, FormInv
<1> QED
  BY <1>1, FirstKeyIsFirst DEF TypeInv, FormInv, TypeOK

\* The cache of a state is one.
LEMMA CacheTyped == TypeInv => IsCache(cache)
BY DEF TypeInv, TypeOK, FormInv, IsCache

-----------------------------------------------------------------------------
(* Typing *)

\* What a save leaves in the row.
LEMMA SaveTyping ==
  ASSUME TypeOK, NEW t \in Tasks, NEW s \in RowStatus, SaveOneTask(t, s)
  PROVE  taskdb' \in [Tasks -> RowStatus] /\ faults' \in 0..MaxFaults
<1>1. taskdb \in [Tasks -> RowStatus] /\ faults \in 0..MaxFaults
  BY DEF TypeOK
<1>2. taskdb' \in [Tasks -> RowStatus]
  BY <1>1 DEF SaveOneTask
<1>3. faults' \in 0..MaxFaults
  BY <1>1, Consts DEF SaveOneTask, Fault
<1> QED
  BY <1>2, <1>3

\* What the save of a CHECKING row leaves.
LEMMA ParkTyping ==
  ASSUME TypeOK, NEW t \in Tasks, NEW k \in Nat, SaveChecking(t, k)
  PROVE  /\ taskdb' \in [Tasks -> RowStatus] /\ faults' \in 0..MaxFaults
         /\ triggertime' \in [Tasks -> Nat]
<1>1. Truncate(k) \in Nat
  BY TruncateBounds
<1>2. "CHECKING" \in RowStatus
  BY DEF RowStatus, TaskStatus
<1>3. /\ taskdb \in [Tasks -> RowStatus] /\ faults \in 0..MaxFaults
      /\ triggertime \in [Tasks -> Nat]
  BY DEF TypeOK
<1>4. /\ taskdb' \in [Tasks -> RowStatus]
      /\ triggertime' \in [Tasks -> Nat]
  BY <1>1, <1>2, <1>3 DEF SaveChecking
<1>5. faults' \in 0..MaxFaults
  BY <1>3, Consts DEF SaveChecking, Fault
<1> QED
  BY <1>4, <1>5

\* The push leaves the queue a list of messages.
LEMMA PushTyping ==
  ASSUME TypeOK, hand \in Tasks, PushHand
  PROVE  /\ queue' \in Seq([task : Tasks, retry : Nat])
         /\ pushed' \in [Tasks -> Nat]
         /\ faults' \in 0..MaxFaults
<1> DEFINE m == [task |-> hand, retry |-> 0]
<1>1. m \in [task : Tasks, retry : Nat]
  OBVIOUS
<1>2. queue' \in {queue, Append(queue, m)}
  BY DEF PushHand, Push
<1>3. queue' \in Seq([task : Tasks, retry : Nat])
  <2>1. queue \in Seq([task : Tasks, retry : Nat])
    BY DEF TypeOK
  <2> DEFINE M == [task : Tasks, retry : Nat]
  <2> HIDE DEF m, M
  <2>2. queue \in Seq(M) /\ m \in M
    BY <1>1, <2>1 DEF M
  <2>3. queue' \in Seq(M)
    BY <1>2, <2>2
  <2> QED
    BY <2>3 DEF M
<1>4. pushed' \in [Tasks -> Nat] /\ faults' \in 0..MaxFaults
  BY Consts, SMTT(30) DEF PushHand, Fault, TypeOK
<1> QED
  BY <1>3, <1>4

\* The first state is well typed.
LEMMA TypingInit == Init => TypeInv
<1> SUFFICES ASSUME Init PROVE TypeInv
  OBVIOUS
<1>1. DOMAIN Empty = {} /\ Empty = [k \in DOMAIN Empty |-> Empty[k]]
  BY DEF Empty
<1> QED
  BY <1>1, Consts DEF Init, TypeInv, TypeOK, FormInv, Pushing, NoProjects,
    RowStatus, TaskStatus, ProjectStatus

\* Steps of the loop over the INIT tasks keep the types.
LEMMA TypingInitLoop ==
  ASSUME TypeInv, NEW t \in Tasks,
         Orphan(t) \/ ReleaseInit(t) \/ ParkInit(t)
  PROVE  TypeInv'
<1> USE DEF TypeInv
<1>1. pc = "init" /\ hand = NoTask /\ initTasks' = initTasks \ {t}
  BY DEF Orphan, ReleaseInit, ParkInit, Visit, FormInv, Pushing
<1>2. CASE Orphan(t)
  BY <1>1, <1>2 DEF Orphan, TypeOK, FormInv, Pushing, storeVars, history
<1>3. CASE ReleaseInit(t)
  <2>1. taskdb' \in [Tasks -> RowStatus] /\ faults' \in 0..MaxFaults
    BY <1>3, SaveTyping DEF ReleaseInit, RowStatus, TaskStatus
  <2> QED
    BY <1>1, <1>3, <2>1, Consts, SMTT(30)
    DEF ReleaseInit, TypeOK, FormInv, Pushing, history
<1>4. CASE ParkInit(t)
  <2> DEFINE k == now + Delta + Delay[ProjectOf[t]]
  <2>1. k \in Nat
    BY Consts DEF TypeOK
  <2>2. SaveChecking(t, k) /\ cache' = PutCache(cache, k, t)
        /\ lost' = lost \cup Replaced(cache, k, t)
    BY <1>4 DEF ParkInit, Park
  <2> HIDE DEF k
  <2>3. /\ taskdb' \in [Tasks -> RowStatus] /\ faults' \in 0..MaxFaults
        /\ triggertime' \in [Tasks -> Nat]
    BY <2>1, <2>2, ParkTyping
  <2>4. IsCache(cache')
    BY <2>1, <2>2, PutIsCache, CacheTyped
  <2>5. lost' \subseteq Tasks
    BY <2>2 DEF Replaced, TypeOK
  <2> QED
    BY <1>1, <1>4, <2>3, <2>4, <2>5 DEF ParkInit, TypeOK, FormInv, Pushing,
      IsCache
<1> QED
  BY <1>2, <1>3, <1>4

\* So do those of the loop over the cache.
LEMMA TypingCacheLoop ==
  ASSUME TypeInv, NEW t \in Tasks,
         ReleaseChecked(t) \/ ParkAgain(t) \/ Drop(t)
  PROVE  TypeInv'
<1> USE DEF TypeInv
<1>1. pc = "cache" /\ hand = NoTask
  BY DEF ReleaseChecked, ParkAgain, Drop, Check, FormInv, Pushing
<1>2. CASE ReleaseChecked(t)
  <2>1. taskdb' \in [Tasks -> RowStatus] /\ faults' \in 0..MaxFaults
    BY <1>2, SaveTyping DEF ReleaseChecked, RowStatus, TaskStatus
  <2>2. cache # Empty /\ cache[FirstKey(cache)] = t
    BY <1>2 DEF ReleaseChecked, Check, FirstDue
  <2>3. TypeOK'
    BY <1>1, <1>2, <2>1 DEF ReleaseChecked, TypeOK, history
  <2>4. FormInv'
    BY <1>2, <2>2, Consts DEF ReleaseChecked, FormInv, Pushing
  <2> QED
    BY <2>3, <2>4
<1>3. CASE ParkAgain(t)
  <2> DEFINE k == now + Delta
  <2>1. k \in Nat
    BY Consts DEF TypeOK
  <2>2. /\ SaveChecking(t, k) /\ cache' = PutCache(PollFirst(cache), k, t)
        /\ lost' = lost \cup Replaced(PollFirst(cache), k, t)
    BY <1>3 DEF ParkAgain, Park
  <2> HIDE DEF k
  <2>3. /\ taskdb' \in [Tasks -> RowStatus] /\ faults' \in 0..MaxFaults
        /\ triggertime' \in [Tasks -> Nat]
    BY <2>1, <2>2, ParkTyping
  <2>4. IsCache(PollFirst(cache))
    BY PollIsCache, CacheTyped
  <2>5. IsCache(cache')
    BY <2>1, <2>2, <2>4, PutIsCache
  <2>6. lost' \subseteq Tasks
    BY <2>2, <2>4 DEF Replaced, TypeOK, IsCache
  <2> QED
    BY <1>1, <1>3, <2>3, <2>5, <2>6 DEF ParkAgain, TypeOK, FormInv, Pushing,
      IsCache
<1>4. CASE Drop(t)
  <2>1. taskdb' \in [Tasks -> RowStatus] /\ faults' \in 0..MaxFaults
    BY <1>4, SaveTyping DEF Drop, RowStatus, TaskStatus
  <2>2. IsCache(cache')
    BY <1>4, PollIsCache, CacheTyped DEF Drop
  <2> QED
    BY <1>1, <1>4, <2>1, <2>2 DEF Drop, TypeOK, FormInv, Pushing, history,
      IsCache
<1> QED
  BY <1>2, <1>3, <1>4

\* Every step keeps the types.
LEMMA Typing == TypeInv /\ [Next]_vars => TypeInv'
<1> SUFFICES ASSUME TypeInv, [Next]_vars PROVE TypeInv'
  OBVIOUS
<1> USE DEF TypeInv
<1>1. CASE InitLoad
  <2>1. IsCache(cache') /\ lost' \subseteq Tasks
    <3>1. CASE cache' = Empty /\ UNCHANGED lost
      BY <3>1 DEF Empty, IsCache, TypeOK
    <3>2. ASSUME NEW c \in Loaded(Checking), cache' = c,
                 lost' = lost \cup (Checking \ {c[k] : k \in DOMAIN c})
          PROVE  IsCache(cache') /\ lost' \subseteq Tasks
      <4>1. Checking \subseteq Tasks
        BY DEF Checking
      <4> QED
        BY <3>2, <4>1, LoadIsCache DEF TypeOK
    <3> QED
      BY <1>1, <3>1, <3>2 DEF InitLoad
  <2> QED
    BY <1>1, <2>1, Consts DEF InitLoad, Fault, TypeOK, FormInv, Pushing, IsCache
<1>2. CASE LoadProjects
  BY <1>2, Consts DEF LoadProjects, Fault, NoProjects, ProjectStatus, TypeOK,
    FormInv, Pushing, history
<1>3. CASE LoadInitTasks
  BY <1>3, Consts, SMTT(30) DEF LoadInitTasks, Read, Fault, TypeOK, FormInv,
    Pushing, history
<1>4. CASE LoadSuccessOrPassed
  BY <1>4, Consts DEF LoadSuccessOrPassed, SuccessOrPassedTasks, Read, Fault,
    TypeOK, FormInv, Pushing, history
<1>5. ASSUME NEW t \in Tasks, \/ Orphan(t) \/ ReleaseInit(t) \/ ParkInit(t)
                              \/ ReleaseChecked(t) \/ ParkAgain(t) \/ Drop(t)
      PROVE  TypeInv'
  BY <1>5, TypingInitLoop, TypingCacheLoop
<1>6. CASE PushInit \/ PushCache
  <2>1. hand \in Tasks /\ PushHand
    BY <1>6 DEF PushInit, PushCache, FormInv, Pushing, TypeOK
  <2>2. /\ queue' \in Seq([task : Tasks, retry : Nat])
        /\ pushed' \in [Tasks -> Nat]
        /\ faults' \in 0..MaxFaults
        /\ hand' = NoTask
    BY <2>1, PushTyping DEF PushHand
  <2>3. IsCache(cache')
    BY <1>6, PollIsCache, CacheTyped DEF PushInit, PushCache
  <2> QED
    BY <1>6, <2>2, <2>3 DEF PushInit, PushCache, TypeOK, FormInv, Pushing,
      IsCache
<1>7. CASE PushThrows
  <2>1. TypeOK'
    BY <1>7, Consts DEF PushThrows, Fault, TypeOK, history
  <2>2. FormInv'
    BY <1>7 DEF PushThrows, FormInv, Pushing
  <2> QED
    BY <2>1, <2>2
<1>8. CASE InitDone \/ CacheDone
  BY <1>8 DEF InitDone, CacheDone, TypeOK, FormInv, Pushing, storeVars, memory,
    history
<1>9. CASE Tick
  <2>1. TypeOK'
    BY <1>9, Consts DEF Tick, TypeOK, storeVars, memory, history
  <2>2. FormInv'
    BY <1>9 DEF Tick, FormInv, Pushing, memory
  <2> QED
    BY <2>1, <2>2
<1>10. ASSUME NEW t \in Tasks, Create(t) \/ Pass(t) PROVE TypeInv'
  <2>1. taskdb' \in [Tasks -> RowStatus]
    BY <1>10 DEF Create, Pass, RowStatus, TaskStatus, TypeOK
  <2>2. TypeOK'
    BY <1>10, <2>1 DEF Create, Pass, TypeOK, memory, history
  <2>3. FormInv'
    BY <1>10 DEF Create, Pass, FormInv, Pushing, memory
  <2> QED
    BY <2>2, <2>3
<1>11. CASE WorkAny
  <2>1. PICK s \in {"SUCCESS", "FAIL"} : Work(s)
    BY <1>11 DEF WorkAny
  <2>2. queue' \in Seq([task : Tasks, retry : Nat])
    BY <2>1 DEF Work, TypeOK
  <2>3. taskdb' \in [Tasks -> RowStatus]
    BY <2>1 DEF Work, RowStatus, TaskStatus, TypeOK
  <2> QED
    BY <2>1, <2>2, <2>3 DEF Work, TypeOK, FormInv, Pushing, memory, history
<1>12. ASSUME NEW p \in Projects, NEW s \in Edits, UserEdit(p, s)
       PROVE  TypeInv'
  BY <1>12, Consts DEF UserEdit, EditProject, TypeOK, FormInv, Pushing, memory,
    history
<1>13. CASE Crash
  <2>1. DOMAIN Empty = {} /\ Empty = [k \in DOMAIN Empty |-> Empty[k]]
    BY DEF Empty
  <2>2. TypeOK'
    <3>1. crashes' \in 0..MaxCrashes
      BY <1>13, Consts DEF Crash, TypeOK
    <3>2. projectMap' \in [Projects -> ProjectStatus]
      BY <1>13 DEF Crash, NoProjects, ProjectStatus
    <3> QED
      BY <1>13, <2>1, <3>1, <3>2 DEF Crash, TypeOK, storeVars, history
  <2>3. FormInv'
    BY <1>13, <2>1 DEF Crash, FormInv, Pushing
  <2> QED
    BY <2>2, <2>3
<1>14. CASE UNCHANGED vars
  BY <1>14 DEF vars, TypeOK, FormInv, Pushing, storeVars, memory, history
<1> QED
  BY <1>1, <1>2, <1>3, <1>4, <1>5, <1>6, <1>7, <1>8, <1>9, <1>10, <1>11, <1>12,
    <1>13, <1>14 DEF Next, Execute

\* TaskTrigger never leaves its types.
THEOREM TypeCorrect == Spec => []TypeOK
<1>1. TypeInv => TypeOK
  BY DEF TypeInv
<1> QED
  BY <1>1, TypingInit, Typing, PTL DEF Spec

-----------------------------------------------------------------------------
(* No push before lunchtime and delay *)

\* Times are natural numbers.
LEMMA EarliestTyped ==
  ASSUME NEW t \in Tasks
  PROVE  /\ Earliest(t) \in Nat /\ Lunch[t] \in Nat
         /\ Delay[ProjectOf[t]] \in Nat
BY Consts DEF Earliest

\* Steps that let time pass and plan no check before its time.
LEMMA TimeKept ==
  ASSUME TypeInv, TypeInv', TimeInv, now' = now \/ now' = now + 1,
         \A t \in Tasks : t \in initTasks' \/ taskdb'[t] = "INIT" =>
           t \in initTasks \/ taskdb[t] = "INIT" \/ Lunch[t] <= now,
         \A k \in DOMAIN cache' :
           \/ k \in DOMAIN cache /\ cache'[k] = cache[k]
           \/ Earliest(cache'[k]) <= k,
         \A t \in Checking' :
           \/ t \in Checking /\ triggertime'[t] = triggertime[t]
           \/ Earliest(t) <= triggertime'[t],
         Pushing' => (Pushing /\ hand' = hand) \/ Earliest(hand') < now
  PROVE  TimeInv'
<1>1. now \in Nat /\ now' \in Nat /\ now <= now'
  BY DEF TypeInv, TypeOK
<1>2. \A t \in Tasks : t \in initTasks' \/ taskdb'[t] = "INIT" => Lunch[t] <= now'
  BY <1>1, EarliestTyped DEF TimeInv
<1>3. Pushing' => hand' \in Tasks /\ Earliest(hand') < now'
  <2>1. Pushing' => hand' \in Tasks
    BY DEF TypeInv, FormInv, TypeOK
  <2> QED
    BY <1>1, <2>1, EarliestTyped DEF TimeInv
<1> QED
  BY <1>2, <1>3 DEF TimeInv, Checking, Earliest

\* A check planned at least a second after the earliest time respects it in
\* the cache, and in the row although the row holds whole seconds.
LEMMA ParkTime ==
  ASSUME TypeInv, NEW t \in Tasks, NEW k \in Nat,
         Earliest(t) + TicksPerSecond <= k, SaveChecking(t, k)
  PROVE  /\ Earliest(t) <= k
         /\ \A u \in Checking' :
              \/ u \in Checking /\ triggertime'[u] = triggertime[u]
              \/ Earliest(u) <= triggertime'[u]
         /\ \A u \in Tasks : taskdb'[u] = "INIT" => taskdb[u] = "INIT"
<1>1. Earliest(t) \in Nat /\ TicksPerSecond \in Nat
  BY EarliestTyped, Consts
<1>2. Earliest(t) <= k
  BY <1>1
<1>3. Truncate(k) \in Nat /\ Truncate(k) + TicksPerSecond > k
  BY TruncateBounds
<1>4. Earliest(t) <= Truncate(k)
  BY <1>1, <1>3
<1>5. /\ taskdb \in [Tasks -> RowStatus] /\ triggertime \in [Tasks -> Nat]
  BY DEF TypeInv, TypeOK
<1>6. CASE UNCHANGED <<taskdb, triggertime>>
  BY <1>2, <1>6 DEF Checking
<1>7. CASE /\ taskdb' = [taskdb EXCEPT ![t] = "CHECKING"]
           /\ triggertime' = [triggertime EXCEPT ![t] = Truncate(k)]
  BY <1>2, <1>4, <1>5, <1>7 DEF Checking
<1> QED
  BY <1>6, <1>7 DEF SaveChecking

\* A save of another status leaves no row CHECKING or INIT that was not.
LEMMA SaveTime ==
  ASSUME TypeInv, NEW t \in Tasks, NEW s, s \notin {"INIT", "CHECKING"},
         SaveOneTask(t, s) \/ taskdb' = [taskdb EXCEPT ![t] = s]
  PROVE  /\ Checking' \subseteq Checking
         /\ \A u \in Tasks : taskdb'[u] = "INIT" => taskdb[u] = "INIT"
BY DEF SaveOneTask, Checking, TypeInv, TypeOK

\* Every step respects the earliest times.
LEMMA TimeStep == TypeInv /\ TypeInv' /\ TimeInv /\ [Next]_vars => TimeInv'
<1> SUFFICES ASSUME TypeInv, TypeInv', TimeInv, [Next]_vars PROVE TimeInv'
  OBVIOUS
<1>1. CASE InitLoad
  <2>1. UNCHANGED <<taskdb, triggertime, initTasks, now>> /\ ~Pushing'
    BY <1>1 DEF InitLoad, Pushing
  <2>2. \A k \in DOMAIN cache' : Earliest(cache'[k]) <= k
    <3>1. CASE cache' = Empty
      BY <3>1 DEF Empty
    <3>2. ASSUME NEW c \in Loaded(Checking), cache' = c
          PROVE  \A k \in DOMAIN cache' : Earliest(cache'[k]) <= k
      <4>1. Checking \subseteq Tasks
        BY DEF Checking
      <4>2. \A k \in DOMAIN c : c[k] \in Checking /\ triggertime[c[k]] = k
        BY <4>1, LoadIsCache DEF TypeInv
      <4> QED
        BY <3>2, <4>2 DEF TimeInv
    <3> QED
      BY <1>1, <3>1, <3>2 DEF InitLoad
  <2> QED
    BY <2>1, <2>2, TimeKept DEF Checking
<1>2. CASE LoadInitTasks
  <2>1. /\ UNCHANGED <<taskdb, triggertime, now, cache>> /\ ~Pushing'
        /\ \A t \in initTasks' : taskdb[t] = "INIT"
    BY <1>2 DEF LoadInitTasks, Read, Pushing
  <2> QED
    BY <2>1, TimeKept DEF Checking
<1>3. ASSUME NEW t \in Tasks, ReleaseInit(t) PROVE TimeInv'
  <2>1. /\ SaveOneTask(t, "ACTIVE") /\ UNCHANGED <<triggertime, now, cache>>
        /\ hand' = t /\ initTasks' \subseteq initTasks
        /\ Earliest(t) < now
    BY <1>3 DEF ReleaseInit, Visit, TimeHasCome, Earliest
  <2>2. /\ Checking' \subseteq Checking
        /\ \A u \in Tasks : taskdb'[u] = "INIT" => taskdb[u] = "INIT"
    BY <2>1, SaveTime
  <2> QED
    BY <2>1, <2>2, TimeKept
<1>4. ASSUME NEW t \in Tasks, ParkInit(t) PROVE TimeInv'
  <2> DEFINE k == now + Delta + Delay[ProjectOf[t]]
  <2>1. Lunch[t] <= now
    BY <1>4 DEF ParkInit, Visit, TimeInv
  <2>2. k \in Nat /\ Earliest(t) + TicksPerSecond <= k
    <3>1. now \in Nat /\ Lunch[t] \in Nat /\ Delay[ProjectOf[t]] \in Nat
      BY EarliestTyped, Consts DEF TypeInv, TypeOK
    <3> QED
      BY <2>1, <3>1, Consts DEF Earliest
  <2>3. /\ SaveChecking(t, k) /\ cache' = PutCache(cache, k, t)
        /\ initTasks' \subseteq initTasks /\ UNCHANGED <<now, hand, pc>>
    BY <1>4 DEF ParkInit, Park, Visit
  <2> HIDE DEF k
  <2>4. \A x \in DOMAIN cache' :
          \/ x \in DOMAIN cache /\ cache'[x] = cache[x]
          \/ x = k /\ cache'[x] = t
    <3>1. IsCache(cache) /\ k \in Nat
      BY <2>2, CacheTyped
    <3>2. /\ DOMAIN PutCache(cache, k, t) = DOMAIN cache \cup {k}
          /\ PutCache(cache, k, t)[k] = t
          /\ \A x \in DOMAIN cache :
               x # k => PutCache(cache, k, t)[x] = cache[x]
      BY <3>1, PutIsCache
    <3> QED
      BY <2>3, <3>2
  <2>5. /\ Earliest(t) <= k
        /\ \A u \in Checking' :
             \/ u \in Checking /\ triggertime'[u] = triggertime[u]
             \/ Earliest(u) <= triggertime'[u]
        /\ \A u \in Tasks : taskdb'[u] = "INIT" => taskdb[u] = "INIT"
    BY <2>2, <2>3, ParkTime
  <2> QED
    BY <2>3, <2>4, <2>5, TimeKept DEF Pushing
<1>5. ASSUME NEW t \in Tasks, ReleaseChecked(t) PROVE TimeInv'
  <2>1. /\ SaveOneTask(t, "ACTIVE")
        /\ UNCHANGED <<triggertime, now, cache, initTasks>> /\ hand' = t
    BY <1>5 DEF ReleaseChecked
  <2>2. /\ Checking' \subseteq Checking
        /\ \A u \in Tasks : taskdb'[u] = "INIT" => taskdb[u] = "INIT"
    BY <2>1, SaveTime
  <2>3. /\ FirstKey(cache) \in DOMAIN cache /\ cache[FirstKey(cache)] = t
        /\ FirstKey(cache) \in Nat /\ FirstKey(cache) < now
    BY <1>5, DueKey DEF ReleaseChecked
  <2>4. Earliest(t) < now
    BY <2>3, EarliestTyped DEF TimeInv, TypeInv, TypeOK
  <2> QED
    BY <2>1, <2>2, <2>4, TimeKept
<1>6. ASSUME NEW t \in Tasks, ParkAgain(t) PROVE TimeInv'
  <2> DEFINE k == now + Delta
  <2>1. /\ FirstKey(cache) \in DOMAIN cache /\ cache[FirstKey(cache)] = t
        /\ FirstKey(cache) \in Nat /\ FirstKey(cache) < now
    BY <1>6, DueKey DEF ParkAgain
  <2>2. k \in Nat /\ Earliest(t) + TicksPerSecond <= k
    BY <2>1, EarliestTyped, Consts, SMTT(30) DEF TimeInv, TypeInv, TypeOK
  <2>3. /\ SaveChecking(t, k) /\ cache' = PutCache(PollFirst(cache), k, t)
        /\ UNCHANGED <<now, hand, pc, initTasks>>
    BY <1>6 DEF ParkAgain, Park
  <2> HIDE DEF k
  <2>4. /\ IsCache(PollFirst(cache))
        /\ \A x \in DOMAIN PollFirst(cache) :
             x \in DOMAIN cache /\ PollFirst(cache)[x] = cache[x]
    BY PollIsCache, CacheTyped
  <2>5. \A x \in DOMAIN cache' :
          \/ x \in DOMAIN cache /\ cache'[x] = cache[x]
          \/ x = k /\ cache'[x] = t
    <3>1. /\ DOMAIN cache' = DOMAIN PollFirst(cache) \cup {k} /\ cache'[k] = t
          /\ \A x \in DOMAIN PollFirst(cache) :
               x # k => cache'[x] = PollFirst(cache)[x]
      BY <2>2, <2>3, <2>4, PutIsCache
    <3> QED
      BY <2>4, <3>1
  <2>6. /\ Earliest(t) <= k
        /\ \A u \in Checking' :
             \/ u \in Checking /\ triggertime'[u] = triggertime[u]
             \/ Earliest(u) <= triggertime'[u]
        /\ \A u \in Tasks : taskdb'[u] = "INIT" => taskdb[u] = "INIT"
    BY <2>2, <2>3, ParkTime
  <2> QED
    BY <2>3, <2>5, <2>6, TimeKept DEF Pushing
<1>7. ASSUME NEW t \in Tasks, Drop(t) PROVE TimeInv'
  <2>1. /\ \E s \in {"IGNORED", "STOP", "DELETE"} : SaveOneTask(t, s)
        /\ cache' = PollFirst(cache)
        /\ UNCHANGED <<now, hand, pc, initTasks, triggertime>>
    BY <1>7 DEF Drop
  <2>2. /\ Checking' \subseteq Checking
        /\ \A u \in Tasks : taskdb'[u] = "INIT" => taskdb[u] = "INIT"
    BY <2>1, SaveTime
  <2>3. \A x \in DOMAIN cache' : x \in DOMAIN cache /\ cache'[x] = cache[x]
    BY <2>1, PollIsCache, CacheTyped
  <2> QED
    BY <2>1, <2>2, <2>3, TimeKept DEF Pushing
<1>8. CASE PushCache
  <2>1. /\ cache' = PollFirst(cache) /\ ~Pushing'
        /\ UNCHANGED <<now, initTasks, taskdb, triggertime>>
    BY <1>8 DEF PushCache, Pushing
  <2>2. \A x \in DOMAIN cache' : x \in DOMAIN cache /\ cache'[x] = cache[x]
    BY <2>1, PollIsCache, CacheTyped
  <2> QED
    BY <2>1, <2>2, TimeKept DEF Checking
<1>9. ASSUME NEW t \in Tasks, Create(t) PROVE TimeInv'
  <2>1. /\ taskdb' = [taskdb EXCEPT ![t] = "INIT"] /\ Lunch[t] <= now
        /\ UNCHANGED <<now, hand, pc, initTasks, cache, triggertime>>
    BY <1>9 DEF Create, memory
  <2>2. /\ Checking' \subseteq Checking
        /\ \A u \in Tasks : taskdb'[u] = "INIT" => taskdb[u] = "INIT" \/ u = t
    BY <2>1 DEF Checking, TypeInv, TypeOK
  <2> QED
    BY <2>1, <2>2, TimeKept DEF Pushing
<1>10. ASSUME NEW t \in Tasks, Pass(t) PROVE TimeInv'
  <2>1. /\ taskdb' = [taskdb EXCEPT ![t] = "PASSED"]
        /\ UNCHANGED <<now, hand, pc, initTasks, cache, triggertime>>
    BY <1>10 DEF Pass, memory
  <2>2. /\ Checking' \subseteq Checking
        /\ \A u \in Tasks : taskdb'[u] = "INIT" => taskdb[u] = "INIT"
    BY <2>1, SaveTime
  <2> QED
    BY <2>1, <2>2, TimeKept DEF Pushing
<1>11. CASE WorkAny
  <2>1. PICK s \in {"SUCCESS", "FAIL"} : Work(s)
    BY <1>11 DEF WorkAny
  <2>2. PICK t \in Tasks : t = Head(queue).task
    BY <2>1, SMTT(30) DEF Work, TypeInv, TypeOK
  <2>3. /\ taskdb' = [taskdb EXCEPT ![t] = s]
        /\ UNCHANGED <<now, hand, pc, initTasks, cache, triggertime>>
    BY <2>1, <2>2 DEF Work, memory
  <2>4. /\ Checking' \subseteq Checking
        /\ \A u \in Tasks : taskdb'[u] = "INIT" => taskdb[u] = "INIT"
    BY <2>3, SaveTime
  <2> QED
    BY <2>3, <2>4, TimeKept DEF Pushing
<1>12. CASE Crash
  <2>1. /\ UNCHANGED <<now, taskdb, triggertime>> /\ ~Pushing'
        /\ cache' = Empty /\ initTasks' = {}
    BY <1>12 DEF Crash, Pushing, storeVars
  <2>2. DOMAIN cache' = {}
    BY <2>1 DEF Empty
  <2> QED
    BY <2>1, <2>2, TimeKept DEF Checking
<1>13. ASSUME UNCHANGED <<taskdb, triggertime, cache>>,
              now' = now \/ now' = now + 1, initTasks' \subseteq initTasks,
              Pushing' => Pushing /\ hand' = hand
       PROVE  TimeInv'
  BY <1>13, TimeKept DEF Checking
<1>14. ASSUME \/ LoadProjects \/ LoadSuccessOrPassed \/ PushInit \/ PushThrows
              \/ InitDone \/ CacheDone \/ Tick \/ UNCHANGED vars
              \/ \E t \in Tasks : Orphan(t)
              \/ \E p \in Projects, s \in Edits : UserEdit(p, s)
       PROVE  TimeInv'
  <2>1. /\ UNCHANGED <<taskdb, triggertime, cache>>
        /\ now' = now \/ now' = now + 1
    BY <1>14 DEF LoadProjects, LoadSuccessOrPassed, PushInit, PushThrows,
      InitDone, CacheDone, Tick, Orphan, UserEdit, EditProject, vars, storeVars,
      memory
  <2>2. initTasks' \subseteq initTasks
    BY <1>14 DEF LoadProjects, LoadSuccessOrPassed, PushInit, PushThrows,
      InitDone, CacheDone, Tick, Orphan, Visit, UserEdit, vars, memory
  <2>3. Pushing' => Pushing /\ hand' = hand
    BY <1>14 DEF LoadProjects, LoadSuccessOrPassed, PushInit, PushThrows,
      InitDone, CacheDone, Tick, Orphan, UserEdit, vars, memory, Pushing
  <2> QED
    BY <2>1, <2>2, <2>3, <1>13
<1> QED
  BY <1>1, <1>2, <1>3, <1>4, <1>5, <1>6, <1>7, <1>8, <1>9, <1>10, <1>11, <1>12,
    <1>14 DEF Next, Execute

\* At first nothing is planned.
LEMMA TimeInit == Init => TimeInv
BY DEF Init, TimeInv, Empty, Checking, Pushing

\* Only the push of the task in hand counts.
LEMMA PushesHand ==
  ASSUME TypeInv, [Next]_vars, NEW t \in Tasks, Pushes(t)
  PROVE  Pushing /\ t = hand /\ UNCHANGED now
<1>1. CASE PushInit \/ PushCache
  <2>1. PushHand /\ Pushing /\ UNCHANGED now
    BY <1>1 DEF PushInit, PushCache, Pushing
  <2>2. t = hand
    BY <2>1 DEF PushHand, Pushes, TypeInv, TypeOK
  <2> QED
    BY <2>1, <2>2
<1>2. CASE UNCHANGED pushed
  BY <1>2 DEF Pushes
<1> QED
  BY <1>1, <1>2 DEF Next, Execute, InitLoad, LoadProjects, LoadInitTasks,
    LoadSuccessOrPassed, Orphan, ReleaseInit, ParkInit, PushThrows, InitDone,
    ReleaseChecked, ParkAgain, Drop, CacheDone, Crash, Tick, WorkAny, Work,
    Create, Pass, UserEdit, vars, history

\* Whatever statements fail, and across restarts: no task is pushed before its
\* lunchtime and the delay of its project are over.
THEOREM DelayRespected == Spec => NotBeforeDelay
<1>1. TypeInv /\ TimeInv /\ [Next]_vars =>
        [\A t \in Tasks : Pushes(t) => now > Lunch[t] + Delay[ProjectOf[t]]]_vars
  <2> SUFFICES ASSUME TypeInv, TimeInv, [Next]_vars, NEW t \in Tasks, Pushes(t)
               PROVE  now > Lunch[t] + Delay[ProjectOf[t]]
    OBVIOUS
  <2>1. Pushing /\ t = hand
    BY PushesHand
  <2>2. Earliest(t) < now
    BY <2>1 DEF TimeInv
  <2> QED
    BY <2>2, EarliestTyped DEF Earliest, TypeInv, TypeOK
<1>2. Spec => [](TypeInv /\ TimeInv)
  BY TypingInit, Typing, TimeInit, TimeStep, PTL DEF Spec
<1> QED
  BY <1>1, <1>2, PTL DEF Spec, NotBeforeDelay

-----------------------------------------------------------------------------
(* Without failed statements *)

\* With no failure allowed, none happens.
LEMMA NoFaults ==
  ASSUME MaxFaults = 0, TypeInv
  PROVE  /\ ~Fault
         /\ \A t \in Tasks : \A s :
              SaveOneTask(t, s) => taskdb' = [taskdb EXCEPT ![t] = s]
         /\ \A t \in Tasks : \A k :
              SaveChecking(t, k) => taskdb' = [taskdb EXCEPT ![t] = "CHECKING"]
<1>1. ~Fault
  BY DEF Fault, TypeInv, TypeOK
<1> QED
  BY <1>1 DEF SaveOneTask, SaveChecking

\* Steps that leave the queue alone, and change rows that have no message.
LEMMA QueueKept ==
  ASSUME QueueInv, UNCHANGED <<queue, crashes>>,
         \A u : u = hand' /\ Pushing' => ~QueuedTask(u),
         \A u \in Tasks :
           \/ taskdb'[u] = taskdb[u]
           \/ ~QueuedTask(u) /\ (taskdb'[u] = "ACTIVE" => u = hand'),
         \A u \in Tasks : u = hand => u = hand'
  PROVE  QueueInv'
<1>1. \A u : QueuedTask(u)' <=> QueuedTask(u)
  BY DEF QueuedTask
<1>2. Pushing' => ~QueuedTask(hand)'
  BY <1>1
<1>3. \A u \in Tasks : QueuedTask(u)' => taskdb'[u] = "ACTIVE"
  BY <1>1 DEF QueueInv
<1>4. Distinct'
  BY DEF QueueInv, Distinct
<1>5. ReleasedIsQueued'
  BY DEF QueueInv, ReleasedIsQueued, QueuedTask
<1> QED
  BY <1>2, <1>3, <1>4, <1>5 DEF QueueInv

\* Steps that touch no row, message, entry or task in hand.
LEMMA PlainSame ==
  ASSUME CoreInv, UNCHANGED <<taskdb, queue, cache, hand, pushed, lost, crashes>>,
         pc' = pc \/ {pc, pc'} \cap {"down", "pushInit", "pushCache"} = {},
         \A t \in initTasks' : t \in initTasks \/ taskdb[t] = "INIT",
         \A t \in okTasks' : t \in okTasks \/ taskdb[t] \in OkStatus,
         Pushing => UNCHANGED <<projectMap, okTasks>>
  PROVE  Keeps
<1>1. Pushing' <=> Pushing
  BY DEF Pushing
<1>2. \A k \in DOMAIN cache : Released(k)' <=> Released(k)
  BY DEF Released
<1>3. \A t \in Tasks : QueuedTask(t)' <=> QueuedTask(t)
  BY DEF QueuedTask
<1>4. RowInv'
  BY <1>1, <1>2, <1>3 DEF CoreInv, RowInv
<1>5. CheckInv => CheckInv'
  BY <1>1 DEF CoreInv, CheckInv, CheckTask, Required
<1>6. PushInv'
  BY DEF CoreInv, PushInv, PushedOnce
<1>7. CacheInv'
  BY DEF CoreInv, CacheInv, Checking, Cached
<1>8. QueueInv => QueueInv'
  BY <1>1, QueueKept DEF QueueInv
<1> QED
  BY <1>4, <1>5, <1>6, <1>7, <1>8 DEF CoreInv, Keeps

\* initLoad reads the CHECKING rows into the cache, one entry for each time.
LEMMA PlainLoad ==
  ASSUME MaxFaults = 0, TypeInv, CoreInv, InitLoad
  PROVE  Keeps
<1> USE DEF TypeInv
<1>1. PICK c \in Loaded(Checking) :
        cache' = c /\ lost' = lost \cup (Checking \ {c[k] : k \in DOMAIN c})
  BY NoFaults DEF InitLoad
<1>2. UNCHANGED <<taskdb, queue, hand, pushed, crashes, initTasks, okTasks>>
      /\ ~Pushing /\ ~Pushing' /\ pc' = "idle"
  BY DEF InitLoad, Pushing
<1>3. \A k \in DOMAIN cache' :
        cache'[k] \in Checking /\ triggertime[cache'[k]] = k
  <2>1. Checking \subseteq Tasks
    BY DEF Checking
  <2> QED
    BY <1>1, <2>1, LoadIsCache
<1>4. RowInv'
  BY <1>2, <1>3 DEF CoreInv, RowInv, Checking
<1>5. (CheckInv => CheckInv') /\ PushInv'
  BY <1>2 DEF CoreInv, CheckInv, PushInv, PushedOnce
<1>6. CacheInv'
  BY <1>1, <1>2 DEF CacheInv, Cached, Checking
<1>7. QueueInv => QueueInv'
  BY <1>2, QueueKept
<1> QED
  BY <1>4, <1>5, <1>6, <1>7 DEF CoreInv, Keeps

\* An INIT task is released: nothing else knows of it.
LEMMA PlainReleaseInit ==
  ASSUME MaxFaults = 0, TypeInv, CoreInv, NEW t \in Tasks, ReleaseInit(t)
  PROVE  Keeps
<1> USE DEF TypeInv
<1>1. /\ taskdb' = [taskdb EXCEPT ![t] = "ACTIVE"]
      /\ UNCHANGED <<queue, cache, pushed, lost, crashes, okTasks, projectMap>>
      /\ hand' = t /\ initTasks' = initTasks \ {t} /\ t \in initTasks
      /\ CheckTask(t) /\ pc = "init" /\ pc' = "pushInit"
  BY NoFaults DEF ReleaseInit, Visit, history
<1>2. /\ taskdb[t] = "INIT" /\ taskdb'[t] = "ACTIVE"
      /\ \A u \in Tasks : u # t => taskdb'[u] = taskdb[u]
  BY <1>1 DEF CoreInv, RowInv, TypeOK
<1>3. /\ ~Pushing /\ hand = NoTask
      /\ \A k \in DOMAIN cache : ~Released(k) /\ ~Released(k)'
  BY <1>1 DEF Pushing, Released, FormInv
<1>4. \A u \in Tasks : QueuedTask(u)' <=> QueuedTask(u)
  BY <1>1 DEF QueuedTask
<1>5. RowInv'
  <2>1. \A u \in initTasks' : taskdb'[u] = "INIT"
    BY <1>1, <1>2 DEF CoreInv, RowInv, TypeOK
  <2>2. \A k \in DOMAIN cache : taskdb'[cache[k]] = "CHECKING"
    BY <1>2, <1>3 DEF CoreInv, RowInv, TypeOK
  <2> QED
    BY <1>1, <1>2, <1>4, <2>1, <2>2 DEF CoreInv, RowInv
<1>6. CheckInv => CheckInv'
  BY <1>1, <1>2 DEF CoreInv, CheckInv, CheckTask, Required, OkStatus, TypeOK
<1>7. PushInv'
  BY <1>1, <1>2 DEF CoreInv, PushInv, PushedOnce
<1>8. CacheInv'
  BY <1>1, <1>2 DEF CoreInv, CacheInv, Checking, Cached
<1>9. QueueInv => QueueInv'
  <2> SUFFICES ASSUME QueueInv PROVE QueueInv'
    OBVIOUS
  <2>1. ~QueuedTask(t)
    BY <1>2 DEF QueueInv
  <2> QED
    BY <1>1, <1>2, <1>3, <2>1, Consts, QueueKept
<1> QED
  BY <1>5, <1>6, <1>7, <1>8, <1>9 DEF CoreInv, Keeps

\* The push brings the task in hand into the queue; the entry it came from, if
\* any, leaves the cache.
LEMMA PlainPush ==
  ASSUME MaxFaults = 0, TypeInv, CoreInv, PushInit \/ PushCache
  PROVE  Keeps
<1> USE DEF TypeInv
<1> DEFINE m == [task |-> hand, retry |-> 0]
<1>1. /\ UNCHANGED <<taskdb, lost, crashes, okTasks, initTasks>>
      /\ queue' = Append(queue, m) /\ pushed' = [pushed EXCEPT ![hand] = @ + 1]
      /\ hand' = NoTask /\ Pushing /\ ~Pushing' /\ pc' # "down" /\ pc # "down"
  BY NoFaults DEF PushInit, PushCache, PushHand, Push, Pushing
<1>2. hand \in Tasks /\ m.task = hand
  BY <1>1 DEF FormInv, TypeOK
<1> HIDE DEF m
<1>3. \A k \in DOMAIN cache' : k \in DOMAIN cache /\ cache'[k] = cache[k]
                               /\ ~Released(k) /\ ~Released(k)'
  <2>1. CASE PushInit
    BY <2>1 DEF PushInit, Released
  <2>2. CASE PushCache
    BY <2>2, PollIsCache, CacheTyped DEF PushCache, Released
  <2> QED
    BY <2>1, <2>2
<1>4. \A k \in DOMAIN cache : k \in DOMAIN cache' \/ cache[k] = hand
  <2>1. CASE PushInit
    BY <2>1 DEF PushInit
  <2>2. CASE PushCache
    <3>1. /\ cache' = PollFirst(cache)
          /\ DOMAIN PollFirst(cache) = DOMAIN cache \ {FirstKey(cache)}
      BY <2>2, PollIsCache, CacheTyped DEF PushCache
    <3>2. cache[FirstKey(cache)] = hand
      BY <2>2, PushKey DEF PushCache
    <3> QED
      BY <3>1, <3>2
  <2> QED
    BY <2>1, <2>2
<1>5. /\ queue \in Seq([task : Tasks, retry : Nat]) /\ Len(queue) \in Nat
      /\ Len(queue') = Len(queue) + 1
      /\ \A i \in 1..Len(queue) : queue'[i] = queue[i]
      /\ queue'[Len(queue) + 1] = m
  BY <1>1 DEF TypeOK
<1>6. \A u \in Tasks : QueuedTask(u)' <=> QueuedTask(u) \/ u = hand
  <2>1. 1..Len(queue') = 1..Len(queue) \cup {Len(queue) + 1}
    BY <1>5
  <2>2. \A u : QueuedTask(u)' => QueuedTask(u) \/ u = hand
    BY <1>2, <1>5, <2>1 DEF QueuedTask
  <2>3. \A u : QueuedTask(u) => QueuedTask(u)'
    BY <1>5, <2>1 DEF QueuedTask
  <2>4. \A u : u = hand => QueuedTask(u)'
    BY <1>2, <1>5, <2>1 DEF QueuedTask
  <2> QED
    BY <2>2, <2>3, <2>4
<1>7. taskdb[hand] = "ACTIVE"
  BY <1>1 DEF CoreInv, RowInv
<1>8. RowInv'
  BY <1>1, <1>3, <1>7 DEF CoreInv, RowInv
<1>9. CheckInv => CheckInv'
  BY <1>1 DEF CheckInv
<1>10. PushInv'
  <2>1. pushed'[hand] = 1 /\ \A u \in Tasks : u # hand => pushed'[u] = pushed[u]
    BY <1>1, <1>2 DEF CoreInv, PushInv, TypeOK
  <2> QED
    BY <1>1, <1>7, <2>1, Consts DEF CoreInv, PushInv, PushedOnce
<1>11. CacheInv'
  BY <1>1, <1>3, <1>4, <1>7 DEF CoreInv, CacheInv, Checking, Cached
<1>12. QueueInv => QueueInv'
  <2> SUFFICES ASSUME QueueInv PROVE QueueInv'
    OBVIOUS
  <2>1. ~QueuedTask(hand) /\ Distinct
    BY <1>1 DEF QueueInv
  <2>2. Distinct'
    BY <1>2, <1>5, <2>1 DEF Distinct, QueuedTask
  <2>3. \A u \in Tasks : QueuedTask(u)' => taskdb'[u] = "ACTIVE"
    BY <1>1, <1>6, <1>7 DEF QueueInv
  <2>4. \A u \in Tasks : (u = hand \/ QueuedTask(u)) => QueuedTask(u)'
    BY <1>6
  <2>5. ReleasedIsQueued'
    BY <1>1, <2>4 DEF QueueInv, ReleasedIsQueued, QueuedTask
  <2> QED
    BY <1>1, <2>2, <2>3, <2>5 DEF QueueInv
<1> QED
  BY <1>8, <1>9, <1>10, <1>11, <1>12 DEF CoreInv, Keeps

\* An INIT task is parked under a key of its own or throws another one out.
LEMMA PlainParkInit ==
  ASSUME MaxFaults = 0, TypeInv, CoreInv, NEW t \in Tasks, ParkInit(t)
  PROVE  Keeps
<1> USE DEF TypeInv
<1> DEFINE k == now + Delta + Delay[ProjectOf[t]]
<1>1. /\ taskdb' = [taskdb EXCEPT ![t] = "CHECKING"]
      /\ cache' = PutCache(cache, k, t)
      /\ lost' = lost \cup Replaced(cache, k, t)
      /\ UNCHANGED <<queue, pushed, crashes, okTasks, projectMap, hand, pc>>
      /\ initTasks' = initTasks \ {t} /\ t \in initTasks /\ pc = "init"
  BY NoFaults DEF ParkInit, Visit, Park
<1>2. /\ taskdb[t] = "INIT" /\ taskdb'[t] = "CHECKING"
      /\ \A u \in Tasks : u # t => taskdb'[u] = taskdb[u]
  BY <1>1 DEF CoreInv, RowInv, TypeOK
<1>3. ~Pushing /\ ~Pushing' /\ hand = NoTask /\ \A j : ~Released(j) /\ ~Released(j)'
  BY <1>1 DEF Pushing, Released, FormInv
<1>4. k \in Nat
  BY Consts DEF TypeOK
<1> HIDE DEF k
<1>5. /\ DOMAIN cache' = DOMAIN cache \cup {k} /\ cache'[k] = t
      /\ \A x \in DOMAIN cache : x # k => cache'[x] = cache[x]
  <2>1. /\ DOMAIN PutCache(cache, k, t) = DOMAIN cache \cup {k}
        /\ PutCache(cache, k, t)[k] = t
        /\ \A x \in DOMAIN cache : x # k => PutCache(cache, k, t)[x] = cache[x]
    BY <1>4, PutIsCache, CacheTyped
  <2> QED
    BY <1>1, <2>1
<1>6. \A u : QueuedTask(u)' <=> QueuedTask(u)
  BY <1>1 DEF QueuedTask
<1>7. \A x \in DOMAIN cache : cache[x] # t /\ taskdb'[cache[x]] = "CHECKING"
  BY <1>2, <1>3 DEF CoreInv, RowInv, TypeOK
<1>8. RowInv'
  <2>1. \A u \in initTasks' : taskdb'[u] = "INIT"
    BY <1>1, <1>2 DEF CoreInv, RowInv, TypeOK
  <2>2. \A x \in DOMAIN cache' : taskdb'[cache'[x]] = "CHECKING"
    BY <1>2, <1>5, <1>7
  <2>3. \A x, y \in DOMAIN cache' : cache'[x] = cache'[y] => x = y
    BY <1>5, <1>7 DEF CoreInv, RowInv
  <2> QED
    BY <1>1, <1>2, <1>3, <1>6, <2>1, <2>2, <2>3 DEF CoreInv, RowInv
<1>9. CheckInv => CheckInv'
  BY <1>1, <1>2, <1>3 DEF CoreInv, CheckInv, OkStatus, TypeOK
<1>10. PushInv'
  BY <1>1, <1>2, <1>3 DEF CoreInv, PushInv, PushedOnce
<1>11. CacheInv'
  <2>1. \A x \in DOMAIN cache : x # k \/ cache[x] \in Replaced(cache, k, t)
    BY <1>7 DEF Replaced
  <2> QED
    BY <1>1, <1>2, <1>5, <2>1 DEF CoreInv, CacheInv, Checking, Cached
<1>12. QueueInv => QueueInv'
  <2> SUFFICES ASSUME QueueInv PROVE QueueInv'
    OBVIOUS
  <2>1. ~QueuedTask(t)
    BY <1>2 DEF QueueInv
  <2> QED
    BY <1>1, <1>2, <1>3, <2>1, QueueKept
<1> QED
  BY <1>8, <1>9, <1>10, <1>11, <1>12 DEF CoreInv, Keeps

\* A due task whose dependences are met is released; its entry stays till the
\* push, and no other entry is of that task.
LEMMA PlainReleaseChecked ==
  ASSUME MaxFaults = 0, TypeInv, CoreInv, NEW t \in Tasks, ReleaseChecked(t)
  PROVE  Keeps
<1> USE DEF TypeInv
<1>1. /\ taskdb' = [taskdb EXCEPT ![t] = "ACTIVE"]
      /\ UNCHANGED <<queue, cache, pushed, lost, crashes, okTasks, projectMap,
                     initTasks>>
      /\ hand' = t /\ CheckTask(t) /\ pc = "cache" /\ pc' = "pushCache"
      /\ FirstDue /\ cache[FirstKey(cache)] = t
  BY NoFaults DEF ReleaseChecked, Check, history
<1>2. ~Pushing /\ hand = NoTask /\ \A j : ~Released(j)
  BY <1>1 DEF Pushing, Released, FormInv
<1>3. FirstKey(cache) \in DOMAIN cache
  BY DueKey DEF ReleaseChecked
<1>4. /\ taskdb[t] = "CHECKING" /\ taskdb'[t] = "ACTIVE"
      /\ \A u \in Tasks : u # t => taskdb'[u] = taskdb[u]
  BY <1>1, <1>2, <1>3 DEF CoreInv, RowInv, TypeOK
<1>5. \A u : QueuedTask(u)' <=> QueuedTask(u)
  BY <1>1 DEF QueuedTask
<1>6. \A j : Released(j)' <=> j = FirstKey(cache)
  BY <1>1 DEF Released
<1>7. RowInv'
  <2>1. \A u \in initTasks : taskdb'[u] = "INIT"
    BY <1>4 DEF CoreInv, RowInv, TypeOK
  <2>2. \A j \in DOMAIN cache : j # FirstKey(cache) => taskdb'[cache[j]] = "CHECKING"
    BY <1>1, <1>2, <1>3, <1>4 DEF CoreInv, RowInv, TypeOK
  <2> QED
    BY <1>1, <1>4, <1>5, <1>6, <2>1, <2>2 DEF CoreInv, RowInv
<1>8. CheckInv => CheckInv'
  BY <1>1, <1>4 DEF CoreInv, CheckInv, CheckTask, Required, OkStatus, TypeOK
<1>9. PushInv'
  BY <1>1, <1>4 DEF CoreInv, PushInv, PushedOnce
<1>10. CacheInv'
  BY <1>1, <1>4 DEF CoreInv, CacheInv, Checking, Cached
<1>11. QueueInv => QueueInv'
  <2> SUFFICES ASSUME QueueInv PROVE QueueInv'
    OBVIOUS
  <2>1. ~QueuedTask(t)
    BY <1>4 DEF QueueInv
  <2> QED
    BY <1>1, <1>2, <1>4, <2>1, Consts, QueueKept
<1> QED
  BY <1>7, <1>8, <1>9, <1>10, <1>11 DEF CoreInv, Keeps

\* A task that is not to be released yet is parked under another key.
LEMMA PlainParkAgain ==
  ASSUME MaxFaults = 0, TypeInv, CoreInv, NEW t \in Tasks, ParkAgain(t)
  PROVE  Keeps
<1> USE DEF TypeInv
<1> DEFINE k == now + Delta
           c == PollFirst(cache)
<1>1. /\ taskdb' = [taskdb EXCEPT ![t] = "CHECKING"]
      /\ cache' = PutCache(c, k, t) /\ lost' = lost \cup Replaced(c, k, t)
      /\ UNCHANGED <<queue, pushed, crashes, okTasks, projectMap, initTasks,
                     hand, pc>>
      /\ pc = "cache" /\ FirstDue /\ cache[FirstKey(cache)] = t
  BY NoFaults DEF ParkAgain, Park, Check
<1>2. ~Pushing /\ ~Pushing' /\ hand = NoTask /\ \A j : ~Released(j) /\ ~Released(j)'
  BY <1>1 DEF Pushing, Released, FormInv
<1>3. FirstKey(cache) \in DOMAIN cache
  BY DueKey DEF ParkAgain
<1>4. taskdb[t] = "CHECKING" /\ taskdb' = taskdb
  BY <1>1, <1>2, <1>3 DEF CoreInv, RowInv, TypeOK
<1>5. k \in Nat
  BY Consts DEF TypeOK
<1>6. /\ IsCache(c) /\ DOMAIN c = DOMAIN cache \ {FirstKey(cache)}
      /\ \A x \in DOMAIN c : c[x] = cache[x] /\ c[x] # t
  <2>1. /\ IsCache(c) /\ DOMAIN c = DOMAIN cache \ {FirstKey(cache)}
        /\ \A x \in DOMAIN c : c[x] = cache[x]
    BY PollIsCache, CacheTyped
  <2>2. \A x \in DOMAIN cache : x # FirstKey(cache) => cache[x] # t
    BY <1>1, <1>3 DEF CoreInv, RowInv
  <2> QED
    BY <2>1, <2>2
<1> HIDE DEF k, c
<1>7. /\ DOMAIN cache' = DOMAIN c \cup {k} /\ cache'[k] = t
      /\ \A x \in DOMAIN c : x # k => cache'[x] = cache[x]
  <2>1. IsCache(c)
    BY <1>6
  <2>2. /\ DOMAIN PutCache(c, k, t) = DOMAIN c \cup {k}
        /\ PutCache(c, k, t)[k] = t
        /\ \A x \in DOMAIN c : x # k => PutCache(c, k, t)[x] = c[x]
    BY <1>5, <2>1 DEF PutCache, IsCache
  <2> QED
    BY <1>1, <1>6, <2>2
<1>8. \A u : QueuedTask(u)' <=> QueuedTask(u)
  BY <1>1 DEF QueuedTask
<1>9. RowInv'
  <2>1. \A x \in DOMAIN cache' : taskdb'[cache'[x]] = "CHECKING"
    <3>1. \A x \in DOMAIN cache : taskdb[cache[x]] = "CHECKING"
      BY <1>2 DEF CoreInv, RowInv
    <3> QED
      BY <1>4, <1>6, <1>7, <3>1
  <2>2. \A x, y \in DOMAIN cache' : cache'[x] = cache'[y] => x = y
    <3>1. \A x, y \in DOMAIN cache : cache[x] = cache[y] => x = y
      BY DEF CoreInv, RowInv
    <3> QED
      BY <1>6, <1>7, <3>1
  <2> QED
    BY <1>1, <1>2, <1>4, <1>8, <2>1, <2>2 DEF CoreInv, RowInv
<1>10. CheckInv => CheckInv'
  BY <1>1, <1>2, <1>4 DEF CoreInv, CheckInv
<1>11. PushInv'
  BY <1>1, <1>4 DEF CoreInv, PushInv, PushedOnce
<1>12. CacheInv'
  <2>1. \A x \in DOMAIN c : x # k \/ cache[x] \in Replaced(c, k, t)
    BY <1>6 DEF Replaced
  <2>2. \A u \in Checking : Cached(u) \/ u \in lost
    BY <1>1 DEF CoreInv, CacheInv
  <2>3. \A u : Cached(u) => Cached(u)' \/ u \in lost'
    BY <1>1, <1>3, <1>6, <1>7, <2>1 DEF Cached
  <2>4. lost \subseteq lost'
    BY <1>1
  <2> QED
    BY <1>4, <2>2, <2>3, <2>4 DEF CacheInv, Checking
<1>13. QueueInv => QueueInv'
  BY <1>1, <1>2, <1>4, QueueKept
<1> QED
  BY <1>9, <1>10, <1>11, <1>12, <1>13 DEF CoreInv, Keeps

\* A task that is given up leaves the cache.
LEMMA PlainDrop ==
  ASSUME MaxFaults = 0, TypeInv, CoreInv, NEW t \in Tasks, Drop(t)
  PROVE  Keeps
<1> USE DEF TypeInv
<1>1. PICK s \in {"IGNORED", "STOP", "DELETE"} : taskdb' = [taskdb EXCEPT ![t] = s]
  BY NoFaults DEF Drop
<1>2. /\ cache' = PollFirst(cache)
      /\ UNCHANGED <<queue, pushed, lost, crashes, okTasks, projectMap,
                     initTasks, hand, pc>>
      /\ pc = "cache" /\ FirstDue /\ cache[FirstKey(cache)] = t
  BY DEF Drop, Check, history
<1>3. ~Pushing /\ ~Pushing' /\ hand = NoTask /\ \A j : ~Released(j) /\ ~Released(j)'
  BY <1>2 DEF Pushing, Released, FormInv
<1>4. FirstKey(cache) \in DOMAIN cache
  BY DueKey DEF Drop
<1>5. /\ taskdb[t] = "CHECKING" /\ taskdb'[t] = s
      /\ \A u \in Tasks : u # t => taskdb'[u] = taskdb[u]
  BY <1>1, <1>2, <1>3, <1>4 DEF CoreInv, RowInv, TypeOK
<1>6. /\ DOMAIN cache' = DOMAIN cache \ {FirstKey(cache)}
      /\ \A x \in DOMAIN cache' : cache'[x] = cache[x]
  <2>1. /\ DOMAIN PollFirst(cache) = DOMAIN cache \ {FirstKey(cache)}
        /\ \A x \in DOMAIN PollFirst(cache) : PollFirst(cache)[x] = cache[x]
    BY PollIsCache, CacheTyped
  <2> QED
    BY <1>2, <2>1
<1>7. \A u : QueuedTask(u)' <=> QueuedTask(u)
  BY <1>2 DEF QueuedTask
<1>8. RowInv'
  <2>1. \A u \in initTasks : taskdb'[u] = "INIT"
    BY <1>5 DEF CoreInv, RowInv, TypeOK
  <2>2. \A x \in DOMAIN cache' : taskdb'[cache'[x]] = "CHECKING"
    BY <1>2, <1>3, <1>4, <1>5, <1>6 DEF CoreInv, RowInv, TypeOK
  <2>4. \A x, y \in DOMAIN cache' : cache'[x] = cache'[y] => x = y
    BY <1>6 DEF CoreInv, RowInv
  <2> QED
    BY <1>2, <1>3, <1>5, <1>7, <2>1, <2>2, <2>4 DEF CoreInv, RowInv
<1>9. CheckInv => CheckInv'
  BY <1>2, <1>3, <1>5 DEF CoreInv, CheckInv, OkStatus, TypeOK
<1>10. PushInv'
  BY <1>2, <1>5 DEF CoreInv, PushInv, PushedOnce
<1>11. CacheInv'
  BY <1>2, <1>4, <1>5, <1>6 DEF CoreInv, CacheInv, Checking, Cached
<1>12. QueueInv => QueueInv'
  <2> SUFFICES ASSUME QueueInv PROVE QueueInv'
    OBVIOUS
  <2>1. ~QueuedTask(t)
    BY <1>5 DEF QueueInv
  <2> QED
    BY <1>2, <1>3, <1>5, <2>1, QueueKept
<1> QED
  BY <1>8, <1>9, <1>10, <1>11, <1>12 DEF CoreInv, Keeps

\* The queries, the steps over tasks there is nothing to do for, and the clock.
LEMMA PlainRest ==
  ASSUME MaxFaults = 0, TypeInv, CoreInv,
         \/ LoadProjects \/ LoadInitTasks \/ LoadSuccessOrPassed
         \/ (\E t \in Tasks : Orphan(t)) \/ InitDone \/ CacheDone \/ Tick
         \/ (\E p \in Projects, s \in Edits : UserEdit(p, s))
         \/ UNCHANGED vars
  PROVE  Keeps
<1> USE DEF TypeInv
<1>1. /\ UNCHANGED <<taskdb, queue, cache, hand, pushed, lost, crashes>>
      /\ pc' = pc \/ {pc, pc'} \cap {"down", "pushInit", "pushCache"} = {}
      /\ Pushing => UNCHANGED <<projectMap, okTasks>>
      /\ \A t \in initTasks' : t \in initTasks \/ taskdb[t] = "INIT"
      /\ \A t \in okTasks' : t \in okTasks \/ taskdb[t] \in OkStatus
  <2>1. CASE LoadProjects
    BY <2>1 DEF LoadProjects, Pushing, history
  <2>2. CASE LoadInitTasks
    BY <2>2 DEF LoadInitTasks, Read, Pushing, history
  <2>3. CASE LoadSuccessOrPassed
    BY <2>3 DEF LoadSuccessOrPassed, Read, SuccessOrPassedTasks, Pushing, history
  <2>4. CASE \E t \in Tasks : Orphan(t)
    <3>1. PICK t \in Tasks : Orphan(t)
      BY <2>4
    <3> QED
      BY <3>1 DEF Orphan, Visit, Pushing, storeVars, history
  <2>5. CASE InitDone \/ CacheDone
    BY <2>5 DEF InitDone, CacheDone, Pushing, storeVars, memory, history
  <2>6. CASE Tick
    BY <2>6 DEF Tick, Pushing, storeVars, memory, history
  <2>7. CASE \E p \in Projects, s \in Edits : UserEdit(p, s)
    <3>1. PICK p \in Projects, s \in Edits : UserEdit(p, s)
      BY <2>7
    <3> QED
      BY <3>1 DEF UserEdit, EditProject, memory, history
  <2>8. CASE UNCHANGED vars
    BY <2>8 DEF vars, storeVars, memory, history
  <2> QED
    BY <2>1, <2>2, <2>3, <2>4, <2>5, <2>6, <2>7, <2>8
<1> QED
  BY <1>1, PlainSame

\* What the others do to the rows: ProjectExecutor inserts, the user passes.
LEMMA PlainRows ==
  ASSUME MaxFaults = 0, TypeInv, CoreInv, NEW t \in Tasks, Create(t) \/ Pass(t)
  PROVE  Keeps
<1> USE DEF TypeInv
<1>1. PICK s \in {"INIT", "PASSED"} :
        /\ taskdb' = [taskdb EXCEPT ![t] = s]
        /\ s = "INIT" <=> taskdb[t] = "NONE"
        /\ taskdb[t] \in {"NONE", "FAIL"}
  BY DEF Create, Pass
<1>2. UNCHANGED <<queue, cache, hand, pushed, lost, crashes, okTasks,
                  projectMap, initTasks, pc>>
  BY DEF Create, Pass, memory, history
<1>3. taskdb'[t] = s /\ \A u \in Tasks : u # t => taskdb'[u] = taskdb[u]
  BY <1>1 DEF TypeOK
<1>4. \A u : QueuedTask(u)' <=> QueuedTask(u)
  BY <1>2 DEF QueuedTask
<1>5. /\ Pushing' <=> Pushing
      /\ \A k : Released(k)' <=> Released(k)
  BY <1>2 DEF Pushing, Released
<1>6. RowInv'
  <2>1. \A u \in initTasks : taskdb'[u] = "INIT"
    BY <1>1, <1>3 DEF CoreInv, RowInv, TypeOK
  <2>2. \A k \in DOMAIN cache : ~Released(k) => taskdb'[cache[k]] = "CHECKING"
    BY <1>1, <1>3 DEF CoreInv, RowInv, TypeOK
  <2>3. Pushing => hand # t /\ hand \in Tasks
    BY <1>1 DEF CoreInv, RowInv, TypeOK, FormInv
  <2> QED
    BY <1>2, <1>3, <1>4, <1>5, <2>1, <2>2, <2>3 DEF CoreInv, RowInv
<1>7. CheckInv => CheckInv'
  <2> SUFFICES ASSUME CheckInv PROVE CheckInv'
    OBVIOUS
  <2>1. Pushing => CheckTask(hand)'
    BY <1>2 DEF CoreInv, CheckInv, CheckTask, Required, Project
  <2>2. \A u \in okTasks : taskdb'[u] \in OkStatus
    BY <1>1, <1>3 DEF CoreInv, CheckInv, OkStatus, TypeOK
  <2> QED
    BY <1>2, <1>5, <2>1, <2>2 DEF CheckInv
<1>8. PushInv'
  <2>1. pushed[t] = 0 \/ taskdb[t] = "FAIL"
    BY <1>1 DEF CoreInv, PushInv
  <2> QED
    BY <1>1, <1>2, <1>3, <2>1 DEF CoreInv, PushInv, PushedOnce
<1>9. CacheInv'
  BY <1>1, <1>2, <1>3 DEF CoreInv, CacheInv, Checking, Cached
<1>10. QueueInv => QueueInv'
  <2> SUFFICES ASSUME QueueInv PROVE QueueInv'
    OBVIOUS
  <2>1. ~QueuedTask(t)
    BY <1>1 DEF QueueInv
  <2> QED
    BY <1>1, <1>2, <1>3, <1>5, <2>1, QueueKept DEF QueueInv
<1> QED
  BY <1>6, <1>7, <1>8, <1>9, <1>10 DEF CoreInv, Keeps

\* A worker settles the task of the head message, of which there is no other.
LEMMA PlainWork ==
  ASSUME MaxFaults = 0, TypeInv, PlainInv, NEW s \in {"SUCCESS", "FAIL"}, Work(s)
  PROVE  PlainInv'
<1> USE DEF TypeInv
<1> DEFINE t == Head(queue).task
<1>1. /\ taskdb' = [taskdb EXCEPT ![t] = s] /\ queue' = Tail(queue)
      /\ queue # <<>>
      /\ UNCHANGED <<cache, hand, pushed, lost, crashes, okTasks, projectMap,
                     initTasks, pc>>
  BY DEF Work, memory, history
<1>2. /\ Len(queue) \in Nat /\ Len(queue) # 0
      /\ Len(queue') = Len(queue) - 1
      /\ \A i \in 1..Len(queue') : i + 1 \in 1..Len(queue) /\ queue'[i] = queue[i + 1]
      /\ 1 \in 1..Len(queue) /\ t = queue[1].task /\ t \in Tasks
  <2> DEFINE M == [task : Tasks, retry : Nat]
  <2>1. queue \in Seq(M) /\ \A m \in M : m.task \in Tasks
    BY DEF TypeOK
  <2> HIDE DEF M
  <2>2. /\ Len(queue) \in Nat /\ Len(queue) # 0 /\ Len(queue') = Len(queue) - 1
        /\ \A i \in 1..Len(queue') : i + 1 \in 1..Len(queue) /\ queue'[i] = queue[i + 1]
    BY <1>1, <2>1
  <2>3. Head(queue) = queue[1] /\ 1 \in 1..Len(queue) /\ queue[1] \in M
    BY <1>1, <2>1, <2>2
  <2> QED
    BY <2>1, <2>2, <2>3
<1> HIDE DEF t
<1>3. QueuedTask(t) /\ taskdb[t] = "ACTIVE"
  BY <1>2 DEF QueuedTask, PlainInv, QueueInv
<1>4. taskdb'[t] = s /\ \A u \in Tasks : u # t => taskdb'[u] = taskdb[u]
  BY <1>1, <1>2 DEF TypeOK
<1>5. Pushing => hand # t /\ hand \in Tasks
  BY <1>3 DEF PlainInv, QueueInv, TypeOK, FormInv
<1>6. /\ Pushing' <=> Pushing
      /\ \A k : Released(k)' <=> Released(k)
  BY <1>1 DEF Pushing, Released
<1>7. \A u : QueuedTask(u)' => QueuedTask(u) /\ u # t
  <2>1. SUFFICES ASSUME NEW u, NEW i \in 1..Len(queue'), queue'[i].task = u
                 PROVE  QueuedTask(u) /\ u # t
    BY DEF QueuedTask
  <2>2. i + 1 \in 1..Len(queue) /\ queue[i + 1].task = u /\ i + 1 # 1
    BY <1>2, <2>1
  <2>3. Distinct
    BY DEF PlainInv, QueueInv
  <2> QED
    BY <1>2, <2>2, <2>3 DEF QueuedTask, Distinct
<1>8. \A u : QueuedTask(u) => QueuedTask(u)' \/ u = t
  <2>1. SUFFICES ASSUME NEW u, NEW i \in 1..Len(queue), queue[i].task = u, u # t
                 PROVE  \E j \in 1..Len(queue') : queue'[j].task = u
    BY DEF QueuedTask
  <2>2. i - 1 \in 1..Len(queue') /\ queue'[i - 1] = queue[(i - 1) + 1]
    BY <1>2, <2>1
  <2> QED
    BY <2>1, <2>2, <1>2
<1>9. Distinct'
  <2>1. Distinct
    BY DEF PlainInv, QueueInv
  <2>2. SUFFICES ASSUME NEW i \in 1..Len(queue'), NEW j \in 1..Len(queue'),
                        queue'[i].task = queue'[j].task
                 PROVE  i = j
    BY DEF Distinct
  <2>3. i + 1 = j + 1
    BY <1>2, <2>1, <2>2 DEF Distinct
  <2> QED
    BY <1>2, <2>3
<1>10. RowInv'
  <2>1. \A u \in initTasks : taskdb'[u] = "INIT"
    BY <1>3, <1>4 DEF PlainInv, CoreInv, RowInv, TypeOK
  <2>2. \A k \in DOMAIN cache : ~Released(k) => taskdb'[cache[k]] = "CHECKING"
    BY <1>3, <1>4 DEF PlainInv, CoreInv, RowInv, TypeOK
  <2> QED
    BY <1>1, <1>4, <1>5, <1>6, <1>7, <1>9, <2>1, <2>2 DEF PlainInv, CoreInv, RowInv
<1>11. CheckInv'
  <2>1. Pushing => CheckTask(hand)'
    BY <1>1 DEF PlainInv, CheckInv, CheckTask, Required, Project
  <2>2. \A u \in okTasks : taskdb'[u] \in OkStatus
    BY <1>3, <1>4 DEF PlainInv, CheckInv, OkStatus, TypeOK
  <2> QED
    BY <1>1, <1>6, <2>1, <2>2 DEF CheckInv
<1>12. PushInv'
  <2>1. \A u \in Tasks : u = hand => u # t
    <3>1. hand \in Tasks => Pushing
      BY Consts DEF FormInv
    <3> QED
      BY <1>5, <3>1
  <2> QED
    BY <1>1, <1>4, <2>1 DEF PlainInv, CoreInv, PushInv, PushedOnce
<1>13. CacheInv'
  BY <1>1, <1>3, <1>4 DEF PlainInv, CoreInv, CacheInv, Checking, Cached
<1>14. QueueInv'
  <2>1. \A u \in Tasks : QueuedTask(u)' => taskdb'[u] = "ACTIVE"
    BY <1>4, <1>7 DEF PlainInv, QueueInv
  <2>2. Pushing' => ~QueuedTask(hand)'
    <3>1. \A u : u = hand => (Pushing => ~QueuedTask(u)')
      BY <1>7 DEF PlainInv, QueueInv
    <3> QED
      BY <1>1, <1>6, <3>1
  <2>3. ReleasedIsQueued'
    BY <1>1, <1>3, <1>4, <1>8 DEF PlainInv, QueueInv, ReleasedIsQueued, QueuedTask
  <2> QED
    BY <1>9, <2>1, <2>2, <2>3 DEF QueueInv
<1> QED
  BY <1>10, <1>11, <1>12, <1>13, <1>14 DEF PlainInv, CoreInv

\* A crash empties the memory; what it held is in the rows.
LEMMA PlainCrash ==
  ASSUME TypeInv, CoreInv, Crash
  PROVE  Keeps
<1> USE DEF TypeInv
<1>1. /\ UNCHANGED <<taskdb, queue, pushed, lost>>
      /\ DOMAIN cache' = {} /\ initTasks' = {} /\ okTasks' = {}
      /\ hand' = NoTask /\ pc' = "down" /\ crashes' = crashes + 1
  BY DEF Crash, Empty, storeVars, history
<1>2. ~Pushing'
  BY <1>1 DEF Pushing
<1>3. RowInv'
  BY <1>1, <1>2 DEF CoreInv, RowInv
<1>4. CheckInv => CheckInv'
  BY <1>1, <1>2 DEF CheckInv
<1>5. PushInv'
  BY <1>1, Consts DEF CoreInv, PushInv, PushedOnce
<1>6. CacheInv'
  BY <1>1 DEF CacheInv
<1>7. QueueInv => QueueInv'
  <2> SUFFICES ASSUME QueueInv PROVE QueueInv'
    OBVIOUS
  <2>1. Distinct' /\ ~Pushing' /\ crashes' # 0
    BY <1>1, <1>2 DEF QueueInv, Distinct, TypeOK
  <2> QED
    BY <1>1, <2>1 DEF QueueInv, QueuedTask, ReleasedIsQueued
<1> QED
  BY <1>3, <1>4, <1>5, <1>6, <1>7 DEF CoreInv, Keeps

\* A step of the process itself, of time, or of the others on the rows, the
\* workers left out.
Own ==
  \/ InitLoad \/ Execute \/ Crash \/ Tick
  \/ \E t \in Tasks : Create(t) \/ Pass(t)

Edit == \E p \in Projects, s \in Edits : UserEdit(p, s)

\* These steps keep the rows and the cache in agreement, whatever is queued.
LEMMA OwnStep ==
  ASSUME MaxFaults = 0, TypeInv, CoreInv, Own \/ Edit \/ UNCHANGED vars
  PROVE  Keeps
<1>1. ~PushThrows
  BY NoFaults DEF PushThrows
<1>2. CASE InitLoad
  BY <1>2, PlainLoad
<1>3. CASE Execute
  <2>1. CASE \E t \in Tasks : ReleaseInit(t) \/ ParkInit(t)
    BY <2>1, PlainReleaseInit, PlainParkInit
  <2>2. CASE \E t \in Tasks : ReleaseChecked(t) \/ ParkAgain(t) \/ Drop(t)
    BY <2>2, PlainReleaseChecked, PlainParkAgain, PlainDrop
  <2>3. CASE PushInit \/ PushCache
    BY <2>3, PlainPush
  <2> QED
    BY <1>1, <1>3, <2>1, <2>2, <2>3, PlainRest DEF Execute
<1>4. CASE Crash
  BY <1>4, PlainCrash
<1>5. CASE \E t \in Tasks : Create(t) \/ Pass(t)
  BY <1>5, PlainRows
<1> QED
  BY <1>2, <1>3, <1>4, <1>5, PlainRest DEF Own, Edit

\* What such a step may do to the row of t.
Moves(t) ==
  \E s \in RowStatus :
    /\ taskdb' = [taskdb EXCEPT ![t] = s]
    /\ UNCHANGED crashes /\ hand' = IF s = "ACTIVE" THEN t ELSE hand
    /\ \/ taskdb[t] = "NONE" /\ s = "INIT"
       \/ taskdb[t] = "INIT" /\ s = "CHECKING"
       \/ /\ taskdb[t] \in {"INIT", "CHECKING"} /\ s = "ACTIVE"
          /\ CheckTask(t) /\ pc \in {"init", "cache"}
       \/ taskdb[t] = "CHECKING" /\ s \in {"IGNORED", "STOP", "DELETE"}
       \/ taskdb[t] = "FAIL" /\ s = "PASSED"

\* They move a row, or push the task in hand, or neither.
LEMMA OwnMoves ==
  ASSUME MaxFaults = 0, TypeInv, CoreInv, Own
  PROVE  /\ UNCHANGED <<projectdb, faults>>
         /\ \/ /\ UNCHANGED <<taskdb, queue, pushed>>
               /\ UNCHANGED <<hand, crashes>> \/ crashes' = crashes + 1
            \/ UNCHANGED <<queue, pushed>> /\ \E t \in Tasks : Moves(t)
            \/ /\ Pushing /\ UNCHANGED <<taskdb, crashes>>
               /\ Push([task |-> hand, retry |-> 0])
               /\ pushed' = [pushed EXCEPT ![hand] = @ + 1]
<1> USE DEF TypeInv
<1> DEFINE Goal == /\ UNCHANGED <<projectdb, faults>>
                   /\ \/ /\ UNCHANGED <<taskdb, queue, pushed>>
                         /\ UNCHANGED <<hand, crashes>> \/ crashes' = crashes + 1
                      \/ UNCHANGED <<queue, pushed>> /\ \E t \in Tasks : Moves(t)
                      \/ /\ Pushing /\ UNCHANGED <<taskdb, crashes>>
                         /\ Push([task |-> hand, retry |-> 0])
                         /\ pushed' = [pushed EXCEPT ![hand] = @ + 1]
<1>1. ~Fault /\ ~PushThrows
  BY NoFaults DEF PushThrows
<1>2. CASE \/ InitLoad \/ LoadProjects \/ LoadInitTasks \/ LoadSuccessOrPassed
           \/ InitDone \/ CacheDone \/ Crash \/ Tick
           \/ (\E t \in Tasks : Orphan(t))
  BY <1>1, <1>2 DEF InitLoad, LoadProjects, LoadInitTasks, LoadSuccessOrPassed,
    Read, Orphan, InitDone, CacheDone, Crash, Tick, storeVars, history, memory
<1>3. CASE PushInit \/ PushCache
  BY <1>1, <1>3 DEF PushInit, PushCache, PushHand, Pushing
<1>4. ASSUME NEW t \in Tasks, \/ ReleaseInit(t) \/ ParkInit(t) \/ Create(t)
                              \/ Pass(t) \/ ReleaseChecked(t) \/ ParkAgain(t)
                              \/ Drop(t)
      PROVE  Goal
  <2>1. /\ UNCHANGED <<projectdb, queue, pushed, faults, crashes>>
        /\ hand' = hand \/ ReleaseInit(t) \/ ReleaseChecked(t)
    BY <1>1, <1>4 DEF ReleaseInit, ParkInit, Create, Pass, ReleaseChecked,
      ParkAgain, Drop, Park, SaveChecking, SaveOneTask, history, memory
  <2>2. ASSUME \/ ReleaseChecked(t) \/ ParkAgain(t) \/ Drop(t)
        PROVE  taskdb[t] = "CHECKING" /\ pc = "cache"
    <3>1. pc = "cache" /\ FirstKey(cache) \in DOMAIN cache
          /\ cache[FirstKey(cache)] = t
      BY <2>2, DueKey DEF ReleaseChecked, ParkAgain, Drop, Check
    <3> QED
      BY <3>1 DEF CoreInv, RowInv, Released
  <2>3. ASSUME ReleaseInit(t) \/ ParkInit(t)
        PROVE  taskdb[t] = "INIT" /\ pc = "init"
    BY <2>3 DEF ReleaseInit, ParkInit, Visit, CoreInv, RowInv
  <2>4. CASE Create(t) \/ Pass(t)
    BY <2>1, <2>4 DEF Create, Pass, Moves, memory, RowStatus, TaskStatus
  <2>5. CASE ReleaseInit(t) \/ ReleaseChecked(t)
    <3>1. /\ taskdb' = [taskdb EXCEPT ![t] = "ACTIVE"] /\ CheckTask(t) /\ hand' = t
          /\ taskdb[t] \in {"INIT", "CHECKING"} /\ pc \in {"init", "cache"}
      BY <1>1, <2>2, <2>3, <2>5 DEF ReleaseInit, ReleaseChecked, SaveOneTask
    <3> QED
      BY <2>1, <3>1 DEF Moves, RowStatus, TaskStatus
  <2>6. CASE ParkInit(t)
    <3>1. /\ taskdb' = [taskdb EXCEPT ![t] = "CHECKING"] /\ taskdb[t] = "INIT"
          /\ UNCHANGED hand
      BY <2>3, <2>6, NoFaults DEF ParkInit, Park
    <3> QED
      BY <2>1, <3>1 DEF Moves, RowStatus, TaskStatus
  <2>7. CASE ParkAgain(t)
    <3>1. /\ taskdb' = [taskdb EXCEPT ![t] = "CHECKING"] /\ taskdb[t] = "CHECKING"
          /\ UNCHANGED hand
      BY <2>2, <2>7, NoFaults DEF ParkAgain, Park
    <3> QED
      BY <2>1, <3>1 DEF TypeOK
  <2>8. CASE Drop(t)
    <3>1. PICK s \in {"IGNORED", "STOP", "DELETE"} :
            /\ taskdb' = [taskdb EXCEPT ![t] = s] /\ taskdb[t] = "CHECKING"
            /\ UNCHANGED hand
      BY <2>2, <2>8, NoFaults DEF Drop
    <3> QED
      BY <2>1, <3>1 DEF Moves, RowStatus, TaskStatus
  <2> QED
    BY <1>4, <2>4, <2>5, <2>6, <2>7, <2>8
<1> QED
  BY <1>1, <1>2, <1>3, <1>4 DEF Own, Execute

\* What is known of the projects is what the last execution has read.
LEMMA OwnProjects ==
  ASSUME MaxFaults = 0, TypeInv, Own
  PROVE  \/ /\ UNCHANGED projectMap
            /\ pc \in {"down", "idle"} => pc' \in {"down", "idle"}
         \/ projectMap' = projectdb
         \/ pc' = "down"
<1> USE DEF TypeInv
<1>1. ~Fault /\ ~PushThrows
  BY NoFaults DEF PushThrows
<1>2. CASE InitLoad \/ Crash \/ Tick \/ \E t \in Tasks : Create(t) \/ Pass(t)
  BY <1>2 DEF InitLoad, Crash, Tick, Create, Pass, memory
<1>3. CASE LoadProjects \/ LoadInitTasks \/ LoadSuccessOrPassed
  BY <1>1, <1>3 DEF LoadProjects, LoadInitTasks, LoadSuccessOrPassed
<1>4. CASE \E t \in Tasks : Orphan(t) \/ ReleaseInit(t) \/ ParkInit(t)
  BY <1>4 DEF Orphan, ReleaseInit, ParkInit, Visit
<1>5. CASE PushInit \/ InitDone \/ PushCache \/ CacheDone
  BY <1>5 DEF PushInit, InitDone, PushCache, CacheDone, memory
<1>6. CASE \E t \in Tasks : ReleaseChecked(t) \/ ParkAgain(t) \/ Drop(t)
  BY <1>6 DEF ReleaseChecked, ParkAgain, Drop, Check
<1> QED
  BY <1>1, <1>2, <1>3, <1>4, <1>5, <1>6 DEF Own, Execute

\* Time goes forward.
LEMMA OwnClock ==
  ASSUME Own
  PROVE  UNCHANGED now \/ now' = now + 1
<1>1. CASE InitLoad \/ Crash \/ Tick \/ \E t \in Tasks : Create(t) \/ Pass(t)
  BY <1>1 DEF InitLoad, Crash, Tick, Create, Pass
<1>2. CASE LoadProjects \/ LoadInitTasks \/ LoadSuccessOrPassed
  BY <1>2 DEF LoadProjects, LoadInitTasks, LoadSuccessOrPassed
<1>3. CASE \E t \in Tasks : Orphan(t) \/ ReleaseInit(t) \/ ParkInit(t)
  BY <1>3 DEF Orphan, ReleaseInit, ParkInit
<1>4. CASE PushInit \/ PushThrows \/ InitDone \/ PushCache \/ CacheDone
  BY <1>4 DEF PushInit, PushThrows, InitDone, PushCache, CacheDone
<1>5. CASE \E t \in Tasks : ReleaseChecked(t) \/ ParkAgain(t) \/ Drop(t)
  BY <1>5 DEF ReleaseChecked, ParkAgain, Drop
<1> QED
  BY <1>1, <1>2, <1>3, <1>4, <1>5 DEF Own, Execute

\* Every step keeps the rows, the cache and the queue in agreement.
LEMMA PlainStep ==
  ASSUME MaxFaults = 0, TypeInv, PlainInv, [Next]_vars
  PROVE  PlainInv'
<1>1. CASE WorkAny
  BY <1>1, PlainWork DEF WorkAny
<1>2. CASE Own \/ Edit \/ UNCHANGED vars
  BY <1>2, OwnStep DEF PlainInv, Keeps
<1> QED
  BY <1>1, <1>2 DEF Next, Own, Edit

\* At first there are no rows.
LEMMA PlainInit == Init => PlainInv
<1> SUFFICES ASSUME Init PROVE PlainInv
  OBVIOUS
<1>1. /\ Len(queue) = 0 /\ DOMAIN cache = {} /\ initTasks = {} /\ okTasks = {}
      /\ pc = "down" /\ hand = NoTask
      /\ \A t \in Tasks : taskdb[t] = "NONE" /\ pushed[t] = 0
  BY DEF Init, Empty
<1>2. ~Pushing /\ \A t : ~QueuedTask(t)
  BY <1>1 DEF Pushing, QueuedTask
<1>3. RowInv
  BY <1>1, <1>2 DEF RowInv
<1>4. CheckInv /\ PushInv /\ CacheInv
  BY <1>1, <1>2, Consts DEF CheckInv, PushInv, PushedOnce, CacheInv
<1>5. QueueInv
  BY <1>1, <1>2 DEF QueueInv, Distinct, ReleasedIsQueued
<1> QED
  BY <1>3, <1>4, <1>5 DEF PlainInv, CoreInv

\* Hence they agree in every state.
LEMMA PlainAlways ==
  ASSUME MaxFaults = 0
  PROVE  Spec => []PlainInv
<1>1. TypeInv /\ PlainInv /\ [Next]_vars => PlainInv'
  BY PlainStep
<1> QED
  BY <1>1, PlainInit, TypingInit, Typing, PTL DEF Spec

\* Without failed statements a task is pushed at most once, however often the
\* process dies between the statements of initLoad and execute.
THEOREM AtMostOnePush ==
  ASSUME MaxFaults = 0
  PROVE  Spec => []PushedOnce
<1>1. PlainInv => PushedOnce
  BY DEF PlainInv, CoreInv, PushInv
<1> QED
  BY <1>1, PlainAlways, PTL

\* Without failed statements no CHECKING row is forgotten between executions,
\* but for those whose key in the cache another task took.
THEOREM NoneForgotten ==
  ASSUME MaxFaults = 0
  PROVE  Spec => []CheckingIsCached
<1>1. PlainInv => CheckingIsCached
  BY DEF PlainInv, CoreInv, CacheInv, CheckingIsCached
<1> QED
  BY <1>1, PlainAlways, PTL

\* Without failed statements and crashes an ACTIVE row has a message in the
\* queue, or the trigger is about to push it.
THEOREM ActiveIsQueued ==
  ASSUME MaxFaults = 0
  PROVE  Spec => []ReleasedIsQueued
<1>1. PlainInv => ReleasedIsQueued
  BY DEF PlainInv, QueueInv
<1> QED
  BY <1>1, PlainAlways, PTL

\* Without failed statements the tasks that a task requires, of projects the
\* trigger knew, are done when it is pushed: the answers read from the store
\* earlier in the execution still hold.
THEOREM DependenciesDone ==
  ASSUME MaxFaults = 0
  PROVE  Spec => DependenciesRespected
<1> DEFINE Done == \A t \in Tasks : Pushes(t) =>
                     \A u \in Required(t) : taskdb[u] \in OkStatus
<1>1. TypeInv /\ PlainInv /\ [Next]_vars => [Done]_vars
  <2> SUFFICES ASSUME TypeInv, PlainInv, Next, NEW t \in Tasks, Pushes(t),
                      NEW u \in Required(t)
               PROVE  taskdb[u] \in OkStatus
    BY Zenon
  <2>1. Pushing /\ t = hand
    BY PushesHand
  <2>2. u \in okTasks
    BY <2>1 DEF PlainInv, CheckInv, CheckTask
  <2> QED
    BY <2>2 DEF PlainInv, CheckInv
<1> QED
  BY <1>1, PlainAlways, TypingInit, Typing, PTL DEF Spec, DependenciesRespected
=============================================================================
